--------------------------- MODULE MuxBackendProps ---------------------------
(***************************************************************************)
(* The properties of a connection over the multiplexer.                    *)
(***************************************************************************)
EXTENDS MuxBackend, Codec

CONSTANTS
    Headers,     \* headers of frames to encode and read
    Lens,        \* sizes of payloads
    Values       \* of arguments, for each type

\* The values of an argument: of a C integer, those of which no more than the
\* sign is left once all bytes but the highest are shifted out.
FitsIn(type, v) ==
    LET n == Width[type]
        low == IF type \in Signed THEN -128 ELSE 0
    IN  v \in Int /\ Rests(v, n)[n - 1] \in low..(low + 255)
Fits(type, v) ==
    CASE type = "STRING" -> v \in Seq(1..255)
      [] type = "BINARY" -> v \in Seq(0..255) /\ FitsIn("U32", Len(v))
      [] OTHER -> FitsIn(type, v)

\* What two bytes of a varint hold.
VarintMax == 16383

ASSUME FramesAssumption ==
    /\ Headers \subseteq [type : 1..4, id : 0..255, seq : 0..Uint16Max]
    /\ Lens \subseteq 0..VarintMax
    /\ DOMAIN Values = ArgTypes
    /\ \A type \in ArgTypes : \A v \in Values[type] : Fits(type, v)

-----------------------------------------------------------------------------
\* The variables hold values of their types.
TypeOK ==
    /\ ctl \in [state : {"idle", "pending", "connected"}, range : CtrlRanges,
                v : Versions, chan : BOOLEAN, link : {"OK", "KO"},
                by : Peers \cup {None}, first : 1..(MaxStarts + 1), log : Seq(Events)]
    /\ dev \in [on : BOOLEAN, pending : Peers \cup {None}, chan : Peers \cup {None}]
    /\ peer \in [Peers -> [state : {"none", "deaf", "pending", "connected", "gone"},
                           half : BOOLEAN, started : BOOLEAN, v : Versions,
                           link : {"OK", "KO"}, asked : 0..MaxStarts, log : Seq(Events)]]
    /\ req \in Seq([range : CtrlRanges, asked : 1..MaxStarts])
    /\ resp \in Seq([json : BOOLEAN, v : Versions, by : Peers])
    /\ starts \in 0..MaxStarts /\ turns \in 0..MaxTurns

\* The controller is told a connection's start, then either that it is
\* connected and later disconnected, or once that it is canceled, whatever
\* responses come late or twice (the callbacks of arsdkctrl_backend_mux.c).
CtrlToldOnce ==
    CASE ctl.state = "pending" -> ctl.log = <<"connecting">>
      [] ctl.state = "connected" -> ctl.log = <<"connecting", "connected">>
      [] OTHER -> ctl.log \in {<< >>, <<"connecting", "canceled">>,
                               <<"connecting", "connected", "disconnected">>}

\* Each peer is added, asked about and removed once, and one told connected is
\* told disconnected before it is removed, whether it is the application, the
\* backend or the manager that ends it (arsdk_mngr_destroy_peer).
PeerToldOnce ==
    \A p \in Peers :
      CASE peer[p].state = "pending" -> peer[p].log = <<"added", "conn_req">>
        [] peer[p].state = "connected" ->
             peer[p].log = <<"added", "conn_req", "connected">>
        [] peer[p].state = "gone" ->
             peer[p].log \in {<<"added", "conn_req", "removed">>,
               <<"added", "conn_req", "connected", "disconnected", "removed">>}
        [] OTHER -> peer[p].log = << >>

\* The version a connection uses is one of both sides', though the controller
\* does not check it and the response may answer an earlier request; but not
\* one of a controller that crashed since.
CommonVersion ==
    ctl.state = "connected" =>
      /\ ctl.v \in DevRange[1]..DevRange[2]
      /\ peer[ctl.by].asked >= ctl.first => ctl.v \in ctl.range[1]..ctl.range[2]

\* A controller that is connected was accepted by a peer whose application was
\* told so, with the same version: no failure on the device's side leaves a
\* controller connected to nobody.
ConnectedAccepted ==
    ctl.state = "connected" =>
      /\ \E i \in DOMAIN peer[ctl.by].log : peer[ctl.by].log[i] = "connected"
      /\ ctl.v = peer[ctl.by].v

\* Types hold, and: each application is told one end for each
\* beginning (arsdkctrl_backend_mux.c, arsdk_backend_mux.c).
ToldOnce == TypeOK /\ CtrlToldOnce /\ PeerToldOnce

\* Who is connected was accepted, at a version of both (backend_mux_rx_conn_resp).
Accepted == ConnectedAccepted /\ CommonVersion

\* After a reset no side goes on believing in its link: the controller's
\* status is KO without a channel, and if the device's is open for nobody, only
\* a peer whose channel an older one closed has not found out yet.
NoBlindLink ==
    /\ ctl.state = "connected" /\ ctl.link = "OK" => ctl.chan
    /\ \A p \in Peers :
         peer[p].started /\ peer[p].link = "OK" /\ dev.chan # p
           => \E q \in Peers : q < p /\ peer[q].state = "gone"

\* The values an application may give the arguments of a command.
ValuesOf(d) ==
    LET upTo[i \in 0..Len(d.args)] ==
          IF i = 0 THEN {<< >>}
          ELSE {Append(vals, v) : vals \in upTo[i - 1], v \in Values[d.args[i]]}
    IN  upTo[Len(d.args)]

\* A command that was encoded is found in the table and read as it was by
\* arsdk_cmd_dec and arsdk_cmd_get_values; a part of it, or as another command,
\* is not read at all; its text has all the arguments, if none is a binary.
CommandsUnderstood ==
    \A d \in Descs : \A vals \in ValuesOf(d) :
      LET argv == [i \in DOMAIN vals |-> [type |-> d.args[i], val |-> vals[i]]]
      IN  /\ EncodeCmd(d, argv) # {}
          /\ \A b \in EncodeCmd(d, argv) :
               /\ DecodeCmd(d, b) = {vals}
               /\ \A id \in DecodeHeader(b) :
                    FindDesc(id) = {d} /\ GetValues(id, b, Len(vals)) = {vals}
               /\ \A n \in 0..(Len(b) - 1) : DecodeCmd(d, SubSeq(b, 1, n)) = {}
               /\ \A other \in Descs \ {d} : DecodeCmd(other, b) = {}
               /\ "BINARY" \notin ToSet(d.args) => Formatted(d, b) = vals

\* A frame sent by either end of a connection, over the multiplexer or in a
\* datagram, is read by the other as it was sent: at the versions the two took
\* and for every size of the variable fields.  So is the command it holds.
FramesUnderstood ==
    ctl.state = "connected" =>
      /\ CommandsUnderstood
      /\ \A h \in Headers, n \in Lens :
          LET sent == Encoded(ctl.v, h, n)
              frames == {[header |-> Given(ctl.v, h),
                          size |-> Len(sent) - n, payload |-> n]}
          IN  /\ MuxRxData(peer[ctl.by].v, sent) = frames
              /\ ProcessRxbuf(peer[ctl.by].v, sent) = SetToSeq(frames)

-----------------------------------------------------------------------------
\* A backend that a request of no common version has left with a connection
\* nothing ends.
Deaf == dev.pending # None /\ peer[dev.pending].state = "deaf"

\* A connection's request that is in flight, or waits for the application,
\* while the device listens.
Requested ==
    /\ ctl.state = "pending" /\ Common(ctl.range) # {}
    /\ req # << >> \/ dev.pending # None
    /\ dev.on /\ ~Deaf

\* A request that the device can take is answered, unless something else
\* happens first: a stale request before it and a stale response do not stop it.
AnsweredWhenCalm ==
    \A k \in 0..MaxTurns :
      (Requested /\ turns = k) ~> (ctl.state # "pending" \/ turns # k)

\* A peer whose controller is gone for good finds out by its link, the only way
\* it has: the controller's disconnection is sent to nobody.
AbandonedToldKo ==
    \A p \in Peers :
      <>[](peer[p].state = "connected" /\ peer[p].started /\ ctl.state # "connected")
        => <>[](peer[p].link = "KO")
=============================================================================
