-------------------------------- MODULE Frame --------------------------------
(***************************************************************************)
(* The frames of the two transports (libarsdk/src/mux/                     *)
(* arsdk_transport_mux.c, libarsdk/src/net/arsdk_transport_net.c).  A      *)
(* frame of version 1 begins with the type of its data and ends where its  *)
(* size says; a later one begins with the version, moved past the types,   *)
(* and its sizes have a variable length.  A payload is as many Fill bytes. *)
(***************************************************************************)
EXTENDS Naturals, Sequences

TypeMax == 10          \* ARSDK_TRANSPORT_DATA_TYPE_MAX
V1Size == 7
V2SizeMin == 6
Fill == 99

\* Little endian, n bytes of four.
Bytes(x, n) == SubSeq(<<x % 256, (x \div 256) % 256, (x \div 65536) % 256,
                        (x \div 16777216) % 256>>, 1, n)
Value(b) == b[1] + 256 * b[2] + 65536 * b[3] + 16777216 * b[4]

\* libfutils, for values below 2^14: seven bits a byte, the high bit says that
\* more follow.
Varint(x) == IF x < 128 THEN <<x>> ELSE <<128 + (x % 128), x \div 128>>
VarintLen(b) == IF b[1] < 128 THEN 1 ELSE 2
ReadVarint(b) == IF b[1] < 128 THEN b[1] ELSE b[1] - 128 + 128 * b[2]
HasVarint(b) == Len(b) >= 1 /\ Len(b) >= VarintLen(b)

From(b, i) == SubSeq(b, i, Len(b))

-----------------------------------------------------------------------------
\* encode_header_v1: the size is that of the frame.
EncodeV1(h, n) == <<h.type, h.id, h.seq % 256>> \o Bytes(V1Size + n, 4)

\* Mutant: the size of the payload on one byte.
EncodeV2Byte(v, h, n) ==
    Varint(v + TypeMax) \o <<h.type, h.id>> \o Bytes(h.seq, 2) \o <<n % 256>>

\* encode_header_v2.
EncodeV2(v, h, n) ==
    Varint(v + TypeMax) \o <<h.type, h.id>> \o Bytes(h.seq, 2) \o Varint(n)

\* What arsdk_transport_mux_send_data encodes, and arsdk_transport_net_send_data.
Encoded(v, h, n) ==
    (IF v = 1 THEN EncodeV1(h, n) ELSE EncodeV2(v, h, n)) \o [i \in 1..n |-> Fill]

-----------------------------------------------------------------------------
\* A frame that was read: its header, the size of it and of the payload; no
\* frame if it is not valid.
Read(type, id, seq, size, n) ==
    {[header |-> [type |-> type, id |-> id, seq |-> seq], size |-> size, payload |-> n]}

\* decode_header_v1, of the multiplexer's transport.
DecodeV1(b) ==
    IF Value(From(b, 4)) < V1Size THEN {}
    ELSE Read(b[1], b[2], b[3], V1Size, Value(From(b, 4)) - V1Size)

\* That of the network's also refuses what a later version begins with.
NetDecodeV1(b) == IF b[1] >= TypeMax THEN {} ELSE DecodeV1(b)

\* read_proto_v: a number that is the type of version 1 is left where it is.
ProtoV(b) == IF ReadVarint(b) < TypeMax THEN 1 ELSE ReadVarint(b) - TypeMax

\* decode_header_v2.
DecodeV2(b) ==
    IF ~(HasVarint(b) /\ b[1] >= TypeMax /\ ProtoV(b) >= 2) THEN {}
    ELSE LET rest == From(b, VarintLen(b) + 1)
         IN  IF Len(rest) < 5 \/ ~HasVarint(From(rest, 5)) THEN {}
             ELSE LET size == From(rest, 5)
                  IN  Read(rest[1], rest[2], rest[3] + 256 * rest[4],
                           VarintLen(b) + 4 + VarintLen(size), ReadVarint(size))

HeaderMin(v) == IF v > 1 THEN V2SizeMin ELSE V1Size

\* transport_mux_rx_data: one frame.
MuxRxData(v, b) ==
    IF Len(b) < HeaderMin(v) THEN {}
    ELSE {r \in (IF v = 1 THEN DecodeV1(b) ELSE DecodeV2(b)) :
            r.size + r.payload <= Len(b)}

\* A turn of the loop of process_rxbuf, at byte st.at of a datagram.  The size of
\* header expected of a frame is that of the one before.
Process(v, b, st) ==
    LET rs == IF st.at + st.expected - 1 > Len(b) THEN {}
              ELSE {r \in (IF v = 1 THEN NetDecodeV1(From(b, st.at))
                           ELSE DecodeV2(From(b, st.at))) :
                      st.at + r.size + r.payload - 1 <= Len(b)}
        r == CHOOSE one \in rs : TRUE
    IN  IF rs = {} THEN st
        ELSE [at |-> st.at + r.size + r.payload,
              expected |-> IF v = 1 THEN V1Size ELSE r.size,
              frames |-> Append(st.frames, r)]

\* process_rxbuf: the frames of a datagram, of which each takes V2SizeMin bytes
\* or more.
ProcessRxbuf(v, b) ==
    LET most == Len(b) \div V2SizeMin
        turn[k \in 0..most] ==
          IF k = 0 THEN [at |-> 1, expected |-> HeaderMin(v), frames |-> << >>]
          ELSE Process(v, b, turn[k - 1])
    IN  turn[most].frames

-----------------------------------------------------------------------------
\* What a receiver is to be given of header h: the sequence number is cut to
\* eight bits in version 1.
Given(v, h) == IF v = 1 THEN [h EXCEPT !.seq = @ % 256] ELSE h
=============================================================================
