----------------------------- MODULE MuxServices -----------------------------
(***************************************************************************)
(* The interfaces that talk to a device on channels of the multiplexer:    *)
(* the firmware upload (libarsdkctrl/src/updater/                          *)
(* arsdk_updater_transport_mux.c), which sends one chunk at a time, and    *)
(* the black box (arsdk_blackbox_itf.c), which passes messages to its      *)
(* listeners.  The multiplexer delivers in order; what the device does is  *)
(* external.  One upload is followed: a channel that is closed is not      *)
(* opened again.                                                           *)
(***************************************************************************)
EXTENDS Naturals, Sequences

CONSTANTS Chunks,      \* the chunks of a firmware
          Listeners    \* the listeners of the black box

ASSUME MuxAssumption == Chunks \in Nat \ {0}

VARIABLES mup,       \* the upload
          toDev,     \* the messages to the device on the update channel
          toCtl,     \* the messages from it
          dev,       \* external: the firmware that the device receives
          box        \* the listeners, and those told that they no longer are

muxVars == <<mup, toDev, toCtl, dev, box>>

\* written counts the chunks sent, id is the last one's number.
NoUpload == [st |-> "none", written |-> 0, id |-> 0, percent |-> 0, told |-> << >>]

MuxInit == /\ mup = NoUpload
           /\ toDev = << >> /\ toCtl = << >>
           /\ dev = [st |-> "idle", got |-> << >>]
           /\ box = [open |-> TRUE, in |-> {}, out |-> {}]

MuxTypeOK ==
    /\ mup.st \in {"none", "open", "done"}
    /\ mup.written \in 0..Chunks /\ mup.id \in 0..Chunks /\ mup.percent \in 0..Chunks
    /\ dev.st \in {"idle", "receiving", "done"}
    /\ box.in \subseteq Listeners /\ box.out \subseteq Listeners

\* updater_mux_send_next_chunk: at the end of the file nothing is sent.
SendChunk(u) ==
    IF u.written < Chunks
    THEN /\ mup' = [u EXCEPT !.written = @ + 1]
         /\ toDev' = Append(toDev, <<"CHUNK", u.id>>)
    ELSE mup' = u /\ UNCHANGED toDev

\* update_mux_notify_status: the application is told, the channel closed.
Notify(status) ==
    /\ mup' = [mup EXCEPT !.st = "done", !.told = Append(@, status)]
    /\ UNCHANGED toDev

-----------------------------------------------------------------------------
\* arsdk_updater_transport_mux_create_req_upload.
MuxCreate ==
    /\ mup.st = "none"
    /\ mup' = [mup EXCEPT !.st = "open"]
    /\ toDev' = Append(toDev, <<"UPDATE_REQ", 0>>)
    /\ UNCHANGED <<toCtl, dev, box>>

\* updater_mux_channel_recv; a channel that is closed drops the message.
UpdateResp(m) ==
    /\ m[1] = "UPDATE_RESP"
    /\ IF m[2] = 0 THEN SendChunk([mup EXCEPT !.written = 0, !.id = 0])
       ELSE Notify("FAILED")

\* Mutant: all the chunks have the same number.
ChunkAckSame(m) ==
    /\ m[1] = "CHUNK_ACK"
    /\ IF m[2] # mup.id THEN Notify("FAILED")
       ELSE SendChunk([mup EXCEPT !.percent = mup.written])

ChunkAck(m) ==
    /\ m[1] = "CHUNK_ACK"
    /\ LET u == [mup EXCEPT !.percent = mup.written]
       IN  IF m[2] # mup.id THEN Notify("FAILED")
           ELSE IF mup.written < Chunks THEN SendChunk([u EXCEPT !.id = @ + 1])
           ELSE mup' = u /\ UNCHANGED toDev

UpdateStatus(m) ==
    /\ m[1] = "STATUS"
    /\ Notify(IF m[2] = 0 THEN "OK" ELSE "FAILED")

MuxReceive ==
    /\ toCtl # << >>
    /\ toCtl' = Tail(toCtl)
    /\ IF mup.st = "open"
       THEN LET m == Head(toCtl) IN UpdateResp(m) \/ ChunkAck(m) \/ UpdateStatus(m)
       ELSE UNCHANGED <<mup, toDev>>
    /\ UNCHANGED <<dev, box>>

\* The channel is reset.
MuxReset ==
    /\ mup.st = "open"
    /\ Notify("FAILED")
    /\ UNCHANGED <<toCtl, dev, box>>

\* arsdk_updater_mux_req_upload_cancel; the interface's stop aborts.
MuxCancel(status) ==
    /\ mup.st = "open"
    /\ Notify(status)
    /\ UNCHANGED <<toCtl, dev, box>>

-----------------------------------------------------------------------------
\* External: the device accepts or refuses, acknowledges each chunk, at times
\* with another number, and says at the end whether the firmware is good.
DeviceAnswers(status) ==
    /\ toDev # << >>
    /\ LET m == Head(toDev)
           got == IF m[1] = "CHUNK" THEN Append(dev.got, m[2]) ELSE << >>
           whole == Len(got) = Chunks
       IN  /\ dev' = [st |-> IF whole \/ status # 0 THEN "done" ELSE "receiving", got |-> got]
           /\ toCtl' = IF m[1] = "UPDATE_REQ" THEN Append(toCtl, <<"UPDATE_RESP", status>>)
                       ELSE IF whole
                       THEN toCtl \o << <<"CHUNK_ACK", m[2]>>, <<"STATUS", status>> >>
                       ELSE Append(toCtl, <<"CHUNK_ACK", m[2] + status>>)
    /\ toDev' = Tail(toDev)
    /\ UNCHANGED <<mup, box>>

-----------------------------------------------------------------------------
\* arsdk_blackbox_itf_create_listener, arsdk_blackbox_listener_unregister.
BoxListen(l) ==
    /\ box.open /\ l \notin box.in \cup box.out
    /\ box' = [box EXCEPT !.in = @ \cup {l}]
    /\ UNCHANGED <<mup, toDev, toCtl, dev>>

BoxUnregister(l) ==
    /\ l \in box.in
    /\ box' = [box EXCEPT !.in = @ \ {l}, !.out = @ \cup {l}]
    /\ UNCHANGED <<mup, toDev, toCtl, dev>>

\* The stop of both interfaces.
MuxStopped ==
    /\ mup' = IF mup.st = "open"
              THEN [mup EXCEPT !.st = "done", !.told = Append(@, "ABORTED")] ELSE mup
    /\ box' = [open |-> FALSE, in |-> {}, out |-> box.out \cup box.in]
    /\ UNCHANGED <<toDev, toCtl, dev>>
=============================================================================
