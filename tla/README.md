# A TLA+ model of arsdk-ng

arsdk-ng connects a controller (phone, remote) to a device (drone). Two C
libraries implement it: `libarsdk` (what both ends share, and the device's
end) and `libarsdkctrl` (the controller's end). Everything runs in callbacks of
one `pomp_loop` event loop per process: there are no locks and no threads, and
what is hard is what crosses the loop: a lossy datagram link, timers shared by
several users, connections that fail half way, and application callbacks that
call back into the object that is calling them.

This directory holds TLA+ modules for the parts of the system whose behaviour
is worth that effort, the TLC configurations that check them, and proofs TLAPS
checks.

## Inventory

| Component | Source | State it keeps | Hard part | Must hold |
|---|---|---|---|---|
| Command interface v1 | `cmd_itf/arsdk_cmd_itf1.c` | transmit queues (entries, sequence number, last send), one timer, `recv_seq` per queue | loss, duplication, wrap of an 8-bit number, refusals, a timer shared by all queues, re-entrant callbacks | each command is reported done once; ACK_RECEIVED means delivered; in order, no duplicates; no stall |
| Command interface v2 | `cmd_itf/arsdk_cmd_itf2.c` | transmit queues, each with the pack it is sending, one timer, `recv_seq` | several commands in a pack, which is retried as it was while others are queued | an acknowledgement completes what the pack held, once |
| Command interface v3 | `cmd_itf/arsdk_cmd_itf3.c` | as v1, plus the current pack, the last pack, and a partial command per receive queue | commands packed together or split over packs, retried per pack | a split command is reassembled whole; a pack is counted once |
| Facade | `cmd_itf/arsdk_cmd_itf.c` | the version in use | none | - |
| Link monitoring | `arsdk_transport.c` | link status, running ping, failures, timer | pong late or lost, status told from an idle callback | KO only after silence, always after silence; no callback after stop |
| Datagram transport | `net/arsdk_transport_net.c` | socket, receive buffer with a half-received frame | partial frames, errors of the socket | frames are cut where they were joined |
| Handshake, device side | `net/arsdk_backend_net.c`, `arsdk_backend.c`, `arsdk_peer.c` | listening context, one pending connection, the peer | request while another is pending, versions, disconnect before the answer | the application gets one end for each beginning |
| Handshake, controller side | `net/arsdkctrl_backend_net.c`, `arsdkctrl_backend.c`, `arsdk_device.c` | connection state, TCP context, transport | reconnection, refusals, cancel from a callback | as above |
| Mux | `mux/*`, `libarsdkctrl/src/mux/*` | the same two handshakes over libmux channels, one channel for the transports | channel reset at any time, answers that do not say what they answer, nobody told of a disconnection | as above; a link that is gone is found |
| Manager | `arsdk_mngr.c` | lists of backends and peers | removal while iterating | a peer is told its end before it goes |
| Controller and discovery | `arsdk_ctrl.c`, `arsdk_discovery.c`, `net/arsdk_discovery_*.c`, `mux/arsdk_discovery_mux.c`, `net/arsdk_avahi_loop.c` | devices, discoveries and the number of their run, services by name | a device lost and seen again, removed while it is connected | each listed once, in the end exactly those that publish |
| Publishers | `net/arsdk_publisher_*.c`, `mux/arsdk_publisher_mux.c` | the running publication | started before or after the discovery | as above |
| Encoder, decoder | `arsdk_encoder.c`, `arsdk_decoder.c` | none | bounds, formats | decode inverts encode |
| FTP client | `ftp/*` | control and data connections, step of the current command, queue of requests | replies out of phase, timeouts, lost connection | one completion per request |
| FTP interface | `arsdk_ftp_itf.c` | requests, those not yet given to the client included | cancel and stop before the start | one completion per request |
| Media, crash log, flight log, PUD, ephemeris | `arsdk_media_itf.c`, ... | request, list of files, current file | a file fails among many, a local directory several share | a file is deleted only after it was saved |
| Black box | `arsdk_blackbox_itf.c` | listeners | the connection ends | each listener is told |
| Updater | `arsdk_updater_itf.c`, `updater/*` | current request over ftp or mux | one of two files fails, channel reset | told installed only when it is |
| Log | `libarsdklog` | - | - | - |
| Python bindings, examples, tests, tools | - | - | - | - |

Who calls whom: an application owns an `arsdk_mngr` (device) or `arsdk_ctrl`
(controller); these own backends (net, mux). A backend's handshake creates an
`arsdk_peer` or an `arsdk_device`, and when it succeeds gives it a transport.
The peer or device then creates one `arsdk_cmd_itf` over that transport, of the
version the handshake agreed on. The transport calls back up with received
frames and link status; the command interface calls back up with commands and
send statuses.

## Command interface, version 1

Modules `CmdItf1` (the model), `CmdItf1Props` (what it promises), `CmdChannel`
(the abstract specification), `MCCmdItf1` (instances), `CmdItf1_proofs`
(theorems).

| TLA+ | C |
|---|---|
| `tx[q]`: `entries`, `seq`, `txAge` | `tx_queues[q]`: the ring of entries, `seq`, time since `last_sent_ts` |
| `timer` | the one `pomp_timer` of the interface, `Off` when cleared |
| `up` | `self->transport != NULL` |
| `recv`, `delivered` | `recv_seq[]` of the other peer, calls of its `recv_cmd` |
| `data`, `acks` | datagrams in the network, one channel per queue and direction |
| `sent`, `done`, `serial`, `rserial`, `synced` | history: commands accepted, done notifications, numbers before they wrap |
| `Send`, `TimerCb`, `RecvAck`, `Stop`, `RecvData` | `arsdk_cmd_itf1_send`, `timer_cb`, `recv_data` of an acknowledgement, `_stop`, `recv_data` at the other peer |
| `CheckTxQueues` | `check_tx_queues`: run by the first three, over all queues, with the socket accepting any number of datagrams before it refuses |
| `LoseData`, `LoseAck`, `Tick`, the `copy` and `i` parameters | the network and the clock |

Left out: the payloads, logging, the link quality counters, and the PACKED
notification of a command that waits for an acknowledgement (done = 0). The
receiving peer is not stopped: a stopped one is a link that loses everything.

Runs:

| cfg | shows |
|---|---|
| `CmdItf1_ack` | a queue with one retry beside a rate limited one that overwrites; loss, duplication, refusals: `TypeOK`, `DoneOnce`, and `Delivered`: what is acknowledged was delivered (`AckSound`), in order and once (`InOrderOnce`); `EventuallyGivenUp` with a fair timer only, whatever the link loses |
| `CmdItf1_forever` | a queue that retries for ever refines `CmdChannel`, though a datagram may overtake another; `EventuallyDone` when the link is fair |

Bounds. `SeqSize` stands for 256 and `Window` 1 for 10: the code only compares
distances with the window and the width. `AckSound` needs
unambiguous numbers and says so (`synced`: the sender is never ahead of anything the
receiver or the network still holds by `SeqSize - Window`); `InOrderOnce` does
not, on a link that keeps the order (`MaxReorder = 0`). A refused send uses
up a number, so that with refusals 3 commands need more numbers than width 4
has and they wrap; in `CmdItf1_forever` the width is 8, since a datagram
overtaken across a wrap is taken for a new one. `MaxFlight` 2
leaves room for a duplicate next to a fresh frame. `RetryCap` is one more than
what any comparison can tell apart. An acknowledgement timeout of one tick is
enough for every order of timer, loss and late acknowledgement, and a rate limit
of one tick for a datagram that comes too soon, at once or later. The socket refuses
datagrams only until a queue has used `RefuseUntil` numbers, so that the state
space ends.

`EventuallyGivenUp` excepts what the code does to its own timer: a datagram that
the socket refuses asks for no timeout, and a rate limited queue that has just sent
asks for one of zero, which clears the timer (see the end). If nothing happens
after that, the commands wait (`Stalled`). So does all that is behind a command
sent for ever (`Insists`). Otherwise each command ends.

Fairness. `TimerSpec`: the loop serves an expired timer and time passes.
`LinkSpec` adds strong fairness of each receipt: a datagram that is in the
network again and again is received eventually. This is the usual assumption
for a lossy link, and only the queue that never gives up needs it. Both are
written with the conditions under which the actions can be taken instead of
`ENABLED`, which TLC evaluates much faster.

Proved, for all constants that satisfy the assumptions: `TypeCorrect`,
`DoneExactlyOnce`, `AcknowledgedWereDelivered` and `ChannelIsImplemented`
(`CmdItf1_proofs`).
`DoneOnce` alone is inductive only with
the fact that the entries of the queues have distinct names that were accepted
and not yet reported; `Accounted(tx, done, sent)` states it for arbitrary
arguments so that the lemmas can follow the queues through one handler: the
entry added or acknowledged first, then every queue's pass.

`AcknowledgedWereDelivered` is `Spec => []Delivered`. Its invariant
(`DeliveryInv`) follows each queue and the marks its frames left in the network
and at the receiver: a mark is a number, the serial number it stands for before it
wrapped, and a command. `Shaped`: only the head of a queue was ever sent, and the queue's number is
that of its serial number; `Agrees`: a serial number belongs to one command, the
head's if the head was sent; `Ordered`: later serial numbers belong to later
commands, unless the queue overwrites. The lemmas about numbers
(`NumberUnique`, `NewerIsProcessed`) say that within the window a number tells
its serial number, and that a newer frame is never taken for an old one; they
are what `synced` is for. An acknowledgement that completes the head therefore
answers a frame of the head that the receiver had processed.

`ChannelIsImplemented` is `Spec => ImplementsChannel`: every step of the
interface is a step of `CmdChannel` or a stutter. It is about one acknowledged
queue that never gives up (`Alone`), on a link where numbers are unambiguous
(`Unambiguous`): the socket refuses nothing, since a refusal uses up a number and
246 of them in a row make a new frame look old; and datagrams keep their
order, or overtake each other within the window while the number does not
wrap, since one overtaken across a wrap is handled twice. Its invariant
(`ChanInv`) counts. `Counted`: the serial number of the queue is the name of the
last command it sent, the commands before the head were acknowledged, and
the receiver is at most one command behind. `Received`: the peer has got the
commands 1 to r, in order, each once. `Travelling`: a frame in the network is
behind the receiver by no more than what overtook it. `Returning`: an
acknowledgement in the network stands for a command that was received. From
these, `OnlyNext` shows that the receiver handles a frame only if it is the
next command, and `AckIsHeads` that an acknowledgement that completes the
head is the head's. TLC checked `ChanInv` on instances of both kinds of link
before it was proved; `CmdItf1_forever` is one of them.

Model-checked only: liveness.

## Link monitoring

Modules `LinkMonitor` (with its properties) and `Transport_proofs`. The
variables are the fields of `arsdk_transport.ping`, `link_status`, the timer
and the pending idle callbacks; `told`, `silent` and `socketOk` are history.
`TimerCb(out)` is `timer_cb` and the whole of `send_ping`, with the write sent,
lost or failing; `RecvPong` and `RecvOther` are `arsdk_transport_recv_data`
with the restart of the timer every receipt makes; `Start` and `Stop` are
theirs. A pong is either the running ping's or an earlier one's: nothing else
of its time stamp is compared.

| cfg | shows |
|---|---|
| `LinkMonitor` | `KoAfterSilence`: pings break the link only after 3 periods of silence; `SilenceDetected`: at the latest before 5; `ToldStatus`: the user knows, or a callback is pending; `MendsWhenQuiet`: if eventually nothing but pongs arrives and nothing is stopped, a link that carries pings again becomes OK |

Bounds: a period of 2 ticks puts receipts between and at expiries; the limit is
the code's 3; silence is counted up to a value past every comparison. The timer
is periodic and may be served late, but before its next expiry (2 s later).
Fairness: the loop serves timers and idle callbacks (weak); a ping sent, and a
pong, get through if there are ever new ones (strong).

Proved for every period and limit: `LinkTypeCorrect`, `SilenceIsDetected`,
`BreaksOnlyAfterSilence`, `StatusIsTold`. The invariant bounds `silent` from both sides by the
number of failures and the time since the last expiry served; `ToldStatus`
needs no more than the types, one lemma (`ChangeIsTold`) covers the four
handlers that may change the status. Model-checked
only: liveness.

## Command interface, version 3

Modules `CmdItf3`, `CmdItf3Props`, `MCCmdItf3`; the abstract specification is
again `CmdChannel`, whose steps deliver and acknowledge several commands at
once because a pack does.

| TLA+ | C |
|---|---|
| `tx[q].pack`: `bytes`, `cmds`, `remaining`, `waiting`, `age` | `queue->pack`: `buf`, `cmd_count`, `remaining_len`, `waiting_ack`, time since `sent_ts` |
| `tx[q].last` | `queue->last_pack`: `seq`, `remaining_len` |
| `partial[q]` | `partial_cmd_buf[]` of the receiver: bytes missing, bytes got |
| `Chunks`, `PackWithAck`, `PackNoAck` | `queue_pack_cmds` |
| `CheckTxQueue`: `SendLater`, `SendPack`, `SendPacks` | `check_tx_queue`: rate limit, acknowledged pack, the `goto again` loop |
| `Acknowledges`, `SentWhole`, `Acknowledged` | `recv_ack` |
| `Unpack`, `UnpackByte`, `Kept` | `unpack_cmds` |

The other variables are those of `CmdItf1`. A payload byte is the triple
(command, size, position), so that a command put together from pieces of
several shows as `Garbled`; a size takes one byte. `SendPacks` is the
`goto again` loop as a function of the number of packs sent.

| cfg | shows |
|---|---|
| `CmdItf3_ack` | one queue, packs of 3 bytes, commands of 2 and 5 bytes with their size: `Accounted`: each command is queued or was told its end once (`DoneOnce`); the refinement of `CmdChannel`, so that commands arrive whole, in order, once, and are acknowledged only then; and `EventuallyDone` on a fair link |
| `CmdItf3_device` | the device's three queues, with refused sends: `QueuesWatched`: what a queue has left to send waits with the timer armed in time |

Bounds. With 3 bytes a pack a command of 5 spans two or three packs, starting
anywhere, and the short one shares a pack; the cut falls between the size and
the payload too. 3 commands are 5 packs, so numbers of width 4 wrap. A NOACK
command larger than a pack is excluded (`Fits`), because `check_tx_queue` would
not return.

Proved (`CmdItf3_proofs`, for every table of queues, sizes, widths and bounds):

- `QueuesAreWatched`, `Spec => []QueuesWatched`, whatever the socket refuses.
- `CommandsAreAccounted`, `Spec => []Accounted`, if the socket refuses nothing
  (`RefuseUntil = 0`) or all queues are acknowledged (`Firm`). Without that it is
  false: a queue without acknowledgement tells commands done when it packs them, and
  still holds them when the socket refuses the pack.
- `QueuesAreSeparate`: without `Firm`, the types, and no command in two queues.

The invariant (`IInv`) is the types and `Sound`: what the histories say of the
queues' names (`Listed`; with `Firm` also `Told`, and that no queue without
acknowledgement starts a check with a pack, `Fresh`) and, for each queue, `Sane` and
`Watched`. `Sane` is about the cuts: a pack holds no more commands than the queue, and
the bytes of a cut command still to be sent are no more than its payload, for the
pack in the air (the last command packed) and for the last one acknowledged (the first
entry). It needs what `queue_pack_cmds` computes for every size: `FlattenIs` and
`JoinedIs` give the entries' bytes end to end, `CutIs` finds the one command a cut
falls in, and `CountDistinct` turns the names in the pack into the number of commands
(`PackWithAckIs`, `PackNoAckIs`). The `goto again` loop is counted up as in version 2
(`BurstStepSane`, `SendPacksSound`). `UnpackType` shows that `unpack_cmds` keeps the
receiver's types for any bytes, by the fold's own recursion on sets of places
(`UnpacksIs`). TLC checked the invariant on six instances before the proof.

- `ChannelIsImplemented`, `Spec => ImplementsChannel`, for one queue with
  acknowledgement (`Alone`): every action is a `Submit`, `Deliver`, `Acknowledge` or
  `Close` of `CmdChannel`, or a stutter.

Its invariant, `ChanInv`, adds to `IInv` what relates the sender, the two directions of
the network and the receiver. The bytes of the queue from the last acknowledged place
(`AtHead`) are those a pack starts with; unpacking them from the state in which the last
acknowledged pack left the receiver gives the names of the commands that end in the pack
and leaves the receiver in the middle of the one that was cut, which is
`AtHead` of what remains once the pack is acknowledged (`Rebuilds`, `Layout`: one
command at a time, by `Runs` and `Halted`). Numbers (`NumberOf`, `OneRemainder`,
`NumberNext`) tell a new pack from a repeated one as long as fewer are late than the
width allows, which `Numbered`, `Travelling`, `Returning` and `InOrder` keep. While the
interface is up (`Joint`), sender and receiver are in step or one pack apart (`InStep`,
`Follows`), every pack in the air with the current number is the current pack
(`Carries`), and an acknowledgement of it means that it was taken (`Recent`); after the
stop (`Late`) what still travels is filtered or extends what was submitted.

`EventuallyDone` is only model-checked.

## Command interface, version 2

Modules `CmdItf2`, `CmdItf2Props`, `MCCmdItf2` and
`CmdItf2_proofs` (theorems). Version 2 packs whole commands
and never cuts one. It keeps the queues of version 1, but `queue_new` replaces
what the table says of rate limit, overwriting and retry count.

| TLA+ | C |
|---|---|
| `tx[q]`: `entries`, `seq`, `pack`, `last` | `tx_queues[q]`: the entries, `seq`, `pack` (`buf`, `cmd_count`, `waiting_ack`, time since `sent_ts`), the number of the last pack acknowledged |
| `PackCmds`, `Packed` | `queue_pack_cmds`, the choice between a retry and a new pack |
| `CheckTxQueue`: `AckPending`, `SendPack`, `SendPacks` | `check_tx_queue`: the pack that waits, the one sent, and the loop of a queue without acknowledgement |
| `Acknowledges`, `Acknowledged`, `RecvAck` | `recv_ack` |
| `Send`, `TimerCb`, `Stop`, `RecvData`, `Unpack` | `arsdk_cmd_itf2_send`, `timer_cb`, `_stop`, `_recv_data`, `unpack_cmds` |

The run `CmdItf2` has the controller's two queues. `Accounted` is `TypeOK` and two
more: `DoneOnce`: a command is queued, or was told its end once, even one whose pack the socket refused and
that a stop cancels; `QueuesWatched`: what stays queued waits with the timer
armed in time, unless the socket refused its pack. `Delivered` is two: `AckSound`: an acknowledgement completes the commands that
the pack held when it was sent, though others have been queued since;
`InOrderOnce`: what the other application gets is in order and without
duplicates, even if numbers become ambiguous. `EventuallyDone`: each command ends,
unless the socket refused its pack or a command too large for a pack is at or
before it in its queue (`HeldBack`).

Bounds. Two commands of one byte and their sizes fill a pack of 6 and a third
needs the next one; a command of 5 fits in none, and its queue sends empty packs
from then on. `Send` does not put such a command in a queue without
acknowledgement: `check_tx_queue` would not return. Only a blocked queue uses
more numbers than there are commands; `Tick` stands still once a queue has used
`MaxNumbers` of them, so that the numbers wrap once, past the initial one.
The socket refuses one pack.

Fairness. As for version 1: an expired timer is served, time passes, and a
datagram that is in the network again and again is received.

Proved (`CmdItf2_proofs`, for every table of queues, sizes, widths and bounds):
`CommandsAreAccounted`, `Spec => []Accounted`. The invariant has, beside the types,
what the histories say of the queues' names (`Settled`: the names of all queues
are distinct, and exactly those accepted and not told) and, for each queue, that
its pack is covered by its entries and waits only if it may (`Sane`), under the
timer (`Watched`). `Accounts` says that cutting a queue in two loses and doubles no
name. The loop of a queue without acknowledgement is a recursive function: that it
exists is `Recursion`, and what holds of it is shown by counting up (`CountUp`): each round
sends a pack that is not empty, because every command fits, so that
`MaxCmds` rounds empty the queue (`DistinctLength`: no more commands than names).

`CompletedWereDelivered` is `Spec => []Delivered`. Its invariant
(`DeliveryInv`) relates each queue to its frames in the network and to what the
receiver got (`Fits`): frames follow each other by serial number, and a frame with
the number of the pack carries the pack (`InTurn`, `FrameFits`); what was sent under a
number is behind every entry the queue still has, except for the pack while it has
this number (`Behind`); the pack is the front of the queue (`Packs`). The names the
receiver got (`dl`) are behind the same entries, so that a newer frame carries only
later names: this is `InOrderOnce`, for which numbers need not be unambiguous, only never
taken for newer than themselves (`SameIsNotProcessed`). `AckSound` needs more: an
acknowledgement in the network answers a frame the receiver had processed or passed
(`AcksFit`, by `NewerIsProcessed`), and within the window its number tells its serial
number (`NumberUnique`), so that the receiver's last frame is the pack that waits
(`AcknowledgedWasHeard`). `CheckTxQueueFits` follows the pass over a queue, pack
after pack; TLC checked `DeliveryInv` on the run's instance before the proof.

## Connection handshake

Modules `Connection` (with its properties), `MCConnection` and
`Transport_proofs`.

| TLA+ | C |
|---|---|
| `ctrl[c]`: `state`, `conn`, `v`, `log` | `arsdk_device_conn`: `state`, the connection of `ctx`, `proto_v`; the callbacks its application got |
| `listen`: `on`, `conn` | `arsdk_backend_net.listen`: `ctx != NULL`, `conn` |
| `peer[k]`: `state`, `v`, `log` | `arsdk_peer_conn`: `PENDING` until it has an `arsdk_peer`, then `REQUESTED`, `CONNECTED`; `proto_v`; the callbacks about the peer |
| `tcp[k]` | one TCP connection: the ends not told yet that it is over, those that closed it, the request and answer on their way |
| `ServerConnected`, `ServerDisconnected`, `ServerRaw` | `backend_net_event_cb`, `backend_net_raw_cb` |
| `StartListen`, `StopListen`, `Accept`, `Reject`, `PeerDisconnect` | `arsdk_backend_net_start_listen`, `_stop_listen`, `arsdk_peer_accept`, `_reject`, `_disconnect` down to the backend |
| `Connect`, `Disconnect` | `arsdk_device_connect`, `arsdk_device_disconnect` down to the backend |
| `ClientConnected`, `ClientDisconnected`, `ClientRaw` | `device_conn_event_cb`, `device_conn_raw_cb` |
| `Break` and the parameters `sent`, `whole` | the network |

`peer.log` holds the start and the end of a peer (`added` is the connection
request, `removed` the manager's destruction) and its own callbacks. The state
`JSON_RECEIVED` lasts only while `device_conn_raw_cb` runs, or until the
refused connection is freed, and is not a state of the model.

The run `Connection` has two controllers, whose version ranges overlap with the
device's in different ways. `ToldOnce` is the types, and `ControllerToldOnce` and `PeerToldOnce`:
each application gets one end for each beginning, and no request is
forgotten. `PendingKept` says that the late end of an old connection does not clear
a newer request; `ConnectedTogether` that a controller is connected only by the
answer of a device that counts it as connected, with the same version, the
greatest both support;
`AnsweredWhenCalm` that once connections break no more and requests replace one
another no more, every attempt ends or succeeds, whatever happened before,
unless the device ignored the request.

Bounds. A controller with two TCP connections at once has an old one whose end
comes late while the new one is being answered; the other has one. Each calls
`arsdk_device_connect` once; how often they connect again after a failure is
not bounded. A range without a version in common behaves as the request cut in
pieces, which this run has. A slot is used again when its peer is gone.

Fairness. Each loop serves its events, a controller connects again, and the
applications listen, answer the requests they are told of, and drop the peer of
a controller that is gone (as link monitoring lets them know). The last one is
needed because the slots are few. Strong fairness is not assumed: two
controllers whose requests replace one another for ever are excluded by the
premise of `AnsweredWhenCalm`, not by the code.

Proved (`Transport_proofs`, for every set of controllers, version ranges and
bounds on connections and attempts):

- `TypeCorrect`: `Spec => []TypeOK`, one step per action; what the handlers take
  from one another (the version, the answer) is typed by `AgreedType` and `Answer`.
- `PeersAreToldOnce`: `Spec => []PeerToldOnce`. `PeerToldOnce` is not inductive:
  nothing in it stops `ServerConnected` from starting a request on a slot whose
  peer is in use, and replacing needs to know that what it destroys was never
  answered. `PeerInv` adds, for each slot, that the pending request is exactly
  the slot whose peer has not been answered (`Unanswered`), and that a peer of a
  connection the server has not been told of is new (`Unopened`). The proof goes
  by `Fits`, the invariant of one slot: most actions leave a slot as it was
  (`SameFits`), the destruction of an unanswered peer is one lemma
  (`DestroyedFits`), and the remaining steps are spelled out. The logs of
  callbacks are compared through `Longer` (a sequence longer by one element).

- `EndsAreToldOnce`: `Spec => []ToldOnce`, from these and the next but one.
- `PendingIsKept`: `Spec => PendingKept`, one step per action.
- `ControllersAreToldOnce`: `Spec => []ControllerToldOnce`. Two invariants:
  `ReadsOwn`, a controller reads an answer only on the connection it uses and
  while it waits for one, since it closes those it leaves; and `CtrlInv`, each
  callback follows the one before (`InOrder`) and the state is that of the last.
- `OnlyConnectedTogether`: `Spec => ConnectedTogether`. `AnswerInv` says that an
  answer that accepts was sent by the peer of its connection, whose application
  knows, with the version they agreed on, and that a connection the server has not
  been told of carries none; `AgreedGreatestVersion` that this version is the
  greatest of both.

Model-checked only: `AnsweredWhenCalm`.

## FTP client

Modules `Ftp`, `FtpProps`, `MCFtp`, `Ftp_proofs`.

| TLA+ | C |
|---|---|
| `req[r]` | `arsdk_ftp_req` with its `arsdk_ftp_seq`: state, step, connection, the data stream's state and sizes, statuses told |
| `requests`, `idle`, `busy`, `elem[c]` | the lists of `arsdk_ftp`; the state of each `arsdk_ftp_conn` |
| `stack`, `walk` | the complete callbacks that run, and the walk of `arsdk_ftp_cancel_all` or `arsdk_ftp_stop` they interrupt |
| `Steps`, `Code` | the sequences of `create_..._seq`, the code each command expects |
| `Start` (`Get`, `Put`, `Size`, `Rename`, `Delete`, `List`) | `req_new`, `get_conn_elem`, `arsdk_ftp_seq` up to the first command |
| `Receive`: `Login`, `RecvResp` | `arsdk_ftp_conn_recv_cb`, the states of the login, `on_resp_recv` |
| `DataStart`, `DataRecv`, `DataStop`, `DataSent`, `DataRead` | the events of the data stream |
| `TcpConnected`, `TcpDisconnected`, `Disconnected`, `DestroyElem` | the events of the control connection and `conn_elem_destroy_cb` |
| `End`, `Return` | `stop`, `seq_complete_cb`; what follows the application's callback, `req_destroy` |
| `Cancel`, `Walk`, `WalkStep`, `WalkEnd` | `arsdk_ftp_cancel_req`, `arsdk_ftp_cancel_all`, `arsdk_ftp_stop` |
| `net`, `data`, `ServerCmd`, `ServerData`, `ServerEnd`, `ServerGiveUp`, `ServerFail`, `Coalesce` | external: a server, and TCP, which keeps the order within a connection only |

A request ends in two steps, because the application's callback runs between
them and may call the library: `End` puts the request on `stack` and `Return`
frees it. What would be a use of freed memory (a callback that cancels the
request the walk visits next) is excluded by the guard of `Cancel`.

The run `Ftp` has one request of five kinds beside one that deletes a file.
`ConnsLent` is `TypeOK`,
`ConnExclusive`: a connection is never lent twice, and `NoneOrphaned`: no
request holds a connection that was destroyed. `CompleteOnce`: one status per
request, from callbacks too. `OkMeansDone`: OK means that the server carried out
the last command and the whole file went through, whichever of 226 and the end
of the data stream came first. A connection given back with an answer still to
come (`tainted`) makes no such promise to its next user. `EndsUnlessFault`: requests end
unless the server aborts a transfer, an answer is read in parts or joined to
another, or 150 comes before the data stream is open: the client has no timeout.

Left out, after a fault only: a local file that can no longer be read in the middle
of an upload, and the send callback of a data stream that was closed before it.

Bounds. Two requests share, take over or need two connections; files of two
blocks tell a whole one from a part; one call that cancels or stops and one
fault, each at any moment. Fairness: the loop, the server and the network go on
(weak), nothing else.

Proved (`Ftp_proofs`, for any number of requests and connections and all bounds):

- `ConnectionsAreLent`: `Spec => []ConnsLent`, and
- `RequestsAreToldOnce`: `Spec => []CompleteOnce`, from one invariant, `LendInv`.
  Neither property is inductive: `Return` gives back whatever connection its
  request has, and `WalkEnd` destroys them all. `OwnersInv` adds that a request
  whose callback still runs owns its connection too, although it may have been
  disconnected; `ListsInv` that all that is listed exists; `CountedInv` that
  `requests` and `stack` hold exactly those that have begun, and those whose callback
  runs; `WalkInv` that whoever is active during `arsdk_ftp_stop` is still to be
  visited, so that nobody is left when the connections go (`NobodyLeft`).
  What an event does to a request is one of three things (`Handled`): nothing, the
  request goes on (`Goes`), or it ends (`Ends`); one lemma says so for every
  handler, and one (`HandledLends`) that the invariant is then kept. `Start`,
  `Return`, `WalkEnd` and the loss of a connection change the lists and have proofs
  of their own, from lemmas about sequences without repetition.
- `OkIsDone`: `Spec => []OkMeansDone`, from `IInv`, which adds `WiresInv`: what is on
  the way on a connection that no request left with an answer to come is about its
  present user. `ConnFits` says what a connection carries by its state: nothing, or
  one command of the login or its answer (`LogsIn`). `ReqFits` says it of a request:
  it waits for the one answer to a command that moves no data (`Awaits`), it has sent
  the command that does (`Asks`), or the server has read that command (`Moves`): then
  a 226, on the way or received, means that the server is through with the request,
  and the end of a download's stream means that all of it was read. `Sized` ties an
  upload's count of the file to what was sent. Each handler is shown to keep this by
  one lemma about the rest of the system (`Local`: an action on one connection leaves
  the others and their users as they are), one for a request that goes on (`GoesOn`),
  one for a request that ends (`StopsThere`: if it ends with OK, it is `Finished`) and
  one for the server (`ServesWires`).

## Interfaces of a device

Modules `FtpItf`, `Media`, `Download`, `Upload`, `MuxServices`, composed by
`Services`; `MediaList`, the medias that a directory's files become;
`ServicesProps`, `MCServices` and `Services_proofs`.

| TLA+ | C |
|---|---|
| `FtpItf`: `sub`, `up`, `walk` | `arsdk_ftp_itf.c`: its requests that are not over, `transport != NULL`, the client being emptied |
| `SubStart`, `SizeComplete`, `SubOver`, `CancelAll`, `Stop` | the idle callback or the opened proxy, `size_ftp_complete`, the complete callbacks, `arsdk_ftp_itf_cancel_all`, `_stop` |
| `Media`: `media[r]` | `arsdk_media_itf.c`: requests that list, download and delete |
| `MediaList`: `FilesOf`, `AddLine`, `AddFile`, `MediasOf` | `req_list_complete` of the FTP interface, the loop of `pfld_list_complete_cb`, `file_to_media` |
| `Download`: `dl[d]`, `cur`, `dlist` | the request of `arsdk_crashml_itf.c`, `arsdk_flight_log_itf.c`, `arsdk_pud_itf.c`, its current item, what was told of the items |
| `MainListEnd`, `DirEnd`, `GetEnd`, `DelEnd`, `DelDirEnd` | the complete callbacks of these, from the list to the deletion |
| `StartNext`, `CurrDone`, `Cleaned` | `req_start_next`, `curr_req_done`, `clean_local_dir` |
| `Upload`: `req[o]`, `remote[o]` | `arsdk_ephemeris_itf.c`, `arsdk_updater_transport_ftp.c`; what the device holds |
| `MuxServices`: `mup`, `toDev`, `toCtl`, `box` | `arsdk_updater_transport_mux.c` and its channel, the listeners of `arsdk_blackbox_itf.c` |
| `Services`: `app`, `InterfacesStop` | requests the application makes itself; `stop_interfaces` of `arsdk_device.c` |

`FtpItf` promises what `Ftp` shows, one end for each request, and lets a request
the client has end OK, FAILED, or ABORTED (the control connection was lost); while
requests are cancelled or the client stops, CANCELED and ABORTED. What it adds is the time before
the client has a request, in which it cannot be cancelled and a stop does not
reach it: the interfaces above are exposed to that.

`Init` chooses a scenario: the interfaces that are used together. Those that
share something are checked together (crash reports and flight logs share a
local directory, the updater and the media the FTP interface); the other
combinations would only multiply independent states.

- `EndsTold`, besides `TypeOK`: a media is told deleted once all its files are
  over, none cancelled (`MediaToldLast`); the items told of are counted to the
  total (`CountedToTotal`); after a disconnection what is left untold is a request
  whose FTP request had not reached the client (`ToldAtStop`).
- `NothingLost`: the device's copy of a report goes only after the local one is
  whole and has its name, even when another interface cleans the directory
  (`DeletedOnlyIfSaved`); an item that is a file is told OK only if it is here
  (`FileOkMeansHere`); each file of a directory is in the one media of its name, and no other's (`MediasWhole`,
  over every order of three files with one name, two names, or none that is read).
- `UploadsWhole`: a firmware is told installed, and an ephemeris that had to be
  sent is told sent, only if the device holds the file and its MD5 (`UploadWhole`);
  over the multiplexer, only if it got each chunk once, in order
  (`FirmwareInOrder`).
- `RequestsEnd`: each request ends.

The run `crash_told_ok` (`Services_crash.cfg`) shows that an item told OK need not be
here: `ItemOkMeansHere`, which the header states, is violated.
When the temporary name of a crash report that is a directory exists,
`ftp_single_list_complete_cb` ends the item without changing its status, which is
still a success (`arsdk_crashml_itf.c:678`), and `curr_req_done` gives the
application the path the report would have. That name is left there when
`clean_local_dir` could not remove it, or taken by another program. `NothingLost`
therefore speaks of files, and of deletions on the device: such an item is not deleted.

A get whose local file cannot be opened (`Passed`, the guards of `DirEnd` and
`Md5GetEnd`) passes over an item, or fails it. The get of a directory's later file
may fail after earlier ones were created, and the loop may still hold the
callback that starts a request whose file could not be opened: both use memory that
was freed, and are not modelled.

Bounds. Directories of two files and lists of two items have a first, a last and
a next; two uploads, so that the second finds what the first left; two chunks;
one listener. `remote` tells other, part and same: the code compares an MD5 and no
more. Fairness: the loop and the FTP client go on (`Progress`); that the client
ends its requests is what `Ftp` shows, apart from the faults named there.

Proved (`Services_proofs`), for any scenarios, any listings, any number of files,
rounds, chunks and listeners, and any directories: `EndsAreTold`, `NothingIsLost`
and `UploadsAreWhole`, so that of this component only `RequestsEnd` is left to TLC.
The properties are far from inductive: what they say of an end was decided
several callbacks before it. `IInv` says what an interface is waiting for:

- each of its parts, `MediaOk`, `DlOk`, `UploadOk`, speaks of one owner: its own
  record and `Pending(o)`, the FTP requests it has that are not over. A step of
  one owner changes no other owner's `Pending` (`AfterPending`, `AfterOwn`), so
  that each step is proved for its owner and the others keep their part.
- `MediaOk`: each file of a media is pending or has ended, and a status that is still
  OK was given by ends that are OK or FAILED.
- `DlOk`: the items counted and those left make the total, and the current item is
  in one of four stages (`Stages`): its directory is listed, its files are
  received, deleted, or its directory is. Past the second, it is saved and whole;
  in the second, a status still OK means that each file is pending or here. No
  stage mixes with another, which is what makes the deletion safe.
- `UploadOk`: while both puts run and nothing failed, each of the two is pending or
  was sent and is on the device as sent; after them comes the name only.
- `MuxPart`: the update channel is in one of six states (`Channel`), from the request
  to the status: at most one chunk or its acknowledgement travels, and the device
  has all the chunks before it, in order.

The attempt to prove the types showed one thing: an upload is of two files, so that a
`MaxFiles` of 1, which the models allowed, has no sense; `MaxFilesAssumption` now
excludes it. `MediasWhole` is about a fold over the lines. The library's operator is
defined by a recursive function over the subsets of the indices; `AddsIs` builds that
function and `MediasShare` counts up over it, with `SharedOut`, what the medias are
after some of the lines, as the invariant. It needs the names of a directory to be
distinct (`DirectoriesAssumption`), or one file could be a resource twice.

## Controller and discovery

Modules `Controller` (the list of devices), `Discovery` (three ways to find
them), `DiscoveryProps`, `MCDiscovery`, `Discovery_proofs`.

| TLA+ | C |
|---|---|
| `listed`, its `by`, `over`, `run`, `conn`, `itfs` | `ctrl->devices`: `discovery`, `backend`, `discovery_runid`, the state of the connection, the interfaces created |
| `disc[k]` | `arsdk_discovery`: `started`, `runid`, the timer |
| `AddDevice`, `RemoveDevice`, `SameDevice`, `Timer` | `arsdk_discovery_add_device`, `_remove_device`, `find_device`, `timer_cb` |
| `DiscNew`, `DiscDestroy`, `UnregisterBackend`, `Destroy` | `arsdk_discovery_new`, `_destroy`, `arsdk_ctrl_unregister_backend`, `arsdk_ctrl_destroy_device` |
| `DeviceConnect`, `DeviceConnected`, `DeviceEnded`, `DeviceGet...`, `Cleaned` | `arsdk_device.c`: `arsdk_device_connect`, the callbacks of the backend, the interfaces, `cleanup_connection` |
| `mux`, `PubMux...`, `Mux...` | `arsdk_publisher_mux.c`, `arsdk_discovery_mux.c` and the channel between them |
| `net`, `PubNet...`, `Net...` | `arsdk_publisher_net.c`, `arsdk_discovery_net.c` and the connection between them |
| `avahi`, `Service...`, `Browser...`, `Resolver...` | `arsdk_discovery_avahi.c` on an external browser |

`told` is history: the devices the application knows to be connecting or
connected. How a backend connects is left to `Connection` and `MuxBackend`.

The run `Discovery` has two devices of the same name. `ListSound`, besides
`TypeOK`: each is listed once (`ListedOnce`); what a run does not find again goes
when its timer fires (`PurgedAfterTimer`); the net discovery can remove what it
listed (`NetListsKnown`). `ConnEndsFirst`: a device that is connected is
disconnected before it goes (`EndToldBeforeGone`), and no interface but the black
box outlives a connection (`NoItfWithoutConn`). `ListsWhatPublishes`
(`ThereIsListed`, `GoneIsUnlisted`): in the end the list is what publishes, for the
multiplexer and the network. For the network that needs a connection TCP reports as
closed (`Heard`): the discovery disables the keepalive
(`arsdk_discovery_net.c:231`) and never writes, so a device that vanishes without
closing it (`PubNetVanish`) stays listed, and nothing else is found until the
connection breaks. For Avahi they do not hold: a service that goes
before it is resolved is listed after it has gone, until the next run.

All devices have one type: `find_device` compares it first (`arsdk_discovery.c:134`).

Bounds. Two runs tell the current one from an earlier one; a channel of one
message in flight, and each publisher starts twice; the application uses one
device; three handles for two devices leave one for a device that outlives its
discovery. Fairness: what is received is handled, the timer fires, a connection
that is accepted is made.

Proved (`Discovery_proofs`, for any devices and handles, and all bounds):
`ListIsSound` and `ConnectionsEndFirst`, `Spec => []ListSound` and
`Spec => []ConnEndsFirst`. The invariant joins the types, the list by its numbers
(`ListInv`: who is known to be connected is exactly who is not idle),
`PurgedAfterTimer`, and that the network's discovery lists at most the device it
knows (`NetKnown`). A step changes the list in one of five ways
(`ListStep`: nothing, a device added or renumbered, some destroyed, those of a
discovery disowned, one device moved); each discovery's actions are shown to be such
steps once, and each part of the invariant is preserved by these steps.
That handles are finitely many (they have 16 bits) is the one assumption about data.
Model-checked only: `ListsWhatPublishes`.

## Connection over the multiplexer, frames and commands

Modules `MuxBackend`, `Frame`, `Codec`, `MuxBackendProps`, `MCMuxBackend`,
`MuxBackend_proofs`.

| TLA+ | C |
|---|---|
| `ctl` | `arsdkctrl_backend_mux.c`: `client.conn`, the transport of the connection, the callbacks of its application |
| `dev` | `arsdk_backend_mux.c`: `listen`; the peer whose transport has the channel |
| `peer[p]` | `arsdk_peer` and its connection: state, version, transport, callbacks |
| `Connect`, `Disconnect`, `RxConnResp` | `arsdkctrl_backend_mux_start_device_conn`, `_stop_device_conn`, `backend_mux_rx_conn_resp` |
| `StartListen`, `StopListen`, `RxConnReq`, `Accept`, `AcceptFails`, `Reject`, `PeerDisconnect`, `BackendRenew` | `arsdk_backend_mux.c`, `arsdk_peer.c`, `arsdk_mngr.c` |
| `Reset`, `CtrlRestart`, `Closed` | `transport_mux_channel_cb`, `backend_mux_channel_cb` at a reset, a new controller process, `arsdk_transport_mux_stop` |
| `CtrlLinkLost`, `PeerLinkBack`, ... | what `LinkMonitor` finds |
| `EncodeV1`, `EncodeV2`, `DecodeV1`, `DecodeV2`, `MuxRxData`, `ProcessRxbuf` | the headers of `arsdk_transport_mux.c` and `arsdk_transport_net.c`, `process_rxbuf` |
| `EncodeCmd`, `DecodeCmd`, `FindDesc`, `GetValues`, `Formatted` | `cmd_encv_internal`, `arsdk_cmd_dec`, `arsdk_cmd_find_desc`, `arsdk_cmd_get_values`, `arsdk_cmd_fmt` |

`Frame` gives the headers as functions of byte sequences; `MuxBackend` uses it to
say when the pings of one end are heard by the other. `Codec` does the same for
the commands in the frames, of any table of descriptions.

The run `MuxBackend` has a controller that makes three connections, restarts and
may then support other versions. `ToldOnce`, besides `TypeOK` (`CtrlToldOnce`,
`PeerToldOnce`): one end for each beginning, whatever answer comes late.
`Accepted`: a connected controller was accepted by a peer whose application knows
(`ConnectedAccepted`), with a version of both, except for an answer to a
controller that crashed since (`CommonVersion`). `NoBlindLink`: after a reset nobody takes the link for good, except that a peer
whose channel an older one closed has still to find out.
`FramesUnderstood`: at the versions the two ends took, each reads the frames of
the other as they were sent, for numbers and sizes at the borders of their
fields; and a command is found and read as it was encoded, while a part of one, or
one of other numbers, is not read at all (`CommandsUnderstood`). `AnsweredWhenCalm`: a request the device can take is answered.
`AbandonedToldKo`: a peer left by its controller finds out by its link.

Bounds. Three connections put an old answer before a new request and an old
peer beside a new one; four moves of the applications and the channel; ranges
that overlap the device's partly, wholly and not at all; sizes 0, 127 and 128,
where a length grows to two bytes; a table of eight commands with every type of
argument and values at the borders of TLC's integers, numbers that repeat in other
projects and classes. A length of three bytes is not modelled: the
sizes of payloads stop below it. Fairness: what is received is read, the application
answers, pings are sent.

Proved (`MuxBackend_proofs`, for any ranges of versions and bounds):

- `EndsAreToldOnce`, `Spec => []ToldOnce`: every step moves a peer along one of
  five ways (`PeersMoved`), and peers are numbered in the order of their requests
  (`NumberInv`), so that an answer finds one pending peer.
- `NoLinkIsBlind`, `Spec => []NoBlindLink`: a peer that has started and believes in
  its link has the channel, or an older peer that is gone took it away
  (`PeersKnow`); a controller that believes in its link has the channel.
- `ConnectedWereAccepted`, `Spec => []Accepted`: each response on its way, and the
  one the controller's connection came of, is that of a peer that was accepted,
  with its version (`ResponsesHonest`, `ConnectionHonest`); requests and peers since
  the controller's last start have a version of its range (`RequestsHonest`,
  `VersionsFit`).
- `CommandsRead`, `CommandsUnderstood` for every table of descriptions and all values:
  the table gives each project, class and command a number of its own
  (`TableAssumption`), and a value fits its type (`Fits`: a C integer is one of which
  the bytes that are shifted out leave its sign, a string has no byte 0). By induction
  on the arguments read, the decoder is where the encoder was after as many, and has
  the values given so far; in a part of the bytes one argument is not whole, and
  nothing is read. Another command has another number in its first four bytes.
- `FramesAreUnderstood`, `Spec => []FramesUnderstood`: by `ConnectedWereAccepted` both
  ends use one version; a header's bytes are those written at that version for any
  type, number and size up to `VarintMax`, and the loop of `process_rxbuf` stops after
  the one frame of the datagram.

The recursions of `Codec` and `Frame` are functions over numbers, so that induction is
`CountUp`, which comes from the least number of a set (`LeastOf`), itself from the
library's theorem that `<` is well-founded.

Model-checked only: liveness.

## State of the plan

Modelled: the command interface of the three versions, link monitoring, both
handshakes, frames, the encoding of commands, discovery and the list of devices, the FTP client and the
interfaces above it. Left, in this order:

1. Link quality counters of the three versions, with their wrap.
2. The progress callbacks of the FTP client.
3. Compositions: `Connection` with `LinkMonitor`, for the peer whose controller failed
   after the answer; a command interface above `Connection`, for the commands still
   queued when the peer disconnects; `Services` above `Ftp` in place of `FtpItf`'s
   abstraction of it.

Abstract specifications: `CmdChannel`, which versions 1 and 3 refine. One
completion per request, which `FtpItf` assumes of `Ftp`, is stated by
`CompleteOnce` and not yet as a refinement.

Every safety property, action property and refinement that a passing run checks is a theorem;
only the liveness properties are not.

## Behaviour met while modelling

One run, `crash_told_ok`, is a counterexample: a crash report told a success of
which nothing is here (see the interfaces of a device). The rest no run shows. Where the code and its comments differ, or the code does what a reader would
not expect, the models follow the code:

- Version 1: the rate limit asks for the time elapsed instead of the time left; an
  elapsed time of 0 clears the timer all queues share, against the comment above
  it (`arsdk_cmd_itf1.c:447`). Refused sends use up numbers, so that after 246
  of them in a row a new frame is taken for an old one: acknowledged, then filtered
  (`:458`, `:779`). `recv_ack` notifies before it pops the command; a send from that
  callback may end the command once more and pop another one silently (`:576`). A
  datagram overtaken across a wrap of the number is handled twice.
- Version 2: a send from the PACKED callback of a queue without acknowledgement
  sends the same pack again. The link quality counter of lost packs adds 256 where
  a number of 16 bits wraps.
- Version 3: `waiting_ack` stays set after the acknowledgement, and the next command
  waits for the timeout (`arsdk_cmd_itf3.c:897`). Commands without acknowledgement
  are told done before the socket takes their pack, and once more if it does not.
- Versions 2 and 3: a command without acknowledgement that fits in no pack keeps
  `check_tx_queue` in its loop.
- Link: a received frame puts the ping off, so that a broken link with traffic
  never sends the ping that would mend it (`arsdk_transport.c:393`).
- FTP: the request for a size is told FAILED when the file is not empty, since its own
  size of 0 is compared with it (`arsdk_ftp.c:286`). A crash archive is deleted as a
  file and then as a directory, and told FAILED (`arsdk_crashml_itf.c:384`). An
  ephemeris is told OK when the device has its MD5, though the file may not have
  followed (`arsdk_ephemeris_itf.c:245`).
- Items: when the control connection is lost, the item is told ABORTED and the request
  goes no further, but is told OK (`arsdk_crashml_itf.c:213`). An item whose first request cannot be
  created is counted and never told.
- Network discovery: a publisher that vanishes stays listed.
- Commands: the loop of `arsdk_cmd_fmt` over the bytes of a binary counts with the
  index of the arguments (`arsdk_decoder.c:870`), so that a text may leave some out
  or an error follow it; `Formatted` does so.
- Medias: a file's name without run is refused, though the comment makes the run
  optional (`arsdk_media_itf.c:262`).
- Multiplexer: the controller's check of the version asks for one below the minimum
  and above the maximum, so that a restarted controller may take the answer meant for
  an earlier one (`arsdkctrl_backend_mux.c:276`). A refusal is told as a local error,
  because its empty json fails to parse first. A request of no common version leaves
  the backend deaf. An older peer's transport closes the channel of its successor.

## What is not modelled, and limits of the proofs

Python bindings, examples, tests and tools have no state of their own. The
command interface facade (`arsdk_cmd_itf.c`) chooses the version when it is
created and passes each call on. Generated command tables, the log, JSON, logging,
sockets, `libpomp`, `libmux` and Avahi are outside: the modules take what they
deliver as nondeterministic. Memory is not modelled, nor a failure to allocate
it. Calls an application makes into the library from a callback are modelled in
`Ftp` only.

Liveness is checked by TLC only: TLAPS does not prove it under fairness.
