--------------------------------- MODULE Ftp ---------------------------------
(***************************************************************************)
(* The FTP client (libarsdkctrl/src/ftp): the requests of the application  *)
(* (arsdk_ftp.c), the sequence of commands each one is made of             *)
(* (arsdk_ftp_seq.c) and the connections they borrow (arsdk_ftp_conn.c),   *)
(* with a server that answers one command after the other, or refuses.     *)
(*                                                                         *)
(* A request ends inside the handler of an event: the complete callback of *)
(* the application runs, may call the library, and only when it returns is *)
(* the request taken off its list and its connection lent again.  While a  *)
(* callback or a walk over all requests runs no event is handled.          *)
(* A file is FileLen blocks; a resumed transfer starts with the second.    *)
(***************************************************************************)
EXTENDS Naturals, Sequences, SequencesExt, FiniteSetsExt

CONSTANTS
    Reqs,        \* the requests
    Kinds,       \* Kinds[r]: what request r may be
    MaxConn,     \* bound: connections at the same time
    FileLen,     \* blocks of every file and listing
    MaxCalls,    \* bound: calls that cancel or stop
    MaxFaults    \* bound: failures of the network, the server and the files

ASSUME FtpAssumption ==
    /\ MaxConn \in Nat /\ FileLen \in Nat \ {0} /\ MaxCalls \in Nat /\ MaxFaults \in Nat
    /\ Kinds \in [Reqs -> SUBSET {"get", "resume", "put", "append", "list", "rename",
                                  "delete", "size"}]

None == <<>>
ASSUME NoneAssumption == None \notin Reqs
Conns == 1..MaxConn

VARIABLES
    req,       \* req[r]: its arsdk_ftp_req and arsdk_ftp_seq
    requests,  \* the list of requests in progress, the last one first
    elem,      \* elem[c]: the state of its arsdk_ftp_conn, or FREE
    idle,      \* conns_idle, in order
    busy,      \* conns_busy
    stack,     \* the requests whose complete callback is running, the innermost last
    walk,      \* arsdk_ftp_cancel_all or arsdk_ftp_stop running: the requests to visit
    net,       \* net[c]: the control connection to the server, and the server
    data,      \* data[r]: the data connection of request r
    done,      \* history: the requests whose last command the server carried out
    tainted,   \* history: connections given back with an answer still to come
    missed,    \* history: the requests that got 150 while their data stream was not open
    calls, faults

vars == <<req, requests, elem, idle, busy, stack, walk, net, data, done, tainted,
          missed, calls, faults>>

(* The commands of each kind of request (create_..._seq).                  *)
GetSteps(resume) ==
    <<"EPSV", "TYPE", "SIZE">> \o (IF resume THEN <<"REST">> ELSE <<>>) \o <<"RETR">>
PutSteps(resume) ==
    <<"EPSV", "TYPE">> \o (IF resume THEN <<"REST", "APPE">> ELSE <<"STOR">>)
SizeSteps   == <<"SIZE">>
RenameSteps == <<"CWD", "RNFR", "RNTO">>
DeleteSteps == <<"DELE">>
ListSteps   == <<"EPSV", "TYPE", "LIST">>
Steps == [get |-> GetSteps(FALSE), resume |-> GetSteps(TRUE),
          put |-> PutSteps(FALSE), append |-> PutSteps(TRUE), size |-> SizeSteps,
          rename |-> RenameSteps, delete |-> DeleteSteps, list |-> ListSteps]
Code == [EPSV |-> 229, TYPE |-> 200, SIZE |-> 213, REST |-> 350, CWD |-> 250,
         RNFR |-> 350, RNTO |-> 250, DELE |-> 250, USER |-> 230, PASS |-> 230,
         RETR |-> 150, LIST |-> 150, STOR |-> 150, APPE |-> 150]
DataIn  == {"RETR", "LIST"}
DataOut == {"STOR", "APPE"}
Refusal == 550
Junk == 0              \* a part of an answer
Codes == {Code[n] : n \in DOMAIN Code} \cup {220, 226, 426, Refusal, Junk}

Offset(kind) == IF kind \in {"resume", "append"} THEN 1 ELSE 0
Total(kind) == FileLen - Offset(kind)

Active == {"READY", "WAIT_RESP", "STREAMING"}
Commands == [r : Reqs \cup {None}, name : DOMAIN Code]
Request ==
    [state : Active \cup {"NONE", "DONE", "FREED"}, kind : DOMAIN Steps, cur : 0..5,
     conn : 0..MaxConn,          \* 0: none
     ctx : Reqs \cup {None},     \* the request whose port the data stream connects to
     opened : BOOLEAN, got226 : BOOLEAN, tsize : Nat, size : Nat, aborted : BOOLEAN,
     told : Seq({"OK", "FAILED", "CANCELED", "ABORTED"})]
ConnStates == {"TCPCONNECTING", "FTPCONNECTING", "LOGIN_USER", "LOGIN_PASS", "CONNECTED",
               "DISCONNECTED"}

TypeOK ==
    /\ req \in [Reqs -> Request]
    /\ requests \in Seq(Reqs) /\ stack \in Seq(Reqs)
    /\ elem \in [Conns -> ConnStates \cup {"FREE"}]
    /\ idle \in Seq(Conns) /\ busy \subseteq Conns
    /\ walk \in [kind : {"none", "cancel", "abort"}, todo : Seq(Reqs)]
    /\ net \in [Conns -> [up : Seq(Commands), down : Seq([code : Codes, of : Reqs \cup {None}]),
                          job : Reqs \cup {None}]]
    /\ data \in [Reqs -> [port : BOOLEAN, est : BOOLEAN, sent : Nat, got : Nat,
                          fin : SUBSET {"client", "server"}]]
    /\ done \subseteq Reqs /\ missed \subseteq Reqs /\ tainted \subseteq Conns
    /\ calls \in Nat /\ faults \in Nat

NewReq == [state |-> "NONE", kind |-> "get", cur |-> 0, conn |-> 0, ctx |-> None,
           opened |-> FALSE, got226 |-> FALSE, tsize |-> 0, size |-> 0, aborted |-> FALSE,
           told |-> <<>>]
NewNet == [up |-> <<>>, down |-> <<>>, job |-> None]

Init ==
    /\ req = [r \in Reqs |-> NewReq]
    /\ requests = <<>> /\ idle = <<>> /\ busy = {} /\ stack = <<>>
    /\ elem = [c \in Conns |-> "FREE"]
    /\ walk = [kind |-> "none", todo |-> <<>>]
    /\ net = [c \in Conns |-> NewNet]
    /\ data = [r \in Reqs |-> [port |-> FALSE, est |-> FALSE, sent |-> 0, got |-> 0, fin |-> {}]]
    /\ done = {} /\ tainted = {} /\ missed = {} /\ calls = 0 /\ faults = 0

Looping == stack = <<>> /\ walk.kind = "none"
Fault == faults < MaxFaults /\ faults' = faults + 1
(* list_del: s, which holds x once at most, without it.                    *)
Without(s, x) ==
    IF x \in ToSet(s) THEN RemoveAt(s, CHOOSE i \in DOMAIN s : s[i] = x) ELSE s
(* The requests whose sequence listens to connection c.                    *)
Users(c) == {r \in Reqs : req[r].conn = c /\ req[r].state \in Active}
Cmd(q) == Steps[q.kind][q.cur]
LastCmd(kind) == Last(Steps[kind])

-----------------------------------------------------------------------------
(* How a request ends *)

(* Mutant: the size of the file is not compared.                           *)
FinalStatusUnsized(q, status) == IF q.aborted THEN "ABORTED" ELSE status

(* Mutant: the state of the sequence is reported for its status.           *)
FinalStatusState(q, status) == q.state

(* seq_complete_cb                                                         *)
FinalStatus(q, status) ==
    IF q.aborted THEN "ABORTED"
    ELSE IF status = "OK" /\ q.tsize > 0 /\ q.tsize # q.size THEN "FAILED" ELSE status

(* stop and seq_complete_cb, up to the callback: q is the request as the   *)
(* handler leaves it.                                                      *)
Stopped(q, status) ==
    [q EXCEPT !.state = "DONE", !.ctx = None, !.opened = FALSE,
              !.told = Append(@, FinalStatus(q, status))]

(* Request r ends: the data stream is closed, the application called.      *)
End(r, q, status) ==
    /\ req' = [req EXCEPT ![r] = Stopped(q, status)]
    /\ stack' = Append(stack, r)
    /\ data' = [data EXCEPT ![r].fin = @ \cup {"client"}]

Unanswered(n) == n.up # <<>> \/ n.down # <<>> \/ n.job # None
(* The connection that is given back has an answer still to come.          *)
Taint(c) == tainted' = IF Unanswered(net'[c]) THEN tainted \cup {c} ELSE tainted

(* Mutant: a connection that is no longer busy is lent all the same.       *)
GivenBackAlways(c) == Append(idle, c)

(* req_destroy: the connection, unless the list has lost it meanwhile.     *)
GivenBack(c) == IF c \in busy THEN Append(idle, c) ELSE idle

(* The complete callback of the innermost request returns.                 *)
Return ==
    /\ stack # <<>>
    /\ LET r == Last(stack) IN
         /\ stack' = Front(stack)
         /\ requests' = Without(requests, r)
         /\ idle' = GivenBack(req[r].conn)
         /\ busy' = busy \ {req[r].conn}
         /\ req' = [req EXCEPT ![r] = [NewReq EXCEPT !.state = "FREED", !.kind = req[r].kind,
                                                     !.told = req[r].told]]
    /\ UNCHANGED <<elem, walk, net, data, done, missed, tainted, calls, faults>>

-----------------------------------------------------------------------------
(* The sequence of a request *)

Sends(c, x) == [net EXCEPT ![c].up = Append(@, x)]

(* send_next_step: the next command, or the end.  q is request r as the    *)
(* handler leaves it and n the connections.                                *)
SendNext(r, q, n) ==
    IF q.cur = Len(Steps[q.kind])
    THEN /\ net' = n
         /\ End(r, q, "OK")
         /\ Taint(q.conn)
    ELSE /\ net' = [n EXCEPT ![q.conn].up =
                       Append(@, [r |-> r, name |-> Steps[q.kind][q.cur + 1]])]
         /\ req' = [req EXCEPT ![r] = [q EXCEPT !.state = "WAIT_RESP", !.cur = @ + 1]]
         /\ UNCHANGED <<stack, data, tainted>>

(* get_conn_elem: an idle connection that has found the server, or a new   *)
(* one.                                                                    *)
Reusable == {i \in DOMAIN idle : elem[idle[i]] # "TCPCONNECTING"}
FreeConns == {c \in Conns : elem[c] = "FREE"}
ConnFor == IF Reusable # {} THEN idle[Min(Reusable)] ELSE Min(FreeConns)

(* Mutant: the connection stays in the list of the idle ones.              *)
TakenKept(c) == idle

Taken(c) == Without(idle, c)

(* req_new and on_start: size and tsize are those of the stream.  While    *)
(* cancel_all runs, only a callback of the application can make the call.  *)
Start(r, kind, size, tsize) ==
    /\ req[r].state = "NONE"
    /\ kind \in Kinds[r]
    /\ walk.kind # "abort"
    /\ walk.kind = "cancel" => stack # <<>>
    /\ Reusable # {} \/ FreeConns # {}
    /\ LET c == ConnFor
           q == [NewReq EXCEPT !.kind = kind, !.conn = c, !.size = size, !.tsize = tsize]
       IN /\ idle' = Taken(c)
          /\ busy' = busy \cup {c}
          /\ elem' = IF elem[c] = "FREE" THEN [elem EXCEPT ![c] = "TCPCONNECTING"] ELSE elem
          /\ IF elem[c] = "CONNECTED"
             THEN /\ req' = [req EXCEPT ![r] = [q EXCEPT !.state = "WAIT_RESP", !.cur = 1]]
                  /\ net' = Sends(c, [r |-> r, name |-> Steps[kind][1]])
             ELSE /\ req' = [req EXCEPT ![r] = [q EXCEPT !.state = "READY"]]
                  /\ UNCHANGED net
    /\ requests' = <<r>> \o requests
    /\ UNCHANGED <<stack, walk, data, done, missed, tainted, calls, faults>>

(* arsdk_ftp_get, arsdk_ftp_put and the others                             *)
Get(r) == \E kind \in {"get", "resume"} : Start(r, kind, Offset(kind), 0)
Put(r) == \E kind \in {"put", "append"} : Start(r, kind, Offset(kind), FileLen)
Size(r) == Start(r, "size", 0, 0)
Rename(r) == Start(r, "rename", 0, 0)
Delete(r) == Start(r, "delete", 0, 0)
List(r) == Start(r, "list", 0, 0)

(* Mutant: the close of the data stream never ends the request.            *)
ServerDoneNever(q) == FALSE

(* resp_226_received                                                       *)
ServerDone(q) == q.got226

(* data_read: one block is read and sent, or none is left (or none can be  *)
(* read) and the stream is closed.  q is request r, already STREAMING.     *)
DataRead(r, q, readable) ==
    IF readable /\ data[r].sent < Total(q.kind)
    THEN /\ req' = [req EXCEPT ![r] = [q EXCEPT !.size = @ + 1]]
         /\ data' = [data EXCEPT ![r].sent = @ + 1]
         /\ UNCHANGED <<stack, tainted>>
    ELSE IF ServerDone(q) THEN End(r, q, "OK") /\ Taint(q.conn)
    ELSE /\ req' = [req EXCEPT ![r] = [q EXCEPT !.opened = FALSE, !.ctx = None]]
         /\ data' = [data EXCEPT ![r].fin = @ \cup {"client"}]
         /\ UNCHANGED <<stack, tainted>>

(* Mutant: the end of the transfer does not wait for the data stream.      *)
ClosedFirstAlways(q) == TRUE

(* resp_226_received: has the data stream been closed already?             *)
ClosedFirst(q) == ~q.opened

Expected(q, p) == p.code = Code[Cmd(q)]

(* manage_response: the port of the data stream, the size of the file      *)
Managed(q, p) ==
    CASE p.code = 229 -> [q EXCEPT !.ctx = p.of]
      [] p.code = 213 -> [q EXCEPT !.tsize = FileLen]
      [] OTHER -> q

(* on_resp_recv: the user r of connection c gets the answer p, and n is    *)
(* the network without it.                                                 *)
EndOfTransfer(r, n) ==
    /\ net' = n
    /\ IF ClosedFirst(req[r])
       THEN End(r, [req[r] EXCEPT !.got226 = TRUE], "OK") /\ Taint(req[r].conn)
       ELSE /\ req' = [req EXCEPT ![r].got226 = TRUE]
            /\ UNCHANGED <<stack, data, tainted>>
    /\ UNCHANGED <<missed, faults>>

Ignored(n) ==
    net' = n /\ UNCHANGED <<req, stack, data, tainted, missed, faults>>

Unexpected(r, n) ==
    /\ net' = n
    /\ End(r, req[r], "FAILED") /\ Taint(req[r].conn)
    /\ UNCHANGED <<missed, faults>>

(* -EIO, which nobody looks at: the sequence goes on waiting.              *)
NoStream(r, n) ==
    /\ net' = n
    /\ missed' = missed \cup {r}
    /\ UNCHANGED <<req, stack, data, tainted, faults>>

StreamIn(r, n) ==
    /\ net' = n
    /\ req' = [req EXCEPT ![r].state = "STREAMING"]
    /\ UNCHANGED <<stack, data, tainted, missed, faults>>

StreamOut(r, n) ==
    /\ net' = n
    /\ \E readable \in BOOLEAN :
          /\ IF readable THEN UNCHANGED faults ELSE Fault
          /\ DataRead(r, [req[r] EXCEPT !.state = "STREAMING"], readable)
    /\ UNCHANGED missed

RecvResp(r, p, n) ==
    LET q == req[r]
        next == q.state = "WAIT_RESP" /\ Expected(q, p)
        last == q.state = "STREAMING" /\ p.code = 226
    IN \/ last /\ EndOfTransfer(r, n)
       \/ q.state # "WAIT_RESP" /\ ~last /\ Ignored(n)
       \/ q.state = "WAIT_RESP" /\ ~next /\ Unexpected(r, n)
       \/ /\ next /\ Cmd(q) \notin DataIn \cup DataOut
          /\ SendNext(r, [Managed(q, p) EXCEPT !.state = "READY"], n)
          /\ UNCHANGED <<missed, faults>>
       \/ next /\ Cmd(q) \in DataIn \cup DataOut /\ ~q.opened /\ NoStream(r, n)
       \/ next /\ Cmd(q) \in DataIn /\ q.opened /\ StreamIn(r, n)
       \/ next /\ Cmd(q) \in DataOut /\ q.opened /\ StreamOut(r, n)

-----------------------------------------------------------------------------
(* The data stream *)

(* on_data_stream_start: the connection is up.                             *)
DataStart(r) ==
    /\ Looping
    /\ req[r].state \in Active
    /\ req[r].ctx = r /\ data[r].est /\ ~req[r].opened
    /\ req' = [req EXCEPT ![r].opened = TRUE]
    /\ UNCHANGED <<requests, elem, idle, busy, stack, walk, net, data, done, missed, tainted, calls, faults>>

(* on_data_stream_recv, in any state: write_data may fail.                 *)
DataRecv(r) ==
    /\ Looping
    /\ req[r].ctx = r /\ req[r].opened
    /\ LastCmd(req[r].kind) \in DataIn
    /\ data[r].got < data[r].sent
    /\ UNCHANGED net
    /\ LET q == [req[r] EXCEPT !.size = @ + 1]
           d == [data EXCEPT ![r].got = @ + 1]
       IN \/ /\ req' = [req EXCEPT ![r] = q]
             /\ data' = d
             /\ UNCHANGED <<stack, tainted, faults>>
          \/ /\ Fault
             /\ req' = [req EXCEPT ![r] = Stopped(q, "FAILED")]
             /\ stack' = Append(stack, r)
             /\ data' = [d EXCEPT ![r].fin = @ \cup {"client"}]
             /\ Taint(q.conn)
    /\ UNCHANGED <<requests, elem, idle, busy, walk, done, missed, calls>>

(* on_data_stream_stop: the server has closed the connection.              *)
DataStop(r) ==
    /\ Looping
    /\ req[r].ctx = r /\ req[r].opened
    /\ "server" \in data[r].fin
    /\ LastCmd(req[r].kind) \in DataIn => data[r].got = data[r].sent
    /\ UNCHANGED net
    /\ LET q == [req[r] EXCEPT !.opened = FALSE, !.ctx = None] IN
         IF ServerDone(q)
         THEN End(r, q, "OK") /\ Taint(q.conn)
         ELSE /\ req' = [req EXCEPT ![r] = q]
              /\ data' = [data EXCEPT ![r].fin = @ \cup {"client"}]
              /\ UNCHANGED <<stack, tainted>>
    /\ UNCHANGED <<requests, elem, idle, busy, walk, done, missed, calls, faults>>

(* pomp_send_cb: the block was sent, the next one is read.                 *)
DataSent(r) ==
    /\ Looping
    /\ req[r].state = "STREAMING" /\ req[r].opened
    /\ LastCmd(req[r].kind) \in DataOut
    /\ "server" \notin data[r].fin
    /\ UNCHANGED <<requests, elem, idle, busy, walk, net, done, missed, calls>>
    /\ \E readable \in BOOLEAN :
         /\ IF readable THEN UNCHANGED faults ELSE Fault
         /\ DataRead(r, req[r], readable)

-----------------------------------------------------------------------------
(* The connections *)

(* ftp_connected: the sequence of the user, if any, sends its first command.*)
Connected(c, n) ==
    /\ elem' = [elem EXCEPT ![c] = "CONNECTED"]
    /\ IF \E r \in Users(c) : req[r].state = "READY"
       THEN \E r \in Users(c) : req[r].state = "READY" /\ SendNext(r, req[r], n)
       ELSE net' = n /\ UNCHANGED <<req, stack, data, tainted>>
    /\ UNCHANGED <<idle, busy>>

(* ftp_disconnected: the element leaves its list first (disconnected_cb of *)
(* arsdk_ftp.c), then the sequence stops (on_ftp_disconnection).           *)
Disconnected(c) ==
    /\ elem' = [elem EXCEPT ![c] = "DISCONNECTED"]
    /\ idle' = Without(idle, c)
    /\ busy' = busy \ {c}
    /\ net' = [net EXCEPT ![c] = NewNet]
    /\ IF Users(c) = {} THEN UNCHANGED <<req, stack, data>>
       ELSE \E r \in Users(c) : End(r, req[r], "ABORTED")
    /\ UNCHANGED tainted

LoginNext == [FTPCONNECTING |-> "LOGIN_USER", LOGIN_USER |-> "LOGIN_PASS"]
LoginCode == [FTPCONNECTING |-> 220, LOGIN_USER |-> 230, LOGIN_PASS |-> 230]
LoginCmd  == [FTPCONNECTING |-> "USER", LOGIN_USER |-> "PASS"]

(* ftp_received and process_event: the answer p, and the network without it*)
Login(c, p, n) ==
    /\ elem[c] \in DOMAIN LoginCode
    /\ \/ p.code # LoginCode[elem[c]] /\ Disconnected(c)
       \/ /\ p.code = LoginCode[elem[c]] /\ elem[c] \in DOMAIN LoginNext
          /\ elem' = [elem EXCEPT ![c] = LoginNext[elem[c]]]
          /\ net' = [n EXCEPT ![c].up = Append(@, [r |-> None, name |-> LoginCmd[elem[c]]])]
          /\ UNCHANGED <<req, stack, data, tainted, idle, busy>>
       \/ /\ p.code = LoginCode[elem[c]] /\ elem[c] = "LOGIN_PASS"
          /\ Connected(c, n)

(* arsdk_ftp_conn_recv_cb: what one read of the socket gives is decoded as *)
(* one answer.                                                             *)
Receive(c) ==
    /\ Looping
    /\ net[c].down # <<>>
    /\ elem[c] \notin {"FREE", "TCPCONNECTING", "DISCONNECTED"}
    /\ LET p == Head(net[c].down)
           n == [net EXCEPT ![c].down = Tail(@)]
       IN \/ Login(c, p, n) /\ UNCHANGED <<missed, faults>>
          \/ /\ elem[c] = "CONNECTED"
             /\ IF Users(c) = {}
                THEN Ignored(n)
                ELSE \E r \in Users(c) : RecvResp(r, p, n)
             /\ UNCHANGED <<elem, idle, busy>>
    /\ UNCHANGED <<requests, walk, done, calls>>

(* POMP_EVENT_CONNECTED: the server greets.                                *)
TcpConnected(c) ==
    /\ Looping
    /\ elem[c] = "TCPCONNECTING"
    /\ elem' = [elem EXCEPT ![c] = "FTPCONNECTING"]
    /\ net' = [net EXCEPT ![c].down = <<[code |-> 220, of |-> None]>>]
    /\ UNCHANGED <<req, requests, idle, busy, stack, walk, data, done, missed, tainted, calls, faults>>

(* POMP_EVENT_DISCONNECTED                                                 *)
TcpDisconnected(c) ==
    /\ Looping
    /\ elem[c] \notin {"FREE", "TCPCONNECTING", "DISCONNECTED"}
    /\ Fault /\ Disconnected(c)
    /\ UNCHANGED <<requests, walk, done, missed, calls>>

(* conn_elem_destroy_cb, when the loop is idle                             *)
DestroyElem(c) ==
    /\ Looping
    /\ elem[c] = "DISCONNECTED"
    /\ elem' = [elem EXCEPT ![c] = "FREE"]
    /\ tainted' = tainted \ {c}
    /\ UNCHANGED <<req, requests, idle, busy, stack, walk, net, data, done, missed, calls, faults>>

-----------------------------------------------------------------------------
(* Cancelling and stopping *)

(* Mutant: a request that has ended can be cancelled once more.            *)
CanStopEnded(r) == req[r].state \in Active \cup {"DONE"}

(* process_event: an ended sequence refuses CANCEL, FAIL and END.          *)
CanStop(r) == req[r].state \in Active

CancelNow(r, q) ==
    /\ UNCHANGED net
    /\ End(r, q, "CANCELED") /\ Taint(q.conn)

(* arsdk_ftp_cancel_req, from a callback or not.  A callback called by     *)
(* cancel_all or stop does not cancel the request these visit next: they   *)
(* would go on with freed memory.                                          *)
Cancel(r) ==
    /\ calls < MaxCalls /\ calls' = calls + 1
    /\ CanStop(r)
    /\ walk.kind # "none" => stack # <<>>
    /\ walk.todo # <<>> => r # Head(walk.todo)
    /\ CancelNow(r, req[r])
    /\ UNCHANGED <<requests, elem, idle, busy, walk, done, missed, faults>>

(* arsdk_ftp_cancel_all and arsdk_ftp_stop begin.                          *)
Walk(kind) ==
    /\ Looping
    /\ calls < MaxCalls /\ calls' = calls + 1
    /\ walk' = [kind |-> kind, todo |-> requests]
    /\ UNCHANGED <<req, requests, elem, idle, busy, stack, net, data, done, missed, tainted, faults>>

(* The walk's next request.                                                *)
WalkStep ==
    /\ stack = <<>> /\ walk.todo # <<>>
    /\ LET r == Head(walk.todo) IN
         /\ walk' = [walk EXCEPT !.todo = Tail(@)]
         /\ IF CanStop(r)
            THEN CancelNow(r, [req[r] EXCEPT !.aborted = (walk.kind = "abort")])
            ELSE UNCHANGED <<req, stack, data, tainted, net>>
    /\ UNCHANGED <<requests, elem, idle, busy, done, missed, calls, faults>>

(* The walk ends; arsdk_ftp_stop destroys the connections (stop_conns).    *)
WalkEnd ==
    /\ stack = <<>> /\ walk.kind # "none" /\ walk.todo = <<>>
    /\ walk' = [kind |-> "none", todo |-> <<>>]
    /\ IF walk.kind = "cancel" THEN UNCHANGED <<elem, idle, busy, net, tainted>>
       ELSE LET kept == {c \in Conns : c \notin busy /\ c \notin ToSet(idle)} IN
            /\ elem' = [c \in Conns |-> IF c \in kept THEN elem[c] ELSE "FREE"]
            /\ net' = [c \in Conns |-> IF c \in kept THEN net[c] ELSE NewNet]
            /\ tainted' = tainted \cap kept
            /\ idle' = <<>> /\ busy' = {}
    /\ UNCHANGED <<req, requests, stack, data, done, missed, calls, faults>>

-----------------------------------------------------------------------------
(* The server and the network *)

Answer(c, code, r) == Append(net[c].down, [code |-> code, of |-> r])

(* The next command of connection c: carried out, or refused.              *)
ServerCmd(c) ==
    /\ net[c].up # <<>> /\ net[c].job = None
    /\ LET x == Head(net[c].up)
           last == x.r # None /\ x.name = LastCmd(req[x.r].kind)
       IN \/ /\ x.name \notin DataIn \cup DataOut
             /\ net' = [net EXCEPT ![c].up = Tail(@), ![c].down = Answer(c, Code[x.name], x.r)]
             /\ done' = IF last THEN done \cup {x.r} ELSE done
             /\ data' = IF x.name = "EPSV" THEN [data EXCEPT ![x.r].port = TRUE] ELSE data
          \/ /\ x.name \in DataIn \cup DataOut
             /\ data[x.r].est
             /\ net' = [net EXCEPT ![c].up = Tail(@), ![c].job = x.r,
                                   ![c].down = Answer(c, 150, x.r)]
             /\ UNCHANGED <<done, data>>
          \/ /\ net' = [net EXCEPT ![c].up = Tail(@), ![c].down = Answer(c, Refusal, x.r)]
             /\ UNCHANGED <<done, data>>
    /\ UNCHANGED <<req, requests, elem, idle, busy, stack, walk, tainted, calls, faults, missed>>

DataConnect(r) ==
    /\ data[r].port /\ ~data[r].est /\ req[r].ctx = r
    /\ data' = [data EXCEPT ![r].est = TRUE]
    /\ UNCHANGED <<req, requests, elem, idle, busy, stack, walk, net, done, missed, tainted, calls, faults>>

(* The server sends or takes a block.                                      *)
ServerData(c) ==
    LET r == net[c].job IN
    /\ r # None
    /\ "server" \notin data[r].fin
    /\ \/ /\ LastCmd(req[r].kind) \in DataIn
          /\ "client" \notin data[r].fin /\ data[r].sent < Total(req[r].kind)
          /\ data' = [data EXCEPT ![r].sent = @ + 1]
       \/ /\ LastCmd(req[r].kind) \in DataOut
          /\ data[r].got < data[r].sent
          /\ data' = [data EXCEPT ![r].got = @ + 1]
    /\ UNCHANGED <<req, requests, elem, idle, busy, stack, walk, net, done, missed, tainted, calls, faults>>

(* The transfer is over: all was sent, or the client has closed.           *)
ServerEnd(c) ==
    LET r == net[c].job IN
    /\ r # None
    /\ IF LastCmd(req[r].kind) \in DataIn THEN data[r].sent = Total(req[r].kind)
       ELSE "client" \in data[r].fin /\ data[r].got = data[r].sent
    /\ data' = [data EXCEPT ![r].fin = @ \cup {"server"}]
    /\ net' = [net EXCEPT ![c].job = None, ![c].down = Answer(c, 226, r)]
    /\ done' = done \cup {r}
    /\ UNCHANGED <<req, requests, elem, idle, busy, stack, walk, tainted, calls, faults, missed>>

(* The transfer fails.                                                     *)
Aborted(c) ==
    LET r == net[c].job IN
    /\ data' = [data EXCEPT ![r].fin = @ \cup {"server"}]
    /\ net' = [net EXCEPT ![c].job = None, ![c].down = Answer(c, 426, r)]
    /\ UNCHANGED <<req, requests, elem, idle, busy, stack, walk, done, missed, tainted, calls>>

(* The client has closed the data stream of a download.                    *)
ServerGiveUp(c) ==
    /\ net[c].job # None
    /\ "client" \in data[net[c].job].fin /\ LastCmd(req[net[c].job].kind) \in DataIn
    /\ Aborted(c) /\ UNCHANGED faults

ServerFail(c) == net[c].job # None /\ Fault /\ Aborted(c)

(* Two answers come in one read (the second is not decoded), or one in two.*)
Coalesce(c) ==
    /\ Fault
    /\ \/ /\ Len(net[c].down) > 1
          /\ net' = [net EXCEPT ![c].down = <<Head(@)>> \o Tail(Tail(@))]
       \/ /\ net[c].down # <<>>
          /\ LET part == [code |-> Junk, of |-> Head(net[c].down).of]
             IN  net' = [net EXCEPT ![c].down = <<part, part>> \o Tail(@)]
    /\ UNCHANGED <<req, requests, elem, idle, busy, stack, walk, data, done, missed, tainted, calls>>

-----------------------------------------------------------------------------
Loop ==
    \/ Return \/ WalkStep \/ WalkEnd
    \/ \E c \in Conns : Receive(c) \/ TcpConnected(c) \/ DestroyElem(c)
    \/ \E r \in Reqs : DataStart(r) \/ DataRecv(r) \/ DataStop(r) \/ DataSent(r)

Application ==
    \/ \E r \in Reqs : Get(r) \/ Put(r) \/ Size(r) \/ Rename(r) \/ Delete(r) \/ List(r) \/ Cancel(r)
    \/ \E kind \in {"cancel", "abort"} : Walk(kind)

Server ==
    \/ \E c \in Conns : ServerCmd(c) \/ ServerData(c) \/ ServerEnd(c) \/ ServerGiveUp(c)
    \/ \E r \in Reqs : DataConnect(r)

Failures == \E c \in Conns : TcpDisconnected(c) \/ ServerFail(c) \/ Coalesce(c)

Next == Loop \/ Application \/ Server \/ Failures

Spec == Init /\ [][Next]_vars

Fairness ==
    /\ WF_vars(Return) /\ WF_vars(WalkStep) /\ WF_vars(WalkEnd)
    /\ \A c \in Conns :
         /\ WF_vars(Receive(c)) /\ WF_vars(TcpConnected(c)) /\ WF_vars(DestroyElem(c))
         /\ WF_vars(ServerCmd(c)) /\ WF_vars(ServerData(c)) /\ WF_vars(ServerEnd(c))
         /\ WF_vars(ServerGiveUp(c))
    /\ \A r \in Reqs :
         /\ WF_vars(DataStart(r)) /\ WF_vars(DataRecv(r)) /\ WF_vars(DataStop(r))
         /\ WF_vars(DataSent(r)) /\ WF_vars(DataConnect(r))
FairSpec == Spec /\ Fairness
=============================================================================
