------------------------------ MODULE FtpProps ------------------------------
(***************************************************************************)
(* What the FTP client promises to those who make requests of it.          *)
(***************************************************************************)
EXTENDS Ftp

(* A connection carries the commands of one request at a time: it is not   *)
(* idle and busy at once, nor listed twice, and a request that has not     *)
(* been told its end either holds a busy connection of its own             *)
(* (get_conn_elem, req_destroy, disconnected_cb in arsdk_ftp.c).           *)
ConnExclusive ==
    /\ IsInjective(idle) /\ ToSet(idle) \cap busy = {}
    /\ \A r \in Reqs : req[r].state \in Active =>
         /\ req[r].conn \in busy
         /\ \A k \in Reqs : req[k].state \in Active /\ req[k].conn = req[r].conn => k = r

(* The complete callback is called once for every request, and until it    *)
(* has returned the request is in the list that cancel_all and stop visit  *)
(* (seq_complete_cb, the DONE state of arsdk_ftp_seq.c).                   *)
CompleteOnce ==
    \A r \in Reqs :
      /\ Len(req[r].told) = IF req[r].state \in {"DONE", "FREED"} THEN 1 ELSE 0
      /\ req[r].state \in Active \cup {"DONE"} <=> \E i \in 1..Len(requests) : requests[i] = r
      /\ req[r].state = "DONE" <=> \E i \in 1..Len(stack) : stack[i] = r

(* A request is told that it succeeded only if the server carried out its  *)
(* last command and the whole file or listing went through, even if 226    *)
(* and the end of the data stream come in either order.  A connection that *)
(* a cancelled or failed request left with an answer still to come keeps   *)
(* no such promise for those who borrow it next.                           *)
OkMeansDone ==
    \A r \in Reqs :
      req[r].state = "DONE" /\ req[r].told = <<"OK">> /\ req[r].conn \notin tainted =>
        /\ r \in done
        /\ LastCmd(req[r].kind) \in DataIn \cup DataOut => data[r].got = Total(req[r].kind)

(* After arsdk_ftp_stop no request that it found goes on, and a connection *)
(* is kept by nobody: a request that still runs holds one that exists.     *)
NoneOrphaned ==
    \A r \in Reqs : req[r].state \in Active => elem[req[r].conn] \in ConnStates \ {"DISCONNECTED"}

(* Types hold, and: a connection is lent to one request at a *)
(* time, for as long as it exists (get_conn_elem, stop_conns).             *)
ConnsLent == TypeOK /\ ConnExclusive /\ NoneOrphaned

(* Every request ends, whatever the server answers, unless the server      *)
(* aborts a transfer, an answer is not read in one piece or 150 comes      *)
(* before the data stream is open: the client has no timeout (on_resp_recv).*)
EndsUnlessFault ==
    \A r \in Reqs :
      req[r].state \in Active ~> (req[r].state = "FREED" \/ r \in missed \/ faults > 0)
=============================================================================
