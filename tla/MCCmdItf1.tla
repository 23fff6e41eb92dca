----------------------------- MODULE MCCmdItf1 -----------------------------
(***************************************************************************)
(* Instances of CmdItf1 for TLC.  The queues are those of the tables of    *)
(* arsdk_device.c (controller) and arsdk_peer.c (device), at most two of   *)
(* them, with the acknowledgement timeout of 150 ms scaled down.           *)
(***************************************************************************)
EXTENDS CmdItf1Props

(* One acknowledged queue that gives up after one retry (the controller's, *)
(* after 5).                                                               *)
AckOnly == <<[type |-> "WITHACK", lowPrio |-> FALSE, ackTimeout |-> 1,
              maxRate |-> 0, overwrite |-> FALSE, maxRetry |-> 1]>>

(* The same queue next to a rate limited one that overwrites.              *)
AckAndRated == AckOnly \o
    <<[type |-> "NOACK", lowPrio |-> FALSE, ackTimeout |-> 0,
       maxRate |-> 1, overwrite |-> TRUE, maxRetry |-> -1]>>

(* One acknowledged queue that never gives up (the device's).              *)
AckForever == <<[type |-> "WITHACK", lowPrio |-> FALSE, ackTimeout |-> 1,
                 maxRate |-> 0, overwrite |-> FALSE, maxRetry |-> -1]>>

=============================================================================
