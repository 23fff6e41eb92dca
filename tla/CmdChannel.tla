----------------------------- MODULE CmdChannel -----------------------------
(***************************************************************************)
(* What a command queue that never gives up promises to the two            *)
(* applications at its ends, with no frame, number, timer or retry in it:  *)
(* commands are delivered in the order they were sent, each once, and the  *)
(* sender gets one final word on each: ACK_RECEIVED only for a command     *)
(* that was delivered, CANCELED only when the interface is stopped.        *)
(***************************************************************************)
EXTENDS Naturals

CONSTANT MaxCmds

VARIABLES
    open,       \* the interface was not stopped
    sent,       \* commands 1..sent were accepted
    received,   \* commands 1..received were given to the peer's application
    verdict     \* what the sender was told of each command

chanVars == <<open, sent, received, verdict>>
Cmds == 1..MaxCmds

TypeOK ==
    /\ open \in BOOLEAN
    /\ sent \in 0..MaxCmds
    /\ received \in 0..sent
    /\ verdict \in [Cmds -> {"none", "ACK_RECEIVED", "CANCELED"}]

Init ==
    /\ open = TRUE
    /\ sent = 0
    /\ received = 0
    /\ verdict = [n \in Cmds |-> "none"]

Submit ==
    /\ open
    /\ sent < MaxCmds
    /\ sent' = sent + 1
    /\ UNCHANGED <<open, received, verdict>>

(* Commands that travel together are delivered together.                   *)
Deliver ==
    /\ \E n \in Cmds : received < n /\ n <= sent /\ received' = n
    /\ UNCHANGED <<open, sent, verdict>>

(* Commands are acknowledged in order, and together up to any of those     *)
(* delivered.                                                              *)
Acknowledge(n) ==
    /\ open
    /\ n <= received
    /\ verdict[n] = "none"
    /\ verdict' = [m \in Cmds |-> IF m <= n THEN "ACK_RECEIVED" ELSE verdict[m]]
    /\ UNCHANGED <<open, sent, received>>

Close ==
    /\ open
    /\ open' = FALSE
    /\ verdict' = [n \in Cmds |-> IF n <= sent /\ verdict[n] = "none"
                                  THEN "CANCELED" ELSE verdict[n]]
    /\ UNCHANGED <<sent, received>>

Next ==
    \/ Submit
    \/ Deliver
    \/ \E n \in Cmds : Acknowledge(n)
    \/ Close

Spec == Init /\ [][Next]_chanVars
=============================================================================
