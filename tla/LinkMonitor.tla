---------------------------- MODULE LinkMonitor ----------------------------
(***************************************************************************)
(* How a transport watches its link (libarsdk/src/arsdk_transport.c).  A   *)
(* periodic timer, put back by everything received, sends a ping; a ping   *)
(* that the next one finds still running is a failure; three in a row      *)
(* break the link, and the pong of the running ping mends it.  The change  *)
(* of status is told to the user later, from an idle callback.             *)
(*                                                                         *)
(* The time stamp a ping carries, and its pong gives back, is either the   *)
(* running ping's ("current") or an earlier one's ("stale").               *)
(***************************************************************************)
EXTENDS Integers, FiniteSetsExt

CONSTANTS
    Period,     \* ticks between two pings (2000 ms, 1000 ms over mux)
    Limit,      \* failures that break the link (3)
    IdleCap     \* bound: pending idle callbacks

ASSUME PeriodAssumption == Period \in Nat /\ Period > 0
ASSUME LimitAssumption == Limit \in Nat /\ Limit > 0
ASSUME IdleAssumption == IdleCap \in Nat /\ IdleCap > 0

VARIABLES
    started,    \* between arsdk_transport_start and _stop
    timer,      \* ticks before the next expiry of the ping timer
    due,        \* the timer has expired and timer_cb has not run yet
    running,    \* ping.running
    failures,   \* ping.failures
    status,     \* link_status
    idle,       \* pending calls of notify_link_status_idle
    told,       \* history: the status the user believes in
    pongs,      \* stamps of the pongs in the network
    silent,     \* history: ticks since the last receipt, or the start
    socketOk    \* history: the last write was not a socket error

linkVars == <<started, timer, due, running, failures, status, idle, told, pongs,
          silent, socketOk>>

Status == {"OK", "KO"}
Stamps == {"current", "stale"}
Outcomes == {"sent", "lost", "error"}
SilentCap == (Limit + 2) * Period     \* bound: silence is counted up to this

LinkTypeOK ==
    /\ started \in BOOLEAN
    /\ timer \in 1..Period
    /\ due \in BOOLEAN
    /\ running \in BOOLEAN
    /\ failures \in 0..Limit
    /\ status \in Status
    /\ idle \in 0..IdleCap
    /\ told \in Status
    /\ pongs \subseteq Stamps
    /\ silent \in 0..SilentCap
    /\ socketOk \in BOOLEAN

LinkInit ==
    /\ started = FALSE
    /\ timer = Period
    /\ due = FALSE
    /\ running = FALSE
    /\ failures = 0
    /\ status = "OK"
    /\ idle = 0
    /\ told = "OK"
    /\ pongs = {}
    /\ silent = 0
    /\ socketOk = TRUE

-----------------------------------------------------------------------------
(* Mutant: the user is not told.                                           *)
SetLinkStatusQuietly(s) == status' = s /\ UNCHANGED idle

(* arsdk_transport_set_link_status, s being status after all the changes   *)
(* the step makes: each change adds an idle callback.                      *)
SetLinkStatus(s) ==
    /\ status' = s
    /\ idle' = IF s # status /\ idle < IdleCap THEN idle + 1 ELSE idle

(* Writing a datagram: only a socket error breaks the link at once.        *)
AfterSend(s, out) == IF out = "error" THEN "KO" ELSE s

(* Mutant: the failures of before the receipt still count.                 *)
RestartPingOnly == timer' = Period /\ due' = FALSE /\ UNCHANGED failures

RestartPing == timer' = Period /\ due' = FALSE /\ failures' = 0

Start ==
    /\ ~started
    /\ started' = TRUE
    /\ RestartPing
    /\ status' = "OK"
    /\ told' = "OK"
    /\ running' = FALSE
    /\ silent' = 0
    /\ socketOk' = TRUE
    /\ UNCHANGED <<idle, pongs>>

(* Stop removes the pending idle callbacks and clears the timer.           *)
Stop ==
    /\ started
    /\ started' = FALSE
    /\ idle' = 0
    /\ due' = FALSE
    /\ timer' = Period
    /\ UNCHANGED <<running, failures, status, told, pongs, silent, socketOk>>

(* Mutant: one failure more is needed.                                     *)
BreaksLate(f) == f > Limit

Breaks(f) == f >= Limit

(* timer_cb: count the running ping as a failure, then send the next.      *)
(* A failure more than Limit has no further effect.                        *)
TimerCb(out) ==
    /\ started /\ due
    /\ due' = FALSE
    /\ LET f == IF running THEN failures + 1 ELSE failures
           s == IF running /\ Breaks(f) THEN "KO" ELSE status
       IN  /\ failures' = IF f > Limit THEN Limit ELSE f
           /\ SetLinkStatus(AfterSend(s, out))
    /\ pongs' = (IF pongs = {} THEN {} ELSE {"stale"})
                    \cup (IF out = "sent" THEN {"current"} ELSE {})
    /\ socketOk' = (out # "error")
    /\ running' = TRUE
    /\ UNCHANGED <<started, timer, told, silent>>

(* Mutant: only the pong of a ping given up mends the link.                *)
MendedStale(stamp) == running /\ stamp = "stale"

Mended(stamp) == running /\ stamp = "current"

(* recv_pong, then the restart every receipt makes.                        *)
RecvPong(stamp, copy) ==
    /\ started
    /\ stamp \in pongs
    /\ pongs' = IF copy THEN pongs ELSE pongs \ {stamp}
    /\ running' = (running /\ stamp = "stale")
    /\ SetLinkStatus(IF Mended(stamp) THEN "OK" ELSE status)
    /\ RestartPing
    /\ silent' = 0
    /\ UNCHANGED <<started, told, socketOk>>

(* Any other frame: a ping of the peer is answered, the rest goes to the   *)
(* user, who may answer as well.                                           *)
RecvOther(out) ==
    /\ started
    /\ SetLinkStatus(AfterSend(status, out))
    /\ socketOk' = (out # "error")
    /\ RestartPing
    /\ silent' = 0
    /\ UNCHANGED <<started, running, told, pongs>>

(* The user sends on its own account; a read that fails has the effects of *)
(* a write that does.                                                      *)
SendData(out) ==
    /\ started
    /\ SetLinkStatus(AfterSend(status, out))
    /\ socketOk' = (out # "error")
    /\ UNCHANGED <<started, timer, due, running, failures, told, pongs, silent>>

NotifyLinkStatusIdle ==
    /\ idle > 0
    /\ idle' = idle - 1
    /\ told' = IF started THEN status ELSE told
    /\ UNCHANGED <<started, timer, due, running, failures, status, pongs, silent,
                   socketOk>>

LosePong(stamp) ==
    /\ stamp \in pongs
    /\ pongs' = pongs \ {stamp}
    /\ UNCHANGED <<started, timer, due, running, failures, status, idle, told,
                   silent, socketOk>>

(* A tick.  The loop serves an expiry before the next one.                 *)
Tick ==
    /\ started
    /\ ~(due /\ timer = 1)
    /\ timer' = IF timer = 1 THEN Period ELSE timer - 1
    /\ due' = (due \/ timer = 1)
    /\ silent' = IF silent < SilentCap THEN silent + 1 ELSE silent
    /\ UNCHANGED <<started, running, failures, status, idle, told, pongs, socketOk>>

Unstopped ==
    \/ Start
    \/ NotifyLinkStatusIdle
    \/ Tick
    \/ \E out \in Outcomes : TimerCb(out)
    \/ \E stamp \in Stamps : RecvPong(stamp, FALSE) \/ LosePong(stamp)

LinkNext ==
    \/ Unstopped
    \/ \E stamp \in Stamps : RecvPong(stamp, TRUE)
    \/ \E out \in Outcomes : RecvOther(out) \/ SendData(out)
    \/ Stop

LinkSpec == LinkInit /\ [][LinkNext]_linkVars

(* The loop serves its timer and idle callbacks; pings sent again and      *)
(* again get through, and so do their pongs.                               *)
FairLink ==
    /\ WF_linkVars(Start) /\ WF_linkVars(Tick) /\ WF_linkVars(NotifyLinkStatusIdle)
    /\ WF_linkVars(\E out \in Outcomes : TimerCb(out))
    /\ SF_linkVars(TimerCb("sent")) /\ SF_linkVars(RecvPong("current", FALSE))

FairLinkSpec == LinkSpec /\ FairLink

-----------------------------------------------------------------------------
(* The link is only declared broken by the pings after Limit periods in    *)
(* which nothing at all was received: a ping left running by earlier data  *)
(* does not shorten that.                                                  *)
KoAfterSilence ==
    [][(started /\ status = "OK" /\ status' = "KO" /\ socketOk')
          => silent >= Limit * Period]_linkVars

(* And it is declared broken after Limit + 1 periods of silence, plus the  *)
(* lateness of the timer's service, whatever was lost or left running.     *)
SilenceDetected ==
    started /\ silent > (Limit + 2) * Period - 1 => status = "KO"

(* arsdk_device.h: the link is assumed OK at connection; from then on the  *)
(* user is told, or about to be told, of the present status.               *)
ToldStatus == started /\ idle = 0 => told = status

(* arsdk_peer.h: on KO the user "can either wait for link to become OK     *)
(* again or disconnect".  A link that carries pings and pongs is mended.    *)
Mends == (started /\ status = "KO") ~> (status = "OK")

(* It is, when the user waits and there is no other traffic.               *)
MendsWhenQuiet == <>[][Unstopped]_linkVars => Mends
=============================================================================
