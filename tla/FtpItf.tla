------------------------------- MODULE FtpItf -------------------------------
(***************************************************************************)
(* The FTP interface of a device (libarsdkctrl/src/arsdk_ftp_itf.c): it    *)
(* gives the other interfaces requests that run on the FTP client of       *)
(* module Ftp.  A request is not handed to the client when it is created:  *)
(* an idle callback of the loop, or the opening of a proxy of the          *)
(* multiplexer, starts it later.  Until then it cannot be cancelled.       *)
(*                                                                         *)
(* A request <<owner, op, k>> is the k-th request op of owner; when it is  *)
(* over, owner's callback runs before the request is freed.  This module   *)
(* gives the state, and what each function does to it; the owners give     *)
(* the callbacks, and Services puts them together.                         *)
(***************************************************************************)
EXTENDS Naturals, FiniteSets

CONSTANTS Owners,     \* who creates requests
          MaxFiles    \* bound on the files of one directory

ASSUME MaxFilesAssumption == MaxFiles \in Nat \ {0, 1}

Ops == {"list", "dir", "get", "put", "delete", "deldir", "rename"}
Subs == Owners \X Ops \X (1..MaxFiles)

\* How a request ends (enum arsdk_ftp_req_status).
FtpStatus == {"OK", "FAILED", "CANCELED", "ABORTED"}

\* A waiting request has no request of the client yet.  A sizing one asks
\* for the size of the file before the put that it resumes: base->ftpreq is
\* still NULL.
SubStates == {"waiting", "sizing", "started"}

VARIABLES sub,    \* the state of each request that is not over
          up,     \* itf->transport is set
          walk    \* the client's requests are being cancelled, or stopped

ftpVars == <<sub, up, walk>>

FtpTypeOK == /\ DOMAIN sub \subseteq Subs
             /\ sub \in [DOMAIN sub -> SubStates]
             /\ up \in BOOLEAN
             /\ walk \in {"no", "cancel", "stop"}

FtpInit == /\ sub = [s \in {} |-> "waiting"]
           /\ up = TRUE
           /\ walk = "no"

Pending(o) == {s \in DOMAIN sub : s[1] = o}
Started(o) == {s \in Pending(o) : sub[s] = "started"}
Running == {s \in DOMAIN sub : sub[s] # "waiting"}

\* The application resumes a put; the other owners never do.
IsResume(s) == s[1] = "app" /\ s[2] = "put"

-----------------------------------------------------------------------------
\* The requests once those of Over are freed and those of New created;
\* creating one needs the transport.
After(Over, New) ==
    [s \in (DOMAIN sub \ Over) \cup (IF up THEN New ELSE {}) |->
        IF s \in New THEN "waiting" ELSE sub[s]]

\* The loop is idle, or the proxy is open: the request is given to the client.
SubStart(s) ==
    /\ walk = "no" /\ up
    /\ s \in DOMAIN sub /\ sub[s] = "waiting"
    /\ sub' = [sub EXCEPT ![s] = IF IsResume(s) THEN "sizing" ELSE "started"]
    /\ UNCHANGED <<up, walk>>

\* The size is known, or the file is not there: the put follows.
SizeComplete(s) ==
    /\ walk = "no" /\ up
    /\ s \in DOMAIN sub /\ sub[s] = "sizing"
    /\ sub' = [sub EXCEPT ![s] = "started"]
    /\ UNCHANGED <<up, walk>>

\* Request s is over with status st: its owner's callback may run.  It has
\* failed to start, the client ended it, or the client is being emptied.  The
\* client aborts by itself a request whose control connection is lost.  When
\* the put that resumes cannot follow its size, the status is the size's.
SubOver(s, st) ==
    /\ s \in DOMAIN sub
    /\ \/ walk = "no" /\ up /\ sub[s] = "waiting" /\ st = "FAILED"
       \/ walk = "no" /\ up /\ s \in Running /\ st \in {"OK", "FAILED", "ABORTED"}
       \/ walk = "cancel" /\ s \in Running /\ st = "CANCELED"
       \/ walk = "stop" /\ s \in Running /\ st = "ABORTED"

\* arsdk_ftp_itf_cancel_all: every request that runs ends now.
CancelAll ==
    /\ walk = "no" /\ up
    /\ Running # {}
    /\ walk' = "cancel"
    /\ UNCHANGED <<sub, up>>

CancelAllEnd ==
    /\ walk = "cancel" /\ Running = {}
    /\ walk' = "no"
    /\ UNCHANGED <<sub, up>>

\* arsdk_ftp_itf_stop: no request can be created any more, those that run
\* end now.
Stop ==
    /\ walk = "no" /\ up
    /\ up' = FALSE
    /\ walk' = "stop"
    /\ UNCHANGED sub

\* What the interfaces' own stop can count on.
StopEnd == walk = "stop" /\ Running = {}
=============================================================================
