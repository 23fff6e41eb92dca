------------------------------- MODULE Upload -------------------------------
(***************************************************************************)
(* The interfaces that send files to a device over FTP: the ephemeris      *)
(* (libarsdkctrl/src/arsdk_ephemeris_itf.c) and the firmware               *)
(* (arsdk_updater_itf.c with updater/arsdk_updater_transport_ftp.c).       *)
(* Both send a file and its MD5 as two requests that run at the same time. *)
(*                                                                         *)
(* The ephemeris is first compared with the MD5 that the device holds.     *)
(* The firmware is sent under a temporary name and renamed at the end.     *)
(***************************************************************************)
EXTENDS FtpItf, Sequences

CONSTANT Rounds    \* bound on the uploads of each interface

ASSUME RoundsAssumption == Rounds \in Nat

\* The requests of both: 1 is the MD5's, 2 the file's.
Md5Get == <<"ephemeris", "get", 1>>
Md5Put(o) == <<o, "put", 1>>
FilePut(o) == <<o, "put", 2>>
Puts(o) == {Md5Put(o), FilePut(o)}
Rename == <<"updater", "rename", 1>>
Uploaders == {"ephemeris", "updater"}

VARIABLES req,      \* the upload of each interface
          remote,   \* what the device holds: the files, next to the local one
          rounds    \* the uploads so far

\* sent collects the puts that the device took whole.
NoReq == [st |-> "none", running |-> FALSE, aborted |-> FALSE, status |-> "OK",
          sent |-> {}, same |-> FALSE, told |-> << >>]

\* A file of the device, compared with the local one: another one, a part of
\* it, or the same.  The firmware is final once it has its name.
Held == {"other", "part", "same"}

UploadInit ==
    /\ req = [o \in Uploaders |-> NoReq]
    /\ remote = [o \in Uploaders |-> [md5 |-> "other", file |-> "other", final |-> FALSE]]
    /\ rounds = [o \in Uploaders |-> 0]

UploadTypeOK ==
    /\ \A o \in Uploaders :
         /\ req[o].st \in {"none", "running", "done", "lost"}
         /\ req[o].running \in BOOLEAN /\ req[o].aborted \in BOOLEAN
         /\ req[o].status \in FtpStatus
         /\ req[o].sent \subseteq Puts(o)
         /\ {req[o].told[i] : i \in DOMAIN req[o].told} \subseteq FtpStatus
         /\ remote[o].md5 \in Held /\ remote[o].file \in Held
    /\ rounds \in [Uploaders -> 0..Rounds]

-----------------------------------------------------------------------------
\* What the device may hold after put s ended with st.
Stored(s, st) ==
    LET o == s[1]
        into(old) == IF st = "OK" THEN {"same"} ELSE {old, "part"}
    IN  IF s = Md5Put(o)
        THEN {[remote[o] EXCEPT !.md5 = h] : h \in into(remote[o].md5)}
        ELSE {[remote[o] EXCEPT !.file = h] : h \in into(remote[o].file)}

\* ... after all the puts of Over were cancelled.
AllStored(o, Over) ==
    {r \in [md5 : Held, file : Held, final : BOOLEAN] :
        /\ r.final = remote[o].final
        /\ IF Md5Put(o) \in Over THEN r.md5 \in {remote[o].md5, "part"}
           ELSE r.md5 = remote[o].md5
        /\ IF FilePut(o) \in Over THEN r.file \in {remote[o].file, "part"}
           ELSE r.file = remote[o].file}

\* The application is told status.
Complete(r, status) == [r EXCEPT !.st = "done", !.told = Append(@, status)]

\* Mutant: the last status is the request's.
PutStatusLast(r, st) == IF r.aborted THEN "ABORTED" ELSE st

\* update_put_complete_cb, put_complete: the first status that is not a
\* success is the request's.
PutStatus(r, st) == IF r.status # "OK" THEN r.status
                    ELSE IF r.aborted THEN "ABORTED" ELSE st

\* One upload at a time; the application may start another one after.
Create(o, New) ==
    /\ walk = "no" /\ up
    /\ req[o].st # "running" /\ Pending(o) = {}
    /\ rounds[o] < Rounds
    /\ req' = [req EXCEPT ![o] = [NoReq EXCEPT !.st = "running", !.running = TRUE]]
    /\ rounds' = [rounds EXCEPT ![o] = @ + 1]
    /\ sub' = After({}, New)
    /\ UNCHANGED <<remote, up, walk>>

-----------------------------------------------------------------------------
\* arsdk_ephemeris_itf_create_req_upload: the MD5 of the device comes first.
EphemerisCreate == Create("ephemeris", {Md5Get})

\* put_files; the file may not open, and without the transport nothing can be
\* created.
PutFiles(r, opens) == IF opens THEN r ELSE Complete(r, "FAILED")

\* md5_get_complete: the files are sent unless the device has this MD5.
Md5GetEnd(st) ==
    LET r == req["ephemeris"]
        same == st = "OK" /\ remote["ephemeris"].md5 = "same"
    IN  /\ SubOver(Md5Get, st)
        /\ \E opens \in {FALSE, up} :
             /\ req' = [req EXCEPT !["ephemeris"] =
                          IF same THEN Complete([r EXCEPT !.same = TRUE], "OK")
                          ELSE PutFiles(r, opens)]
             /\ sub' = After({Md5Get},
                             IF same \/ ~opens THEN {} ELSE Puts("ephemeris"))
        /\ UNCHANGED <<remote, rounds, up, walk>>

\* put_complete.
EphemerisPutEnd(s, st) ==
    LET r == req["ephemeris"]
        status == PutStatus(r, st)
        c == [r EXCEPT !.status = status,
                       !.sent = IF st = "OK" THEN @ \cup {s} ELSE @]
    IN  /\ s \in Puts("ephemeris") /\ SubOver(s, st)
        /\ req' = [req EXCEPT !["ephemeris"] =
                     IF Pending("ephemeris") = {s} THEN Complete(c, status) ELSE c]
        /\ \E h \in Stored(s, st) : remote' = [remote EXCEPT !["ephemeris"] = h]
        /\ sub' = After({s}, {})
        /\ UNCHANGED <<rounds, up, walk>>

\* arsdk_ephemeris_req_upload_cancel: the request is freed whatever is left.
EphemerisCancel ==
    LET r == req["ephemeris"]
        Over == Started("ephemeris")
        whole == Over # {} /\ Pending("ephemeris") = Over
        status == IF r.status # "OK" THEN r.status ELSE "CANCELED"
    IN  /\ walk = "no" /\ up
        /\ r.st = "running" /\ r.running
        /\ req' = [req EXCEPT !["ephemeris"] =
                     IF whole THEN [Complete(r, status) EXCEPT !.running = FALSE]
                     ELSE [r EXCEPT !.st = "lost", !.running = FALSE]]
        /\ remote' \in {[remote EXCEPT !["ephemeris"] = h] : h \in AllStored("ephemeris", Over)}
        /\ sub' = After(Pending("ephemeris"), {})
        /\ UNCHANGED <<rounds, up, walk>>

-----------------------------------------------------------------------------
\* arsdk_updater_transport_ftp_create_req_upload.
UpdaterCreate == Create("updater", Puts("updater"))

\* update_put_complete_cb: a put that failed takes the other one with it, if
\* the client has it; the firmware is renamed once both are sent.
UpdaterPutEnd(s, st) ==
    LET r == req["updater"]
        first == r.status = "OK" /\ ~r.aborted /\ st # "OK"
        Other == IF first THEN Started("updater") \ {s} ELSE {}
        left == Pending("updater") \ ({s} \cup Other)
        status == PutStatus(r, st)
        c == [r EXCEPT !.status = status,
                       !.sent = IF st = "OK" THEN @ \cup {s} ELSE @]
    IN  /\ s \in Puts("updater") /\ SubOver(s, st)
        /\ req' = [req EXCEPT !["updater"] =
                     IF left # {} THEN c
                     ELSE IF status # "OK" THEN Complete(c, status)
                     ELSE IF ~up THEN Complete(c, "FAILED") ELSE c]
        /\ \E h \in Stored(s, st) :
             \E g \in AllStored("updater", Other) :
               remote' = [remote EXCEPT !["updater"] =
                            IF Other = {} THEN h
                            ELSE IF s = Md5Put("updater") THEN [h EXCEPT !.file = g.file]
                            ELSE [h EXCEPT !.md5 = g.md5]]
        /\ sub' = After({s} \cup Other,
                        IF left = {} /\ status = "OK" THEN {Rename} ELSE {})
        /\ UNCHANGED <<rounds, up, walk>>

\* update_rename_complete_cb: this status is the last word.
RenameEnd(st) ==
    /\ SubOver(Rename, st)
    /\ req' = [req EXCEPT !["updater"] = Complete([@ EXCEPT !.status = st], st)]
    /\ remote' = [remote EXCEPT !["updater"].final = @ \/ st = "OK"]
    /\ sub' = After({Rename}, {})
    /\ UNCHANGED <<rounds, up, walk>>

\* arsdk_updater_ftp_req_upload_cancel: nothing is cancelled that has not
\* started, and the upload goes on.
UpdaterCancel ==
    LET r == req["updater"]
        Over == Started("updater")
        whole == Pending("updater") = Over
        status == IF Rename \in Over THEN "CANCELED" ELSE PutStatus(r, "CANCELED")
        c == [r EXCEPT !.status = status]
    IN  /\ walk = "no" /\ up
        /\ r.st = "running" /\ Over # {}
        /\ req' = [req EXCEPT !["updater"] = IF whole THEN Complete(c, status) ELSE c]
        /\ remote' \in {[remote EXCEPT !["updater"] = h] : h \in AllStored("updater", Over)}
        /\ sub' = After(Over, {})
        /\ UNCHANGED <<rounds, up, walk>>

-----------------------------------------------------------------------------
\* The interfaces' stop, after the FTP interface's: what has not started
\* cannot be cancelled.
UploadStopped ==
    [o \in Uploaders |->
       IF req[o].st # "running" THEN req[o]
       ELSE IF o = "ephemeris"
       THEN [req[o] EXCEPT !.status = "ABORTED", !.running = FALSE, !.st = "lost"]
       ELSE [req[o] EXCEPT !.aborted = TRUE]]
=============================================================================
