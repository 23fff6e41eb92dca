------------------------------ MODULE Services ------------------------------
(***************************************************************************)
(* The interfaces of a device (libarsdkctrl/src/arsdk_device.c) that share *)
(* one FTP interface, with those of the multiplexer: the application       *)
(* creates and cancels requests, and the device disconnects: then the FTP  *)
(* interface is stopped first, and the others after it.                    *)
(*                                                                         *)
(* Init chooses the interfaces and requests that the application uses.     *)
(***************************************************************************)
EXTENDS Media, Download, Upload, MuxServices

CONSTANT Scenarios     \* sets of interfaces, and of requests of the application, used together

AppOps == {"list", "get", "put", "delete", "rename"}
Used == (Owners \ {"app"}) \cup AppOps \cup {"mux"}

ASSUME ScenariosAssumption ==
    /\ Scenarios \subseteq SUBSET Used
    /\ Owners = MediaReqs \cup Dls \cup Uploaders \cup {"app"}

VARIABLES used,      \* the interfaces in use
          app        \* the requests that the application makes by itself

svcVars == <<ftpVars, media, dl, dlist, req, remote, rounds, muxVars, used, app>>

TypeOK ==
    /\ FtpTypeOK /\ DlTypeOK /\ UploadTypeOK /\ MuxTypeOK
    /\ media \in [MediaReqs -> MediaReq]
    /\ used \in Scenarios
    /\ app \in [AppOps -> {"none", "running"} \cup FtpStatus]

Init == /\ FtpInit /\ MediaInit /\ DlInit /\ UploadInit /\ MuxInit
        /\ used \in Scenarios
        /\ app = [op \in AppOps |-> "none"]

-----------------------------------------------------------------------------
AppSub(op) == <<"app", op, 1>>

\* A request of the FTP interface.
AppCreate(op) ==
    /\ up /\ walk = "no"
    /\ op \in used /\ app[op] = "none"
    /\ app' = [app EXCEPT ![op] = "running"]
    /\ sub' = After({}, {AppSub(op)})
    /\ UNCHANGED <<up, walk>>

\* arsdk_ftp_itf_create_req_list, _get, _put, _delete, _rename.
AppList == AppCreate("list")
AppGet == AppCreate("get")
AppPut == AppCreate("put")
AppDelete == AppCreate("delete")
AppRename == AppCreate("rename")

\* Their cancel, which needs the request of the client.
AppCancel(op) ==
    /\ up /\ walk = "no"
    /\ AppSub(op) \in Started("app")
    /\ app' = [app EXCEPT ![op] = "CANCELED"]
    /\ sub' = After({AppSub(op)}, {})
    /\ UNCHANGED <<up, walk>>

\* req_complete_cb.
AppEnd(op, st) ==
    /\ SubOver(AppSub(op), st)
    /\ app' = [app EXCEPT ![op] = st]
    /\ sub' = After({AppSub(op)}, {})
    /\ UNCHANGED <<up, walk>>

-----------------------------------------------------------------------------
UploadVars == <<req, remote, rounds>>

FtpAdvances == \/ \E s \in DOMAIN sub : SubStart(s) \/ SizeComplete(s)
               \/ CancelAllEnd
FtpNext == /\ FtpAdvances \/ CancelAll \/ Stop
           /\ UNCHANGED <<media, dl, dlist, UploadVars, muxVars, app>>

MediaEnds(st) == ListEnd(st) \/ DownloadEnd(st) \/ DeleteEnd(st)
MediaNext == /\ \/ "medialist" \in used /\ ListCreate
                \/ "mediaget" \in used /\ DownloadCreate
                \/ "mediadelete" \in used /\ DeleteCreate
                \/ ListCancel \/ DownloadCancel \/ DeleteCancel
                \/ \E st \in FtpStatus : MediaEnds(st)
             /\ UNCHANGED <<dl, dlist, UploadVars, muxVars, app>>

DlSubEnds(st) ==
    \/ CrashmlEnds(st)
    \/ FlightLogListEnd(st) \/ FlightLogGetEnd(st) \/ FlightLogDelEnd(st)
    \/ PudListEnd(st) \/ PudGetEnd(st) \/ PudDelEnd(st)
DlNext == /\ \/ "crashml" \in used /\ CrashmlCreate
             \/ "flight_log" \in used /\ FlightLogCreate
             \/ "pud" \in used /\ PudCreate
             \/ CrashmlCancel \/ FlightLogCancel \/ PudCancel
             \/ \E st \in FtpStatus : DlSubEnds(st)
          /\ UNCHANGED <<media, UploadVars, muxVars, app>>

UploadSubEnds(st) ==
    \/ Md5GetEnd(st) \/ RenameEnd(st)
    \/ \E s \in Puts("ephemeris") : EphemerisPutEnd(s, st)
    \/ \E s \in Puts("updater") : UpdaterPutEnd(s, st)
UploadNext == /\ \/ "ephemeris" \in used /\ EphemerisCreate
                 \/ "updater" \in used /\ UpdaterCreate
                 \/ EphemerisCancel \/ UpdaterCancel
                 \/ \E st \in FtpStatus : UploadSubEnds(st)
              /\ UNCHANGED <<media, dl, dlist, muxVars, app>>

MuxNext == /\ "mux" \in used /\ up
           /\ \/ MuxCreate \/ MuxReceive \/ MuxReset \/ MuxCancel("CANCELED")
              \/ \E status \in {0, 1} : DeviceAnswers(status)
              \/ \E l \in Listeners : BoxListen(l) \/ BoxUnregister(l)
           /\ UNCHANGED <<ftpVars, media, dl, dlist, UploadVars, app>>

AppNext == /\ \/ AppList \/ AppGet \/ AppPut \/ AppDelete \/ AppRename
              \/ \E op \in AppOps : AppCancel(op)
              \/ \E op \in AppOps, st \in FtpStatus : AppEnd(op, st)
           /\ UNCHANGED <<media, dl, dlist, UploadVars, muxVars>>

\* The rest of stop_interfaces, and cleanup_connection.
InterfacesStop ==
    /\ StopEnd
    /\ walk' = "no"
    /\ media' = MediaStopped
    /\ dl' = DlStopped
    /\ req' = UploadStopped
    /\ MuxStopped
    /\ sub' = After(UNION {Pending(o) : o \in Dls \cup {"ephemeris"}}, {})
    /\ UNCHANGED <<up, dlist, remote, rounds, app>>

Next == /\ \/ FtpNext \/ MediaNext \/ DlNext \/ UploadNext \/ MuxNext \/ AppNext
           \/ InterfacesStop
        /\ UNCHANGED used

\* The loop runs its idle callbacks, the proxies open, the client ends its
\* requests (module Ftp), and what is synchronous goes on to its end.
Progress ==
    \/ FtpAdvances /\ UNCHANGED <<media, dl, dlist, UploadVars, muxVars, app>>
    \/ /\ \E st \in FtpStatus : MediaEnds(st)
       /\ UNCHANGED <<dl, dlist, UploadVars, muxVars, app>>
    \/ /\ \E st \in FtpStatus : DlSubEnds(st)
       /\ UNCHANGED <<media, UploadVars, muxVars, app>>
    \/ /\ \E st \in FtpStatus : UploadSubEnds(st)
       /\ UNCHANGED <<media, dl, dlist, muxVars, app>>
    \/ /\ \E op \in AppOps, st \in FtpStatus : AppEnd(op, st)
       /\ UNCHANGED <<media, dl, dlist, UploadVars, muxVars>>
    \/ InterfacesStop

Spec == Init /\ [][Next]_svcVars /\ WF_svcVars(Progress /\ UNCHANGED used)
=============================================================================
