------------------------------- MODULE Media -------------------------------
(***************************************************************************)
(* The media interface (libarsdkctrl/src/arsdk_media_itf.c): requests that *)
(* list the medias of a device, download one file of a media, or delete a  *)
(* media, which is one FTP request per file.                               *)
(***************************************************************************)
EXTENDS FtpItf

MediaReqs == {"medialist", "mediaget", "mediadelete"}

VARIABLES media    \* the requests

\* told is the status given to the application; ended collects the
\* statuses of the request's files.
MediaReq == [st : {"none", "running", "done"}, aborted : BOOLEAN,
             status : FtpStatus, files : 0..MaxFiles,
             ended : SUBSET ((1..MaxFiles) \X FtpStatus), told : FtpStatus \cup {"none"}]

NoMedia == [st |-> "none", aborted |-> FALSE, status |-> "OK", files |-> 0,
            ended |-> {}, told |-> "none"]

MediaInit == media = [r \in MediaReqs |-> NoMedia]

MediaOp(r) == CASE r = "medialist" -> "list"
                [] r = "mediaget" -> "get"
                [] r = "mediadelete" -> "delete"

\* Mutant: one file too many.
MediaSubsOver(r, n) == {<<r, MediaOp(r), k>> : k \in 1..(n + 1)}

MediaSubs(r, n) == {<<r, MediaOp(r), k>> : k \in 1..n}

\* A media has its thumbnail and at least one resource.
MediaFiles(r) == IF r = "mediadelete" THEN 2..MaxFiles ELSE {1}

\* Mutant: the last file's status is the request's.
MediaStatusLast(r, m, st) == IF m.aborted THEN "ABORTED" ELSE st

\* The status of request r, m its state, after one of its files ended with
\* st: a file that could not be deleted does not count.
MediaStatus(r, m, st) ==
    IF m.aborted THEN "ABORTED"
    ELSE IF r # "mediadelete" THEN st
    ELSE IF m.status # "OK" THEN m.status
    ELSE IF st \in {"CANCELED", "ABORTED"} THEN st ELSE "OK"

\* Mutant: the last file is sought before it is over.
MediaAfterBefore(r, Over, st) ==
    LET status == MediaStatus(r, media[r], st)
    IN  [media[r] EXCEPT !.status = status,
                         !.ended = @ \cup {<<s[3], st>> : s \in Over},
                         !.st = IF Pending(r) = {} THEN "done" ELSE @,
                         !.told = IF Pending(r) = {} THEN status ELSE @]

\* Request r after files Over ended with st: the application is told when
\* the last one is over.
MediaAfter(r, Over, st) ==
    LET m == media[r]
        status == MediaStatus(r, m, st)
        all == Pending(r) \subseteq Over
    IN  [m EXCEPT !.status = status,
                  !.ended = @ \cup {<<s[3], st>> : s \in Over},
                  !.st = IF all THEN "done" ELSE @,
                  !.told = IF all THEN status ELSE @]

-----------------------------------------------------------------------------
\* req_new, and the FTP requests.
MediaCreate(r) ==
    /\ walk = "no" /\ up
    /\ media[r].st = "none"
    /\ \E n \in MediaFiles(r) :
         /\ sub' = After({}, MediaSubs(r, n))
         /\ media' = [media EXCEPT ![r] =
                        [NoMedia EXCEPT !.st = "running", !.files = n]]
    /\ UNCHANGED <<up, walk>>

\* arsdk_media_itf_create_req_list, _download, _delete.
ListCreate == MediaCreate("medialist")
DownloadCreate == MediaCreate("mediaget")
DeleteCreate == MediaCreate("mediadelete")

\* The complete callback of FTP request s.
MediaEnd(s, st) ==
    /\ SubOver(s, st)
    /\ media' = [media EXCEPT ![s[1]] = MediaAfter(s[1], {s}, st)]
    /\ sub' = After({s}, {})
    /\ UNCHANGED <<up, walk>>

\* pfld_list_complete_cb, ftpget_complete_cb, ftpdel_complete_cb.
ListEnd(st) == MediaEnd(<<"medialist", "list", 1>>, st)
DownloadEnd(st) == MediaEnd(<<"mediaget", "get", 1>>, st)
DeleteEnd(st) == \E s \in Pending("mediadelete") : MediaEnd(s, st)

\* Cancelling reaches the files that the client has, one after the other.
MediaCancel(r) ==
    /\ walk = "no" /\ up
    /\ media[r].st = "running"
    /\ Started(r) # {}
    /\ media' = [media EXCEPT ![r] = MediaAfter(r, Started(r), "CANCELED")]
    /\ sub' = After(Started(r), {})
    /\ UNCHANGED <<up, walk>>

\* arsdk_media_itf_stop, after the FTP interface's: what has not started
\* cannot be cancelled.
MediaStopped == [r \in MediaReqs |->
                  IF media[r].st = "running"
                  THEN [media[r] EXCEPT !.aborted = TRUE] ELSE media[r]]

\* The cancel of each, and of all.
ListCancel == MediaCancel("medialist")
DownloadCancel == MediaCancel("mediaget")
DeleteCancel == MediaCancel("mediadelete")
=============================================================================
