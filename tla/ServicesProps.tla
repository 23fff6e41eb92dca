---------------------------- MODULE ServicesProps ----------------------------
(***************************************************************************)
(* What the interfaces of a device promise to the application.             *)
(***************************************************************************)
EXTENDS Services, MediaList

CONSTANT Directories   \* what a server may list

\* What is read of a line, if it is one of a file; the files of a directory have
\* different names.
ASSUME DirectoriesAssumption ==
    \A lines \in Directories :
      /\ lines \in Seq([read : BOOLEAN, ext : STRING, stem : [date : STRING, run : STRING]])
      /\ \A i, j \in DOMAIN lines : lines[i] = lines[j] /\ lines[i].read => i = j

\* A media request is told its end when the last of its files is over, and a
\* media is told deleted only when each of its files was deleted or refused
\* by the device: no file of it was still to be deleted, or cancelled.
MediaToldLast ==
    \A r \in MediaReqs :
      media[r].told # "none" =>
        /\ Pending(r) = {}
        /\ {e[1] : e \in media[r].ended} = 1..media[r].files
        /\ media[r].told = "OK" => \A e \in media[r].ended : e[2] \in {"OK", "FAILED"}

\* Nothing that a device recorded is lost: an item is deleted on the device
\* only once all its files were received and it has its final local name.
DeletedOnlyIfSaved ==
    \A d \in Dls :
      (\E s \in Pending(d) : s[2] \in {"delete", "deldir"}) =>
        /\ dl[d].cur.saved
        /\ dl[d].cur.got = 1..dl[d].cur.files

\* arsdk_crashml_itf.h of the end of an item: "request succeeded", with its
\* "crashml local path".  An item told a success is here.  It is not so of a
\* crash report that is a directory (ftp_single_list_complete_cb).
ItemOkMeansHere ==
    \A d \in Dls : \A t \in dlist[d] : t.status = "OK" => t.saved

\* An item that is a file is told a success only if it is here: its get, its
\* renaming and its deletion on the device all succeeded.
FileOkMeansHere ==
    \A d \in Dls : \A t \in dlist[d] :
      t.status = "OK" /\ t.kind = "file" => t.saved

\* The items told never outnumber those announced, and a request that ends by
\* itself after a list was received has passed all of them, unless one of them
\* was cancelled or aborted, as by the loss of the control connection.
CountedToTotal ==
    \A d \in Dls :
      /\ dl[d].count <= dl[d].total
      /\ dl[d].told = <<"OK">> /\ dl[d].listed /\ dl[d].cur = NoItem
            => dl[d].count = dl[d].total

\* A firmware is told installed only if the device holds all of it, with its
\* MD5, under its final name; an ephemeris that had to be sent is told sent
\* only if the device holds both its files.
UploadWhole ==
    \A o \in Uploaders :
      req[o].told = <<"OK">> /\ ~req[o].same =>
        /\ remote[o].file = "same"
        /\ remote[o].md5 = "same"
        /\ remote[o].final <=> o = "updater"
        /\ req[o].sent = Puts(o)

\* A firmware sent on the multiplexer is told installed only if the device
\* got each chunk once and in order.
FirmwareInOrder ==
    mup.told = <<"OK">> => dev.got = [i \in 1..Chunks |-> i - 1]

\* After the disconnection a request is left untold only if one of its FTP
\* requests had not reached the client, or a cancel had left one behind.
ToldAtStop ==
    (~up /\ walk = "no") =>
        /\ \A r \in MediaReqs : media[r].st = "running" => Pending(r) # {}
        /\ \A d \in Dls : dl[d].st = "lost" \/ dl[d].st # "running"
        /\ req["updater"].st = "running" => Pending("updater") # {}
        /\ \A op \in AppOps : app[op] = "running" => AppSub(op) \in DOMAIN sub
        /\ mup.st # "open"
        /\ box.in = {}

\* Types hold, and: the application is told each end when it
\* comes, in the middle of a disconnection too (stop_interfaces).
EndsTold == TypeOK /\ MediaToldLast /\ CountedToTotal /\ ToldAtStop

\* The medias listed hold each file of a type asked for and of a name that can
\* be read, once, and no file of another media: deleting a media, which
\* deletes its resources, leaves the others whole.
MediasWhole ==
    \A lines \in Directories, asked \in SUBSET {"PHOTO", "VIDEO"} :
      LET medias == MediasOf(lines, asked)
          listed == {l \in ToSet(lines) : l.read /\ Types(l.ext) \cap asked # {}}
      IN  /\ \A f \in listed : Parsed(f.stem) =>
               \E i \in DOMAIN medias :
                 /\ Resource(f) \in ToSet(medias[i].res)
                 /\ \A j \in DOMAIN medias : medias[j].name = f.stem => j = i
          /\ \A i \in DOMAIN medias : \A k \in DOMAIN medias[i].res :
               LET r == medias[i].res[k]
               IN  /\ r.stem = medias[i].name
                   /\ r.thumb <=> k = Len(medias[i].res)
                   /\ r.thumb \/ r \in {Resource(f) : f \in listed}
                   /\ \A m \in 1..(k - 1) : medias[i].res[m] # r

\* What is deleted on the device is here, and so is a file told a success
\* (ftp_get_complete_cb, ftp_del_file_complete); what the device has is listed
\* (pfld_list_complete_cb).
NothingLost == DeletedOnlyIfSaved /\ FileOkMeansHere /\ MediasWhole

\* What is told sent is on the device, over FTP and over the multiplexer
\* (update_put_complete_cb, put_complete, updater_mux_channel_recv).
UploadsWhole == UploadWhole /\ FirmwareInOrder

\* A request that runs is over one day: told, or lost with the FTP request
\* that it left behind, or the device is gone.
RequestsEnd ==
    /\ \A r \in MediaReqs : media[r].st = "running" ~> (media[r].st = "done" \/ ~up)
    /\ \A d \in Dls : dl[d].st = "running" ~> dl[d].st \in {"done", "lost"}
    /\ \A o \in Uploaders : req[o].st = "running" ~> (req[o].st \in {"done", "lost"} \/ ~up)
=============================================================================
