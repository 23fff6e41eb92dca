------------------------------ MODULE Download ------------------------------
(***************************************************************************)
(* The interfaces that fetch what a device has recorded: crash reports,    *)
(* flight logs and piloting data (arsdk_crashml_itf.c,                     *)
(* arsdk_flight_log_itf.c and arsdk_pud_itf.c of libarsdkctrl/src).  The   *)
(* three run the same requests: list the remote directory, then for each   *)
(* item get it under a temporary name, rename it, delete it on the device  *)
(* and go on with the next.  Only a crash report may be a directory.       *)
(*                                                                         *)
(* The application's callbacks do not call the interface back.  What the   *)
(* program does when an FTP request that had not started outlives the      *)
(* request that created it is undefined: such a request is lost here.  So  *)
(* is what becomes of a get whose local file cannot be opened, when the    *)
(* loop still holds the callback that starts it: here nothing is started.  *)
(***************************************************************************)
EXTENDS FtpItf, Sequences, SequencesExt

CONSTANT Listings    \* what a remote directory may hold: sequences of Kinds

Dls == {"crashml", "flight_log", "pud"}
Kinds == {"dir", "file"}

\* An archive is deleted once as a file and, as the same callback serves
\* for the files of a directory, once more as a directory.
ASSUME ListingsAssumption == Listings \subseteq Seq(Kinds)

VARIABLES dl,      \* the request of each interface
          dlist    \* what the application was told of the items

\* The current item: got are the files received whole, tmp says that the
\* local temporary name exists, saved that it has its final name.
NoItem == [kind |-> "none", status |-> "OK", files |-> 0, got |-> {},
           tmp |-> FALSE, saved |-> FALSE]
Item(kind) == [NoItem EXCEPT !.kind = kind,
                             !.files = IF kind = "file" THEN 1 ELSE 0,
                             !.tmp = kind = "file"]

NoDl == [st |-> "none", items |-> << >>, total |-> 0, count |-> 0,
         cur |-> NoItem, told |-> << >>, listed |-> FALSE]

\* What is told of an item: its status, and whether it is here by then.
Told(status, c) == [kind |-> c.kind, status |-> status, saved |-> c.saved]

DlInit == /\ dl = [d \in Dls |-> NoDl]
          /\ dlist = [d \in Dls |-> {}]

DlTypeOK ==
    /\ \A d \in Dls :
         /\ dl[d].st \in {"none", "running", "done", "lost"}
         /\ dl[d].total \in Nat /\ dl[d].count \in Nat
         /\ dl[d].cur.kind \in Kinds \cup {"none"}
         /\ dl[d].cur.status \in FtpStatus
         /\ dl[d].cur.got \subseteq 1..MaxFiles
         /\ Len(dl[d].told) <= 1 /\ ToSet(dl[d].told) \subseteq {"OK", "ABORTED"}
    /\ \A d \in Dls : \A t \in dlist[d] : t.status \in FtpStatus

-----------------------------------------------------------------------------
\* req_done: an interface that still runs says that all went well.
ReqDone(r) == [r EXCEPT !.st = "done", !.told = Append(@, "OK")]

\* Mutant: the end of the list counts for an item.
StartNextCounts(r, n) ==
    IF r.cur # NoItem \/ n = Len(r.items)
    THEN ReqDone([r EXCEPT !.count = @ + n + 1, !.items = << >>])
    ELSE [r EXCEPT !.count = @ + n + 1, !.items = SubSeq(@, n + 2, Len(@)),
                   !.cur = Item(r.items[n + 1])]

\* How many of the next items may be passed over: a file that cannot be opened
\* here (fopen), or any item once nothing can be created any more.
Passed(r) == IF up THEN {n \in 0..Len(r.items) : \A i \in 1..n : r.items[i] = "file"}
             ELSE {Len(r.items)}

\* req_start_next, if the last item is no longer there: n items are passed
\* over, which counts them and tells nothing, and the next one starts.
StartNext(r, n) ==
    IF r.cur # NoItem THEN ReqDone(r)
    ELSE IF n = Len(r.items)
    THEN ReqDone([r EXCEPT !.count = @ + n, !.items = << >>])
    ELSE [r EXCEPT !.count = @ + n + 1, !.items = SubSeq(@, n + 2, Len(@)),
                   !.cur = Item(r.items[n + 1])]

\* Mutant: directories are forgotten.
FirstSubsFiles(d, r) ==
    IF r.st # "done" /\ r.cur.kind = "file" THEN {<<d, "get", 1>>} ELSE {}

\* simple_req_new: the first FTP request of the item that StartNext chose.
FirstSubs(d, r) == IF r.st = "done" THEN {}
                   ELSE IF r.cur.kind = "dir" THEN {<<d, "dir", 1>>}
                   ELSE {<<d, "get", 1>>}

\* curr_req_done: the item is over with status st; one that was cancelled or
\* aborted is kept, and ends the request.
CurrDone(r, c, n) ==
    StartNext([r EXCEPT !.cur = IF c.status \in {"CANCELED", "ABORTED"} THEN c ELSE NoItem], n)

\* clean_local_dir, when the next item is sought: all the temporary names of
\* the device go, those of the other interfaces too.
Cleaned(d, r, moved) ==
    [e \in Dls |-> IF e = d THEN r
                   ELSE IF moved THEN [dl[e] EXCEPT !.cur.tmp = FALSE] ELSE dl[e]]

\* Item c of d is over: the application is told st, then comes the next one.
ItemOver(d, s, c, st) ==
    /\ dlist' = [dlist EXCEPT ![d] = @ \cup {Told(st, c)}]
    /\ \E n \in Passed(dl[d]) :
         LET r == CurrDone(dl[d], c, n)
         IN  /\ dl' = Cleaned(d, r, c.status \notin {"CANCELED", "ABORTED"})
             /\ sub' = After({s}, FirstSubs(d, r))

\* The item goes on with c and the FTP requests of New.
ItemGoesOn(d, s, c, New) ==
    /\ dl' = [dl EXCEPT ![d].cur = c]
    /\ sub' = After({s}, New)
    /\ UNCHANGED dlist

-----------------------------------------------------------------------------
\* One request at a time.
DlCreate(d) ==
    /\ walk = "no" /\ up
    /\ dl[d].st = "none"
    /\ dl' = [dl EXCEPT ![d] = [NoDl EXCEPT !.st = "running"]]
    /\ sub' = After({}, {<<d, "list", 1>>})
    /\ UNCHANGED <<dlist, up, walk>>

\* arsdk_crashml_itf_create_req, arsdk_flight_log_itf_create_req,
\* arsdk_pud_itf_create_req.
CrashmlCreate == DlCreate("crashml")
FlightLogCreate == DlCreate("flight_log")
PudCreate == DlCreate("pud")

\* main_dir_list_complete_cb: whatever the list ended with, without one there
\* is nothing to do.
MainListEnd(d, st) ==
    LET s == <<d, "list", 1>>
    IN  /\ d \in Dls /\ SubOver(s, st)
        /\ \/ /\ st # "OK"
              /\ dl' = [dl EXCEPT ![d] = ReqDone(@)]
              /\ sub' = After({s}, {})
           \/ /\ st = "OK"
              /\ \E l \in Listings :
                   LET x == [dl[d] EXCEPT !.items = l, !.total = Len(l), !.listed = TRUE]
                   IN  /\ d = "crashml" \/ "dir" \notin ToSet(l)
                       /\ \E n \in Passed(x) :
                            LET r == StartNext(x, n)
                            IN  /\ dl' = Cleaned(d, r, TRUE)
                                /\ sub' = After({s}, FirstSubs(d, r))
        /\ UNCHANGED <<dlist, up, walk>>

\* Mutants: the last status is the item's; a file that fails does not count.
WorstLast(c, st) == [c EXCEPT !.status = st]
WorstCanceled(c, st) == [c EXCEPT !.status = IF @ = "OK" /\ st # "FAILED" THEN st ELSE @]

\* The first status that is not a success is the item's.
Worst(c, st) == [c EXCEPT !.status = IF @ = "OK" THEN st ELSE @]

\* ftp_single_list_complete_cb: the files of a directory, each got at once.
\* When the temporary name is there although it was to be cleaned, the item is
\* told a success, of which nothing is here.
DirEnd(d, st) ==
    LET s == <<d, "dir", 1>>
        c == Worst(dl[d].cur, st)
        fails == [c EXCEPT !.status = "FAILED"]
    IN  /\ d \in Dls /\ SubOver(s, st)
        /\ \/ st # "OK" /\ ItemOver(d, s, c, c.status)
           \/ /\ st = "OK"
              /\ \/ ItemOver(d, s, fails, "FAILED")   \* empty, mkdir or fopen failed
                 \/ ItemOver(d, s, c, "OK")           \* EEXIST
                 \/ \E n \in 1..MaxFiles :
                      ItemGoesOn(d, s, [c EXCEPT !.files = n, !.tmp = TRUE],
                                 {<<d, "get", k>> : k \in 1..n})
        /\ UNCHANGED <<up, walk>>

\* ftp_get_complete_cb: once all the files are over, and received, the item
\* takes its final name and is deleted on the device.
GetEnd(d, k, st) ==
    LET s == <<d, "get", k>>
        w == Worst(dl[d].cur, st)
        c == [w EXCEPT !.got = IF st = "OK" THEN @ \cup {k} ELSE @]
        last == Pending(d) = {s}
        named == [c EXCEPT !.saved = TRUE, !.tmp = FALSE]
    IN  /\ d \in Dls /\ SubOver(s, st)
        /\ \/ ~last /\ ItemGoesOn(d, s, c, {})
           \/ last /\ c.status # "OK" /\ ItemOver(d, s, c, c.status)
           \/ /\ last /\ c.status = "OK"
              /\ \/ ItemOver(d, s, c, "FAILED")   \* rename failed
                 \/ /\ c.tmp
                    /\ ItemGoesOn(d, s, named, {<<d, "delete", j>> : j \in 1..c.files})
        /\ UNCHANGED <<up, walk>>

\* ftp_del_file_complete: the directory goes after its files, and so does
\* the archive, which serves the same callback.
Archive(d) == d = "crashml"
DelEnd(d, k, st) ==
    LET s == <<d, "delete", k>>
        c == Worst(dl[d].cur, st)
        last == Pending(d) = {s}
    IN  /\ d \in Dls /\ SubOver(s, st)
        /\ \/ ~last /\ ItemGoesOn(d, s, c, {})
           \/ last /\ c.status # "OK" /\ ItemOver(d, s, c, c.status)
           \/ last /\ c.status = "OK" /\ ~Archive(d) /\ ItemOver(d, s, c, "OK")
           \/ last /\ c.status = "OK" /\ Archive(d)
                   /\ ItemGoesOn(d, s, c, {<<d, "deldir", 1>>})
        /\ UNCHANGED <<up, walk>>

\* ftp_del_dir_complete.  The archive is no longer there: the device refuses.
DelDirEnd(d, st) ==
    LET s == <<d, "deldir", 1>>
        gone == dl[d].cur.kind = "file" /\ walk = "no" /\ up
        c == IF gone THEN [dl[d].cur EXCEPT !.status = st] ELSE Worst(dl[d].cur, st)
    IN  /\ d \in Dls /\ SubOver(s, st)
        /\ gone => st \in {"FAILED", "ABORTED"}
        /\ ItemOver(d, s, c, c.status)
        /\ UNCHANGED <<up, walk>>

\* The same callbacks of the two other interfaces.
FlightLogListEnd(st) == MainListEnd("flight_log", st)
FlightLogGetEnd(st) == GetEnd("flight_log", 1, st)
FlightLogDelEnd(st) == DelEnd("flight_log", 1, st)
PudListEnd(st) == MainListEnd("pud", st)
PudGetEnd(st) == GetEnd("pud", 1, st)
PudDelEnd(st) == DelEnd("pud", 1, st)

CrashmlEnds(st) ==
    \/ MainListEnd("crashml", st) \/ DirEnd("crashml", st) \/ DelDirEnd("crashml", st)
    \/ \E k \in 1..MaxFiles : GetEnd("crashml", k, st) \/ DelEnd("crashml", k, st)

-----------------------------------------------------------------------------
\* Request r of d after the cancel of what the client has: the last FTP
\* request that ends tells the application; what had not started stays
\* behind, and the application is not told.
CancelStatus(aborted) == IF aborted THEN "ABORTED" ELSE "CANCELED"
Canceled(d) ==
    LET whole == Started(d) # {} /\ Pending(d) = Started(d)
    IN  [dl[d] EXCEPT !.st = IF whole THEN "done" ELSE "lost",
                      !.told = IF whole THEN Append(@, "ABORTED") ELSE @,
                      !.cur = NoItem]

\* Cancelling the request.
DlCancel(d) ==
    /\ walk = "no" /\ up
    /\ dl[d].st = "running"
    /\ dl' = [dl EXCEPT ![d] = Canceled(d)]
    /\ dlist' = IF dl[d].cur # NoItem /\ Pending(d) = Started(d)
                THEN [dlist EXCEPT ![d] = @ \cup {Told(CancelStatus(FALSE), dl[d].cur)}]
                ELSE dlist
    /\ sub' = After(Pending(d), {})
    /\ UNCHANGED <<up, walk>>

\* arsdk_crashml_req_cancel, arsdk_flight_log_req_cancel, arsdk_pud_req_cancel.
CrashmlCancel == DlCancel("crashml")
FlightLogCancel == DlCancel("flight_log")
PudCancel == DlCancel("pud")

\* The interfaces' stop aborts what is left, of which nothing has started.
DlStopped == [d \in Dls |-> IF dl[d].st = "running" THEN Canceled(d) ELSE dl[d]]
=============================================================================
