-------------------------- MODULE Services_proofs --------------------------
(***************************************************************************)
(* Proofs about the interfaces of a device, for any interfaces that run    *)
(* together, any answers, sizes of medias and of firmwares, rounds and     *)
(* directories.                                                            *)
(*                                                                         *)
(* Each part of the invariant speaks of one interface's state and of its   *)
(* own pending FTP requests only, so that a step of another one keeps it.  *)
(***************************************************************************)
EXTENDS ServicesProps, TLAPS, SequenceTheorems, WellFoundedInduction

(* Which FTP requests a media request may have.                            *)
MediaOk(r, m, P) ==
    /\ P \subseteq MediaSubs(r, m.files)
    /\ m.st # "running" => P = {}
    /\ m.st # "done" => m.told = "none"
    /\ \A e \in m.ended : e[1] \in 1..m.files
    /\ \A k \in 1..m.files :
          <<r, MediaOp(r), k>> \in P \/ \E e \in m.ended : e[1] = k
    /\ m.st = "running" =>
         /\ P # {}
         /\ r # "mediadelete" => m.files = 1 /\ m.ended = {}
         /\ m.status = "OK" => \A e \in m.ended : e[2] \in {"OK", "FAILED"}
    /\ m.told = "OK" => \A e \in m.ended : e[2] \in {"OK", "FAILED"}

MediaPart ==
    /\ media \in [MediaReqs -> MediaReq]
    /\ \A r \in MediaReqs : MediaOk(r, media[r], Pending(r))

ItemRec == [kind : Kinds \cup {"none"}, status : FtpStatus, files : 0..MaxFiles,
            got : SUBSET (1..MaxFiles), tmp : BOOLEAN, saved : BOOLEAN]
DlRec == [st : {"none", "running", "done", "lost"}, items : Seq(Kinds), total : Nat,
          count : Nat, cur : ItemRec, told : {<< >>, <<"OK">>, <<"ABORTED">>},
          listed : BOOLEAN]
Tells == [kind : Kinds \cup {"none"}, status : FtpStatus, saved : BOOLEAN]

Whole(c) == c.got = 1..c.files
Stages(d, c, P) ==
    \/ P = {<<d, "dir", 1>>} /\ c.got = {} /\ c.kind = "dir"
    \/ /\ P \subseteq {<<d, "get", k>> : k \in 1..c.files}
       /\ c.got \subseteq 1..c.files
       /\ c.status = "OK" => \A k \in 1..c.files : <<d, "get", k>> \in P \/ k \in c.got
    \/ P \subseteq {<<d, "delete", k>> : k \in 1..c.files} /\ c.saved /\ Whole(c)
    \/ P = {<<d, "deldir", 1>>} /\ c.saved /\ Whole(c)
Stage(d, x, P) ==
    \/ P = {<<d, "list", 1>>} /\ x.cur = NoItem /\ x.items = << >> /\ x.count = 0
    \/ x.cur.kind \in Kinds /\ Stages(d, x.cur, P)

DlOk(d, x, P) ==
    /\ x.count + Len(x.items) = x.total
    /\ x.cur.kind = "none" => x.cur = NoItem
    /\ x.st # "running" => P = {}
    /\ x.st = "running" => x.told = << >> /\ P # {} /\ Stage(d, x, P)
    /\ x.told = <<"OK">> /\ x.listed /\ x.cur = NoItem => x.items = << >>

Off == ~up /\ walk = "no"

DlPart ==
    /\ dl \in [Dls -> DlRec]
    /\ dlist \in [Dls -> SUBSET Tells]
    /\ \A d \in Dls : DlOk(d, dl[d], Pending(d))
    /\ \A d \in Dls : \A t \in dlist[d] : t.status = "OK" /\ t.kind = "file" => t.saved
    /\ Off => \A d \in Dls : dl[d].st # "running"

ReqRec == [st : {"none", "running", "done", "lost"}, running : BOOLEAN,
           aborted : BOOLEAN, status : FtpStatus, sent : SUBSET Subs,
           same : BOOLEAN, told : {<< >>} \cup {<<s>> : s \in FtpStatus}]
HeldRec == [md5 : Held, file : Held, final : BOOLEAN]
Copy(o, h, p) == IF p = Md5Put(o) THEN h.md5 ELSE h.file
Sending(o, x, h, P) ==
    /\ P \subseteq Puts(o)
    /\ x.status = "OK" =>
         \A p \in Puts(o) : p \in P \/ (p \in x.sent /\ Copy(o, h, p) = "same")
Sent(o, x, h) == x.sent = Puts(o) /\ h.md5 = "same" /\ h.file = "same"
UploadOk(o, x, h, P) ==
    /\ x.sent \subseteq Puts(o)
    /\ o = "ephemeris" => ~h.final
    /\ x.st # "running" => P = {}
    /\ x.st = "running" =>
         /\ x.told = << >> /\ P # {}
         /\ \/ Sending(o, x, h, P)
            \/ o = "ephemeris" /\ P = {Md5Get}
            \/ o = "updater" /\ P = {Rename} /\ Sent(o, x, h)
    /\ x.told = <<"OK">> /\ ~x.same => Sent(o, x, h) /\ (o = "updater" => h.final)

UploadPart ==
    /\ req \in [Uploaders -> ReqRec]
    /\ remote \in [Uploaders -> HeldRec]
    /\ rounds \in [Uploaders -> 0..Rounds]
    /\ \A o \in Uploaders : UploadOk(o, req[o], remote[o], Pending(o))

(* What travels on the update channel while it is open.                    *)
First(n) == [i \in 1..n |-> i - 1]
Asked == toDev = << <<"UPDATE_REQ", 0>> >> /\ toCtl = << >>
Answered == /\ toDev = << >> /\ dev.got = << >>
            /\ \E s \in {0, 1} : toCtl = << <<"UPDATE_RESP", s>> >>
ChunkSent == /\ toDev = << <<"CHUNK", mup.id>> >> /\ toCtl = << >>
             /\ mup.written = mup.id + 1 /\ dev.got = First(mup.id)
ChunkTaken == /\ toDev = << >> /\ mup.written = mup.id + 1 /\ mup.id + 1 < Chunks
              /\ dev.got = First(mup.id + 1)
              /\ \E s \in {0, 1} : toCtl = << <<"CHUNK_ACK", mup.id + s>> >>
LastTaken == /\ toDev = << >> /\ mup.written = Chunks /\ mup.id = Chunks - 1
             /\ dev.got = First(Chunks)
             /\ \E s \in {0, 1} : toCtl = << <<"CHUNK_ACK", mup.id>>, <<"STATUS", s>> >>
AllTaken == /\ toDev = << >> /\ dev.got = First(Chunks)
            /\ \E s \in {0, 1} : toCtl = << <<"STATUS", s>> >>
Channel == Asked \/ Answered \/ ChunkSent \/ ChunkTaken \/ LastTaken \/ AllTaken

MupRec == [st : {"none", "open", "done"}, written : 0..Chunks, id : 0..Chunks,
           percent : 0..Chunks, told : {<< >>} \cup {<<s>> : s \in FtpStatus}]
DevStates == {"idle", "receiving", "done"}
BoxRec == [open : BOOLEAN, in : SUBSET Listeners, out : SUBSET Listeners]
MuxPart ==
    /\ mup \in MupRec /\ dev.st \in DevStates /\ box \in BoxRec
    /\ mup.st = "none" => toDev = << >> /\ toCtl = << >>
    /\ mup.st # "done" => mup.told = << >>
    /\ mup.st = "open" => Channel
    /\ mup.told = <<"OK">> => toDev = << >> /\ dev.got = First(Chunks)
    /\ Off => mup.st # "open" /\ box.in = {}

AppPart ==
    /\ app \in [AppOps -> {"none", "running"} \cup FtpStatus]
    /\ \A op \in AppOps : app[op] = "running" => AppSub(op) \in Pending("app")

(* The requests that are not over; a cancel only walks the client while    *)
(* the transport is there.                                                 *)
SubOk == DOMAIN sub \subseteq Subs /\ sub \in [DOMAIN sub -> SubStates]
WalkOk == walk \in {"no", "cancel", "stop"} /\ up \in BOOLEAN /\ (walk = "cancel" => up)

IInv ==
    /\ SubOk /\ WalkOk /\ used \in Scenarios
    /\ MediaPart /\ DlPart /\ UploadPart /\ MuxPart /\ AppPart

-----------------------------------------------------------------------------
(* What a step of one owner does to the requests of the FTP interface.     *)
LEMMA AfterPending ==
  ASSUME NEW Over, NEW New, sub' = After(Over, New), NEW o
  PROVE  Pending(o)' = (Pending(o) \ Over) \cup
                         (IF up THEN {s \in New : s[1] = o} ELSE {})
<1>1. DOMAIN sub' = (DOMAIN sub \ Over) \cup (IF up THEN New ELSE {})
  BY DEF After
<1>. QED  BY <1>1 DEF Pending

LEMMA AfterType ==
  ASSUME SubOk, NEW Over, NEW New \in SUBSET Subs, sub' = After(Over, New)
  PROVE  SubOk'
<1>1. DOMAIN sub' = (DOMAIN sub \ Over) \cup (IF up THEN New ELSE {})
  BY DEF After
<1>2. sub' = [s \in DOMAIN sub' |-> IF s \in New THEN "waiting" ELSE sub[s]]
  BY <1>1 DEF After
<1>3. \A s \in DOMAIN sub' : (IF s \in New THEN "waiting" ELSE sub[s]) \in SubStates
  BY <1>1 DEF SubOk, SubStates
<1>. QED  BY <1>1, <1>2, <1>3 DEF SubOk

(* A step of owner r leaves the requests of the others alone.              *)
LEMMA AfterOwn ==
  ASSUME SubOk, NEW r, NEW Over \in SUBSET Pending(r), NEW New \in SUBSET Subs,
         \A s \in New : s[1] = r, sub' = After(Over, New)
  PROVE  /\ SubOk'
         /\ Pending(r)' = (Pending(r) \ Over) \cup (IF up THEN New ELSE {})
         /\ \A o : o # r => Pending(o)' = Pending(o)
<1>3. SubOk'
  BY AfterType
<1>4. \A s \in Over : s[1] = r
  BY DEF Pending
<1>5. Pending(r)' = (Pending(r) \ Over) \cup (IF up THEN New ELSE {})
  <2>1. {s \in New : s[1] = r} = New
    OBVIOUS
  <2>. QED  BY <2>1, AfterPending
<1>6. ASSUME NEW o, o # r
      PROVE  Pending(o)' = Pending(o)
  <2>1. {s \in New : s[1] = o} = {} /\ Pending(o) \ Over = Pending(o)
    BY <1>4, <1>6 DEF Pending
  <2>2. Pending(o)' = (Pending(o) \ Over) \cup (IF up THEN {s \in New : s[1] = o} ELSE {})
    BY AfterPending
  <2>. QED  BY <2>1, <2>2
<1>. QED  BY <1>3, <1>5, <1>6

LEMMA OwnersAre ==
  /\ MediaReqs \subseteq Owners /\ Dls \subseteq Owners
  /\ Uploaders \subseteq Owners /\ "app" \in Owners
  BY ScenariosAssumption

LEMMA MediaPartFrame ==
  ASSUME MediaPart, UNCHANGED media, \A r \in MediaReqs : Pending(r)' = Pending(r)
  PROVE  MediaPart'
  BY DEF MediaPart, MediaOk
LEMMA DlPartFrame ==
  ASSUME DlPart, UNCHANGED <<dl, dlist>>, \A d \in Dls : Pending(d)' = Pending(d),
         Off' => Off
  PROVE  DlPart'
<1>. USE DEF DlOk, Stage, Stages
<1>. QED  BY DEF DlPart
LEMMA UploadPartFrame ==
  ASSUME UploadPart, UNCHANGED <<req, remote, rounds>>,
         \A o \in Uploaders : Pending(o)' = Pending(o)
  PROVE  UploadPart'
  BY DEF UploadPart, UploadOk, Sending
LEMMA MuxPartFrame ==
  ASSUME MuxPart, UNCHANGED muxVars, Off' => Off
  PROVE  MuxPart'
  BY DEF MuxPart, Channel, muxVars, Asked, Answered, ChunkSent, ChunkTaken, LastTaken, AllTaken
LEMMA AppPartFrame ==
  ASSUME AppPart, UNCHANGED app, Pending("app")' = Pending("app")
  PROVE  AppPart'
  BY DEF AppPart, AppSub

-----------------------------------------------------------------------------
(* The media interface.                                                    *)
LEMMA MediaSubsType ==
  ASSUME NEW r \in MediaReqs, NEW n \in 0..MaxFiles
  PROVE  MediaSubs(r, n) \in SUBSET Subs /\ \A s \in MediaSubs(r, n) : s[1] = r
<1>1. MediaOp(r) \in Ops
  BY DEF MediaReqs, MediaOp, Ops
<1>2. \A k \in 1..n : k \in 1..MaxFiles
  BY MaxFilesAssumption
<1>3. r \in Owners
  BY OwnersAre
<1>. QED  BY <1>1, <1>2, <1>3 DEF MediaSubs, Subs

LEMMA MediaAfterOk ==
  ASSUME MediaPart, NEW r \in MediaReqs, NEW st \in FtpStatus,
         NEW Over \in SUBSET Pending(r), Over # {}
  PROVE  /\ MediaAfter(r, Over, st) \in MediaReq
         /\ MediaOk(r, MediaAfter(r, Over, st), Pending(r) \ Over)
<1>. DEFINE m == media[r]
            P == Pending(r)
            status == MediaStatus(r, m, st)
            new == {<<s[3], st>> : s \in Over}
            x == MediaAfter(r, Over, st)
<1>1. m \in MediaReq /\ MediaOk(r, m, P)
  BY DEF MediaPart
<1>2. m.st = "running" /\ m.told = "none" /\ P # {} /\ P \subseteq MediaSubs(r, m.files)
  BY <1>1 DEF MediaOk, MediaReq
<1>3. m.files \in 0..MaxFiles
  BY <1>1 DEF MediaReq
<1>4. \A s \in P : \E k \in 1..m.files : s = <<r, MediaOp(r), k>>
  BY <1>2 DEF MediaSubs
<1>5. \A s \in Over : s[3] \in 1..m.files /\ s = <<r, MediaOp(r), s[3]>>
  BY <1>4
<1>6. new \subseteq (1..MaxFiles) \X FtpStatus /\ \A e \in new : e[1] \in 1..m.files /\ e[2] = st
  <2>. SUFFICES ASSUME NEW e \in new
                PROVE  e \in (1..MaxFiles) \X FtpStatus /\ e[1] \in 1..m.files /\ e[2] = st
    OBVIOUS
  <2>1. PICK s \in Over : e = <<s[3], st>>
    OBVIOUS
  <2>2. s[3] \in 1..m.files
    BY <1>5
  <2>. HIDE DEF m
  <2>3. s[3] \in 1..MaxFiles
    BY <1>3, <2>2, MaxFilesAssumption
  <2>. QED  BY <2>1, <2>2, <2>3
<1>7. status \in FtpStatus
  BY <1>1 DEF MediaReq, MediaStatus, FtpStatus
<1>8. x = [m EXCEPT !.status = status, !.ended = @ \cup new,
                    !.st = IF P \subseteq Over THEN "done" ELSE @,
                    !.told = IF P \subseteq Over THEN status ELSE @]
  BY DEF MediaAfter
<1>9. /\ x.st = IF P \subseteq Over THEN "done" ELSE "running"
      /\ x.told = IF P \subseteq Over THEN status ELSE "none"
      /\ x.status = status /\ x.files = m.files /\ x.ended = m.ended \cup new
      /\ x \in MediaReq
  <2>. HIDE DEF m, P, status, new, x
  <2>. QED  BY <1>1, <1>2, <1>6, <1>7, <1>8 DEF MediaReq
<1>10. P \ Over \subseteq MediaSubs(r, x.files)
  BY <1>2, <1>9
<1>11. \A e \in x.ended : e[1] \in 1..x.files
  BY <1>1, <1>6, <1>9 DEF MediaOk
<1>12. ASSUME NEW k \in 1..x.files
       PROVE  <<r, MediaOp(r), k>> \in P \ Over \/ \E e \in x.ended : e[1] = k
  <2>. DEFINE s == <<r, MediaOp(r), k>>
  <2>1. CASE s \in Over
    <3>1. s[3] = k
      OBVIOUS
    <3>2. <<k, st>> \in new
      BY <2>1, <3>1
    <3>3. <<k, st>>[1] = k
      OBVIOUS
    <3>. QED  BY <1>9, <3>2, <3>3
  <2>2. CASE s \notin Over
    BY <1>1, <1>9, <2>2 DEF MediaOk
  <2>. QED  BY <2>1, <2>2
<1>13. ASSUME status = "OK"
       PROVE  \A e \in x.ended : e[2] \in {"OK", "FAILED"}
  <2>1. CASE r = "mediadelete"
    <3>1. m.status = "OK" /\ st \in {"OK", "FAILED"}
      BY <1>13, <2>1 DEF MediaStatus, FtpStatus
    <3>. QED  BY <1>1, <1>2, <1>6, <1>9, <3>1 DEF MediaOk
  <2>2. CASE r # "mediadelete"
    <3>1. st = "OK" /\ m.ended = {}
      BY <1>1, <1>2, <1>13, <2>2 DEF MediaStatus, MediaOk
    <3>. QED  BY <1>6, <1>9, <3>1
  <2>. QED  BY <2>1, <2>2
<1>14. ASSUME ~(P \subseteq Over), r # "mediadelete"
       PROVE  FALSE
  <2>1. m.files = 1
    BY <1>1, <1>2, <1>14 DEF MediaOk
  <2>2. \A s \in P : s = <<r, MediaOp(r), 1>>
    BY <1>4, <2>1
  <2>. QED  BY <1>14, <2>2
<1>. HIDE DEF m, P, status, new, x
<1>. QED  BY <1>9, <1>10, <1>11, <1>12, <1>13, <1>14, <1>7 DEF MediaOk, P, x, FtpStatus

LEMMA MediaStep ==
  ASSUME MediaPart, SubOk, NEW r \in MediaReqs, NEW m \in MediaReq,
         NEW Over \in SUBSET Pending(r), NEW New \in SUBSET MediaSubs(r, m.files),
         sub' = After(Over, New), media' = [media EXCEPT ![r] = m],
         MediaOk(r, m, (Pending(r) \ Over) \cup (IF up THEN New ELSE {}))
  PROVE  /\ SubOk' /\ MediaPart'
         /\ \A o : o # r => Pending(o)' = Pending(o)
<1>1. m.files \in 0..MaxFiles
  BY DEF MediaReq
<1>2. New \in SUBSET Subs /\ \A s \in New : s[1] = r
  BY <1>1, MediaSubsType
<1>3. SubOk' /\ Pending(r)' = (Pending(r) \ Over) \cup (IF up THEN New ELSE {})
  BY <1>2, AfterOwn
<1>6. \A o : o # r => Pending(o)' = Pending(o)
  BY <1>2, AfterOwn
<1>7. MediaPart'
  <2>1. media' \in [MediaReqs -> MediaReq]
    BY DEF MediaPart
  <2>2. MediaOk(r, media'[r], Pending(r)')
    BY <1>3 DEF MediaPart
  <2>3. ASSUME NEW q \in MediaReqs, q # r
        PROVE  MediaOk(q, media'[q], Pending(q)')
    BY <1>6, <2>3 DEF MediaPart
  <2>4. \A q \in MediaReqs : MediaOk(q, media'[q], Pending(q)')
    BY <2>2, <2>3
  <2>. QED  BY <2>1, <2>4 DEF MediaPart, MediaOk, MediaSubs
<1>. QED  BY <1>3, <1>6, <1>7

LEMMA MediaCreateStep ==
  ASSUME MediaPart, SubOk, NEW r \in MediaReqs, MediaCreate(r)
  PROVE  SubOk' /\ MediaPart' /\ \A o : o # r => Pending(o)' = Pending(o)
<1>1. PICK n \in MediaFiles(r) :
        /\ sub' = After({}, MediaSubs(r, n))
        /\ media' = [media EXCEPT ![r] = [NoMedia EXCEPT !.st = "running", !.files = n]]
  BY DEF MediaCreate
<1>. DEFINE m == [NoMedia EXCEPT !.st = "running", !.files = n]
<1>2. n \in 1..MaxFiles /\ n \in 0..MaxFiles /\ (r # "mediadelete" => n = 1)
  BY MaxFilesAssumption DEF MediaFiles
<1>3. /\ m \in MediaReq /\ m.files = n /\ m.st = "running" /\ m.ended = {}
      /\ m.told = "none" /\ m.status = "OK"
  BY <1>2 DEF NoMedia, MediaReq, FtpStatus
<1>4. media[r].st = "none" /\ up
  BY DEF MediaCreate
<1>5. Pending(r) = {}
  BY <1>4 DEF MediaPart, MediaOk
<1>6. <<r, MediaOp(r), 1>> \in MediaSubs(r, n)
  BY <1>2 DEF MediaSubs
<1>7. MediaOk(r, m, MediaSubs(r, n))
  <2>. HIDE DEF m
  <2>1. \A k \in 1..m.files : <<r, MediaOp(r), k>> \in MediaSubs(r, n)
    BY <1>3 DEF MediaSubs
  <2>. QED  BY <1>2, <1>3, <1>6, <2>1 DEF MediaOk
<1>8. MediaOk(r, m, (Pending(r) \ {}) \cup (IF up THEN MediaSubs(r, n) ELSE {}))
  <2>1. (Pending(r) \ {}) \cup (IF up THEN MediaSubs(r, n) ELSE {}) = MediaSubs(r, n)
    BY <1>4, <1>5
  <2>. QED  BY <1>7, <2>1
<1>. HIDE DEF m
<1>9. MediaSubs(r, n) \in SUBSET MediaSubs(r, m.files) /\ {} \in SUBSET Pending(r)
  BY <1>3
<1>. QED  BY <1>1, <1>3, <1>8, <1>9, MediaStep DEF m

LEMMA MediaOverStep ==
  ASSUME MediaPart, SubOk, NEW r \in MediaReqs, NEW st \in FtpStatus,
         NEW Over \in SUBSET Pending(r), Over # {},
         media' = [media EXCEPT ![r] = MediaAfter(r, Over, st)], sub' = After(Over, {})
  PROVE  SubOk' /\ MediaPart' /\ \A o : o # r => Pending(o)' = Pending(o)
<1>1. /\ MediaAfter(r, Over, st) \in MediaReq
      /\ MediaOk(r, MediaAfter(r, Over, st), Pending(r) \ Over)
  BY MediaAfterOk
<1>2. (Pending(r) \ Over) \cup (IF up THEN {} ELSE {}) = Pending(r) \ Over
  OBVIOUS
<1>3. {} \in SUBSET MediaSubs(r, MediaAfter(r, Over, st).files)
  OBVIOUS
<1>. QED  BY <1>1, <1>2, <1>3, MediaStep

LEMMA MediaEndStep ==
  ASSUME MediaPart, SubOk, NEW s, NEW st \in FtpStatus, s[1] \in MediaReqs, MediaEnd(s, st)
  PROVE  SubOk' /\ MediaPart' /\ \A o : o # s[1] => Pending(o)' = Pending(o)
<1>1. /\ media' = [media EXCEPT ![s[1]] = MediaAfter(s[1], {s}, st)]
      /\ sub' = After({s}, {})
  BY DEF MediaEnd
<1>2. {s} \in SUBSET Pending(s[1]) /\ {s} # {}
  BY DEF MediaEnd, SubOver, Pending
<1>. QED  BY <1>1, <1>2, MediaOverStep

LEMMA MediaCancelStep ==
  ASSUME MediaPart, SubOk, NEW r \in MediaReqs, MediaCancel(r)
  PROVE  SubOk' /\ MediaPart' /\ \A o : o # r => Pending(o)' = Pending(o)
<1>1. /\ Started(r) # {}
      /\ media' = [media EXCEPT ![r] = MediaAfter(r, Started(r), "CANCELED")]
      /\ sub' = After(Started(r), {})
  BY DEF MediaCancel
<1>2. Started(r) \in SUBSET Pending(r) /\ "CANCELED" \in FtpStatus
  BY DEF Started, FtpStatus
<1>. QED  BY <1>1, <1>2, MediaOverStep

LEMMA MediaNextStep ==
  ASSUME MediaPart, SubOk, MediaNext
  PROVE  /\ SubOk' /\ MediaPart' /\ UNCHANGED <<up, walk>>
         /\ \A o : o \notin MediaReqs => Pending(o)' = Pending(o)
<1>. DEFINE Goal == /\ SubOk' /\ MediaPart' /\ UNCHANGED <<up, walk>>
                    /\ \A o : o \notin MediaReqs => Pending(o)' = Pending(o)
<1>1. ASSUME NEW r \in MediaReqs, MediaCreate(r)
      PROVE  Goal
  <2>1. SubOk' /\ MediaPart' /\ \A o : o # r => Pending(o)' = Pending(o)
    BY <1>1, MediaCreateStep
  <2>2. UNCHANGED <<up, walk>>
    BY <1>1 DEF MediaCreate
  <2>. QED  BY <2>1, <2>2
<1>2. ASSUME NEW r \in MediaReqs, MediaCancel(r)
      PROVE  Goal
  <2>1. SubOk' /\ MediaPart' /\ \A o : o # r => Pending(o)' = Pending(o)
    BY <1>2, MediaCancelStep
  <2>2. UNCHANGED <<up, walk>>
    BY <1>2 DEF MediaCancel
  <2>. QED  BY <2>1, <2>2
<1>3. ASSUME NEW s, NEW st \in FtpStatus, s[1] \in MediaReqs, MediaEnd(s, st)
      PROVE  Goal
  <2>1. SubOk' /\ MediaPart' /\ \A o : o # s[1] => Pending(o)' = Pending(o)
    BY <1>3, MediaEndStep
  <2>2. UNCHANGED <<up, walk>>
    BY <1>3 DEF MediaEnd
  <2>. QED  BY <1>3, <2>1, <2>2
<1>4. "medialist" \in MediaReqs /\ "mediaget" \in MediaReqs /\ "mediadelete" \in MediaReqs
  BY DEF MediaReqs
<1>. HIDE DEF Goal
<1>5. ASSUME NEW st \in FtpStatus, MediaEnds(st)
      PROVE  Goal
  <2>1. CASE ListEnd(st)
    <3>1. <<"medialist", "list", 1>>[1] \in MediaReqs
      BY <1>4
    <3>. QED  BY <1>3, <2>1, <3>1 DEF ListEnd
  <2>2. CASE DownloadEnd(st)
    <3>1. <<"mediaget", "get", 1>>[1] \in MediaReqs
      BY <1>4
    <3>. QED  BY <1>3, <2>2, <3>1 DEF DownloadEnd
  <2>3. CASE DeleteEnd(st)
    <3>1. PICK s \in Pending("mediadelete") : MediaEnd(s, st)
      BY <2>3 DEF DeleteEnd
    <3>2. s[1] \in MediaReqs
      BY <1>4 DEF Pending
    <3>. QED  BY <1>3, <3>1, <3>2
  <2>. QED  BY <1>5, <2>1, <2>2, <2>3 DEF MediaEnds
<1>6. Goal
  BY <1>1, <1>2, <1>4, <1>5 DEF MediaNext, ListCreate, DownloadCreate, DeleteCreate,
     ListCancel, DownloadCancel, DeleteCancel
<1>. QED  BY <1>6 DEF Goal

-----------------------------------------------------------------------------
(* Crash reports, flight logs and piloting data.                           *)
LEMMA EmptiedOk ==
  ASSUME NEW e, NEW P, NEW x \in DlRec, DlOk(e, x, P)
  PROVE  /\ [x EXCEPT !.cur.tmp = FALSE] \in DlRec
         /\ DlOk(e, [x EXCEPT !.cur.tmp = FALSE], P)
         /\ [x EXCEPT !.cur.tmp = FALSE].st = x.st
<1>. DEFINE y == [x EXCEPT !.cur.tmp = FALSE]
            c == [x.cur EXCEPT !.tmp = FALSE]
<1>1. x.cur \in ItemRec
  BY DEF DlRec
<1>2. /\ c \in ItemRec /\ c.kind = x.cur.kind /\ c.status = x.cur.status
      /\ c.files = x.cur.files /\ c.got = x.cur.got /\ c.saved = x.cur.saved
  BY <1>1 DEF ItemRec
<1>3. /\ y \in DlRec /\ y.cur = c /\ y.st = x.st /\ y.items = x.items
      /\ y.total = x.total /\ y.count = x.count /\ y.told = x.told /\ y.listed = x.listed
  <2>. HIDE DEF c
  <2>1. y = [x EXCEPT !.cur = c]
    BY DEF c
  <2>2. c \in ItemRec
    BY <1>2
  <2>. HIDE DEF y
  <2>. QED  BY <2>1, <2>2 DEF DlRec
<1>4. x.cur = NoItem => c = NoItem
  <2>. SUFFICES ASSUME x.cur = NoItem PROVE c = NoItem
    OBVIOUS
  <2>1. /\ c.kind = "none" /\ c.status = "OK" /\ c.files = 0 /\ c.got = {}
        /\ c.tmp = FALSE /\ c.saved = FALSE
    BY <1>1 DEF NoItem, ItemRec
  <2>. HIDE DEF c
  <2>. QED  BY <1>2, <2>1 DEF NoItem, ItemRec
<1>5. c = NoItem => x.cur = NoItem
  BY <1>2 DEF NoItem, DlOk
<1>. HIDE DEF y, c
<1>6. Stage(e, x, P) => Stage(e, y, P)
  BY <1>2, <1>3, <1>4 DEF Stage, Stages, Whole
<1>7. DlOk(e, y, P)
  BY <1>2, <1>3, <1>4, <1>5, <1>6 DEF DlOk
<1>. QED  BY <1>3, <1>7 DEF y

LEMMA DlStep ==
  ASSUME DlPart, SubOk, NEW d \in Dls, NEW x \in DlRec, NEW L \in SUBSET Tells,
         NEW Over \in SUBSET Pending(d), NEW New \in SUBSET Subs,
         \A s \in New : s[1] = d, sub' = After(Over, New),
         DlOk(d, x, (Pending(d) \ Over) \cup (IF up THEN New ELSE {})),
         dl' \in {[dl EXCEPT ![d] = x], Cleaned(d, x, TRUE), Cleaned(d, x, FALSE)},
         dlist' = [dlist EXCEPT ![d] = L], \A t \in L : t.status = "OK" /\ t.kind = "file" => t.saved,
         ~Off'
  PROVE  /\ SubOk' /\ DlPart'
         /\ \A o : o # d => Pending(o)' = Pending(o)
<1>1. /\ SubOk' /\ Pending(d)' = (Pending(d) \ Over) \cup (IF up THEN New ELSE {})
      /\ \A o : o # d => Pending(o)' = Pending(o)
  BY AfterOwn
<1>2. /\ dl' = [e \in Dls |-> dl'[e]] /\ dl'[d] = x
      /\ \A e \in Dls : e # d => dl'[e] \in {dl[e], [dl[e] EXCEPT !.cur.tmp = FALSE]}
  <2>1. CASE dl' = [dl EXCEPT ![d] = x]
    BY <2>1 DEF DlPart
  <2>2. CASE dl' = Cleaned(d, x, TRUE)
    BY <2>2 DEF Cleaned
  <2>3. CASE dl' = Cleaned(d, x, FALSE)
    BY <2>3 DEF Cleaned
  <2>. QED  BY <2>1, <2>2, <2>3
<1>3. \A e \in Dls : dl[e] \in DlRec /\ DlOk(e, dl[e], Pending(e))
  BY DEF DlPart
<1>4. ASSUME NEW e \in Dls
      PROVE  dl'[e] \in DlRec /\ DlOk(e, dl'[e], Pending(e)')
  <2>1. CASE e = d
    BY <1>1, <1>2, <2>1
  <2>2. CASE e # d
    <3>1. Pending(e)' = Pending(e)
      BY <1>1, <2>2
    <3>2. CASE dl'[e] = dl[e]
      BY <1>3, <3>1, <3>2
    <3>3. CASE dl'[e] = [dl[e] EXCEPT !.cur.tmp = FALSE]
      BY <1>3, <3>1, <3>3, EmptiedOk
    <3>. QED  BY <1>2, <2>2, <3>2, <3>3
  <2>. QED  BY <2>1, <2>2
<1>5. dl' \in [Dls -> DlRec] /\ \A e \in Dls : DlOk(e, dl[e], Pending(e))'
  <2>1. \A e \in Dls : dl'[e] \in DlRec
    BY <1>4
  <2>2. dl' \in [Dls -> DlRec]
    BY <1>2, <2>1
  <2>3. ASSUME NEW e \in Dls
        PROVE  DlOk(e, dl[e], Pending(e))'
    BY <1>4 DEF DlOk, Stage, Stages, Whole
  <2>. QED  BY <2>2, <2>3
<1>6. /\ dlist' \in [Dls -> SUBSET Tells]
      /\ \A e \in Dls : \A t \in dlist'[e] : t.status = "OK" /\ t.kind = "file" => t.saved
  BY DEF DlPart
<1>. QED  BY <1>1, <1>5, <1>6 DEF DlPart

LEMMA ItemType ==
  ASSUME NEW kind \in Kinds
  PROVE  /\ Item(kind) \in ItemRec /\ Item(kind).kind = kind /\ Item(kind).got = {}
         /\ kind = "file" => Item(kind).files = 1
<1>1. 0 \in 0..MaxFiles /\ 1 \in 0..MaxFiles
  BY MaxFilesAssumption
<1>. QED  BY <1>1 DEF Item, NoItem, ItemRec, FtpStatus, Kinds

LEMMA NoItemType == NoItem \in ItemRec /\ NoItem.kind = "none"
<1>1. 0 \in 0..MaxFiles
  BY MaxFilesAssumption
<1>. QED  BY <1>1 DEF NoItem, ItemRec, FtpStatus

(* What is left of a list once n of its items were passed over and one     *)
(* more was taken.                                                         *)
LEMMA ItemsLeft ==
  ASSUME NEW items \in Seq(Kinds), NEW n \in 0..Len(items), n # Len(items)
  PROVE  /\ items[n + 1] \in Kinds
         /\ SubSeq(items, n + 2, Len(items)) \in Seq(Kinds)
         /\ Len(SubSeq(items, n + 2, Len(items))) = Len(items) - n - 1
<1>. DEFINE m == Len(items)
<1>1. m \in Nat /\ n \in Nat /\ n < m /\ n + 2 \in Int /\ m \in Int
  OBVIOUS
<1>2. \A i \in 1..m : items[i] \in Kinds
  OBVIOUS
<1>3. \A i \in (n + 2)..m : items[i] \in Kinds
  BY <1>1, <1>2
<1>4. /\ SubSeq(items, n + 2, m) \in Seq(Kinds)
      /\ Len(SubSeq(items, n + 2, m)) = IF n + 2 <= m THEN m - (n + 2) + 1 ELSE 0
  BY <1>1, <1>3, SubSeqProperties
<1>5. (IF n + 2 <= m THEN m - (n + 2) + 1 ELSE 0) = m - n - 1
  BY <1>1
<1>. QED  BY <1>1, <1>2, <1>4, <1>5

(* Going on with the next item: it is the last one, or there is a request. *)
LEMMA StartNextOk ==
  ASSUME NEW r \in DlRec, r.st = "running", r.told = << >>,
         r.count + Len(r.items) = r.total, r.cur.kind = "none" => r.cur = NoItem,
         NEW n \in Passed(r)
  PROVE  LET x == StartNext(r, n)
         IN  /\ x \in DlRec /\ x.count + Len(x.items) = x.total
             /\ x.cur.kind = "none" => x.cur = NoItem
             /\ \/ x.st = "done" /\ (x.cur = NoItem => x.items = << >>)
                \/ /\ x.st = "running" /\ up /\ x.told = << >>
                   /\ \E kind \in Kinds : x.cur = Item(kind)
<1>. DEFINE x == StartNext(r, n)
<1>1. /\ r.items \in Seq(Kinds) /\ r.count \in Nat /\ r.total \in Nat /\ Len(r.items) \in Nat
      /\ Append(r.told, "OK") = <<"OK">>
  BY DEF DlRec
<1>0. n \in 0..Len(r.items) /\ (n # Len(r.items) => up)
  BY <1>1 DEF Passed
<1>2. CASE r.cur # NoItem
  <2>1. x = [r EXCEPT !.st = "done", !.told = <<"OK">>]
    BY <1>1, <1>2 DEF StartNext, ReqDone
  <2>. HIDE DEF x
  <2>. QED  BY <1>2, <2>1 DEF DlRec, x
<1>3. CASE r.cur = NoItem /\ n = Len(r.items)
  <2>1. x = [r EXCEPT !.count = @ + Len(r.items), !.items = << >>, !.st = "done",
                      !.told = <<"OK">>]
    BY <1>1, <1>3 DEF StartNext, ReqDone, DlRec
  <2>2. << >> \in Seq(Kinds) /\ Len(<< >>) = 0 /\ r.count + Len(r.items) \in Nat
    BY <1>1
  <2>. HIDE DEF x
  <2>3. /\ x \in DlRec /\ x.count = r.count + Len(r.items) /\ x.items = << >>
        /\ x.total = r.total /\ x.cur = r.cur /\ x.st = "done"
    BY <1>1, <2>1, <2>2 DEF DlRec
  <2>. QED  BY <1>1, <1>3, <2>2, <2>3 DEF x
<1>4. CASE r.cur = NoItem /\ n # Len(r.items)
  <2>. DEFINE kind == r.items[n + 1]
              c == Item(kind)
              count == r.count + n + 1
              left == SubSeq(r.items, n + 2, Len(r.items))
  <2>1. x = [r EXCEPT !.count = count, !.items = left, !.cur = c]
    BY <1>4 DEF StartNext
  <2>2. /\ kind \in Kinds /\ left \in Seq(Kinds) /\ Len(left) = Len(r.items) - n - 1
        /\ count \in Nat
    <3>1. r.items \in Seq(Kinds) /\ n \in 0..Len(r.items) /\ n # Len(r.items)
      BY <1>0, <1>1, <1>4
    <3>2. kind \in Kinds /\ left \in Seq(Kinds) /\ Len(left) = Len(r.items) - n - 1
      BY <3>1, ItemsLeft, Zenon
    <3>3. count \in Nat
      BY <1>0, <1>1
    <3>. QED  BY <3>2, <3>3
  <2>3. c \in ItemRec /\ c.kind = kind
    BY <2>2, ItemType
  <2>4. c = Item(kind)
    OBVIOUS
  <2>5. count + (Len(r.items) - n - 1) = r.total
    BY <1>0, <1>1
  <2>. HIDE DEF x, c, kind, left, count
  <2>6. /\ x \in DlRec /\ x.count = count /\ x.items = left
        /\ x.total = r.total /\ x.cur = c /\ x.st = "running" /\ x.told = << >>
    BY <2>1, <2>2, <2>3 DEF DlRec
  <2>7. kind # "none"
    BY <2>2 DEF Kinds
  <2>8. \E q \in Kinds : x.cur = Item(q)
    BY <2>2, <2>4, <2>6
  <2>9. x.count + Len(x.items) = x.total
    BY <2>2, <2>5, <2>6
  <2>. QED  BY <1>0, <1>4, <2>3, <2>6, <2>7, <2>8, <2>9 DEF x
<1>. QED  BY <1>2, <1>3, <1>4

LEMMA FirstSubsOk ==
  ASSUME NEW d \in Dls, NEW r \in DlRec, r.st = "running", r.told = << >>,
         r.count + Len(r.items) = r.total, r.cur.kind = "none" => r.cur = NoItem,
         NEW n \in Passed(r)
  PROVE  LET x == StartNext(r, n)
             New == FirstSubs(d, x)
         IN  /\ x \in DlRec /\ New \in SUBSET Subs /\ \A s \in New : s[1] = d
             /\ DlOk(d, x, IF up THEN New ELSE {})
<1>. DEFINE x == StartNext(r, n)
            New == FirstSubs(d, x)
<1>1. /\ x \in DlRec /\ x.count + Len(x.items) = x.total
      /\ x.cur.kind = "none" => x.cur = NoItem
      /\ \/ x.st = "done" /\ (x.cur = NoItem => x.items = << >>)
         \/ /\ x.st = "running" /\ up /\ x.told = << >>
            /\ \E kind \in Kinds : x.cur = Item(kind)
  BY StartNextOk
<1>. HIDE DEF x
<1>2. <<d, "dir", 1>> \in Subs /\ <<d, "get", 1>> \in Subs
  BY OwnersAre, MaxFilesAssumption DEF Subs, Ops
<1>3. New \in SUBSET Subs /\ \A s \in New : s[1] = d
  BY <1>2 DEF FirstSubs
<1>4. CASE x.st = "done"
  <2>1. New = {}
    BY <1>4 DEF FirstSubs
  <2>. HIDE DEF New
  <2>. QED  BY <1>1, <1>3, <1>4, <2>1 DEF DlOk, New, x
<1>5. CASE x.st = "running"
  <2>1. PICK kind \in Kinds : x.cur = Item(kind)
    BY <1>1, <1>5
  <2>2. /\ up /\ x.told = << >> /\ x.cur.kind = kind /\ x.cur.got = {}
        /\ kind = "file" => x.cur.files = 1
    BY <1>1, <1>5, <2>1, ItemType
  <2>3. CASE kind = "dir"
    <3>1. New = {<<d, "dir", 1>>}
      BY <1>5, <2>2, <2>3 DEF FirstSubs
    <3>. HIDE DEF New
    <3>2. Stage(d, x, New) /\ New # {}
      BY <2>2, <2>3, <3>1 DEF Stage, Stages
    <3>. QED  BY <1>1, <1>3, <1>5, <2>2, <3>2 DEF DlOk, New, x
  <2>4. CASE kind = "file"
    <3>1. New = {<<d, "get", 1>>}
      BY <1>5, <2>2, <2>4 DEF FirstSubs
    <3>2. 1..x.cur.files = {1}
      BY <2>2, <2>4
    <3>. HIDE DEF New
    <3>3. Stage(d, x, New) /\ New # {}
      BY <2>2, <3>1, <3>2 DEF Stage, Stages
    <3>. QED  BY <1>1, <1>3, <1>5, <2>2, <3>3 DEF DlOk, New, x
  <2>. QED  BY <2>3, <2>4 DEF Kinds
<1>. QED  BY <1>1, <1>4, <1>5

LEMMA ItemOverStep ==
  ASSUME DlPart, SubOk, NEW d \in Dls, NEW s, Pending(d) = {s}, NEW c \in ItemRec,
         c.kind \in Kinds, NEW st \in FtpStatus, st = "OK" => c.saved \/ c.kind = "dir",
         ItemOver(d, s, c, st), ~Off'
  PROVE  SubOk' /\ DlPart' /\ \A o : o # d => Pending(o)' = Pending(o)
<1>0. PICK n \in Passed(dl[d]) :
        LET r == CurrDone(dl[d], c, n)
        IN  /\ dl' = Cleaned(d, r, c.status \notin {"CANCELED", "ABORTED"})
            /\ sub' = After({s}, FirstSubs(d, r))
  BY DEF ItemOver
<1>. DEFINE r == [dl[d] EXCEPT !.cur = IF c.status \in {"CANCELED", "ABORTED"}
                                       THEN c ELSE NoItem]
            x == StartNext(r, n)
            New == FirstSubs(d, x)
            L == dlist[d] \cup {Told(st, c)}
<1>1. dl[d] \in DlRec /\ DlOk(d, dl[d], Pending(d))
  BY DEF DlPart
<1>2. /\ dl[d].st = "running" /\ dl[d].told = << >>
      /\ dl[d].count + Len(dl[d].items) = dl[d].total
  BY <1>1 DEF DlOk, DlRec
<1>3. (IF c.status \in {"CANCELED", "ABORTED"} THEN c ELSE NoItem) \in ItemRec
  BY NoItemType
<1>4. /\ r \in DlRec /\ r.st = "running" /\ r.told = << >>
      /\ r.count + Len(r.items) = r.total
      /\ r.cur = IF c.status \in {"CANCELED", "ABORTED"} THEN c ELSE NoItem
  <2>. DEFINE i == IF c.status \in {"CANCELED", "ABORTED"} THEN c ELSE NoItem
  <2>1. r = [dl[d] EXCEPT !.cur = i] /\ i \in ItemRec
    BY <1>3
  <2>. HIDE DEF i, r
  <2>2. /\ r \in DlRec /\ r.st = dl[d].st /\ r.told = dl[d].told /\ r.count = dl[d].count
        /\ r.items = dl[d].items /\ r.total = dl[d].total /\ r.cur = i
    BY <1>1, <2>1 DEF DlRec
  <2>. QED  BY <1>2, <2>2 DEF i
<1>5. r.cur.kind = "none" => r.cur = NoItem
  BY <1>4 DEF Kinds
<1>13. n \in Passed(r)
  <2>1. r.items = dl[d].items
    BY <1>1 DEF DlRec
  <2>. HIDE DEF r
  <2>. QED  BY <2>1 DEF Passed
<1>. HIDE DEF r
<1>6. /\ x \in DlRec /\ New \in SUBSET Subs /\ \A q \in New : q[1] = d
      /\ DlOk(d, x, IF up THEN New ELSE {})
  BY <1>4, <1>5, <1>13, FirstSubsOk
<1>7. /\ dlist' = [dlist EXCEPT ![d] = L] /\ sub' = After({s}, New)
      /\ dl' = Cleaned(d, x, c.status \notin {"CANCELED", "ABORTED"})
  BY <1>0 DEF ItemOver, CurrDone, r
<1>8. dl' \in {[dl EXCEPT ![d] = x], Cleaned(d, x, TRUE), Cleaned(d, x, FALSE)}
  <2>1. CASE c.status \in {"CANCELED", "ABORTED"}
    BY <1>7, <2>1 DEF Cleaned
  <2>2. CASE c.status \notin {"CANCELED", "ABORTED"}
    BY <1>7, <2>2 DEF Cleaned
  <2>. QED  BY <2>1, <2>2
<1>9. L \in SUBSET Tells /\ \A t \in L : t.status = "OK" /\ t.kind = "file" => t.saved
  <2>1. c.saved \in BOOLEAN /\ c.kind # "none" /\ ("dir" # "file")
    BY DEF ItemRec, Kinds
  <2>2. /\ Told(st, c) \in Tells /\ Told(st, c).status = st
        /\ Told(st, c).saved = c.saved /\ Told(st, c).kind = c.kind
    BY <2>1 DEF Told, Tells
  <2>. QED  BY <2>1, <2>2 DEF DlPart
<1>10. (Pending(d) \ {s}) \cup (IF up THEN New ELSE {}) = IF up THEN New ELSE {}
  OBVIOUS
<1>11. {s} \in SUBSET Pending(d)
  OBVIOUS
<1>. HIDE DEF x, New, L
<1>12. DlOk(d, x, (Pending(d) \ {s}) \cup (IF up THEN New ELSE {}))
  BY <1>6, <1>10
<1>. QED  BY <1>6, <1>7, <1>8, <1>9, <1>11, <1>12, DlStep

LEMMA ItemGoesOnStep ==
  ASSUME DlPart, SubOk, NEW d \in Dls, NEW s \in Pending(d), NEW c \in ItemRec,
         c.kind \in Kinds, NEW New \in SUBSET Subs, \A q \in New : q[1] = d,
         NEW P, P = (Pending(d) \ {s}) \cup (IF up THEN New ELSE {}), P # {},
         Stages(d, c, P), ItemGoesOn(d, s, c, New), ~Off'
  PROVE  SubOk' /\ DlPart' /\ \A o : o # d => Pending(o)' = Pending(o)
<1>. DEFINE x == [dl[d] EXCEPT !.cur = c]
            L == dlist[d]
<1>1. dl[d] \in DlRec /\ DlOk(d, dl[d], Pending(d))
  BY DEF DlPart
<1>2. /\ dl[d].st = "running" /\ dl[d].told = << >>
      /\ dl[d].count + Len(dl[d].items) = dl[d].total
  BY <1>1 DEF DlOk, DlRec
<1>3. /\ x \in DlRec /\ x.cur = c /\ x.st = "running" /\ x.told = << >>
      /\ x.count + Len(x.items) = x.total
  <2>. DEFINE y == x
  <2>1. y = [dl[d] EXCEPT !.cur = c]
    OBVIOUS
  <2>. HIDE DEF y
  <2>2. /\ y \in DlRec /\ y.st = dl[d].st /\ y.told = dl[d].told /\ y.count = dl[d].count
        /\ y.items = dl[d].items /\ y.total = dl[d].total /\ y.cur = c
    BY <1>1, <2>1 DEF DlRec
  <2>. QED  BY <1>2, <2>2 DEF y
<1>4. dl' = [dl EXCEPT ![d] = x] /\ dlist' = [dlist EXCEPT ![d] = L] /\ sub' = After({s}, New)
  BY DEF ItemGoesOn, DlPart
<1>5. L \in SUBSET Tells /\ \A t \in L : t.status = "OK" /\ t.kind = "file" => t.saved
  BY DEF DlPart
<1>. HIDE DEF x, L
<1>6. DlOk(d, x, P)
  <2>1. x.cur.kind # "none" /\ x.st = "running" /\ x.told # <<"OK">>
    BY <1>3 DEF Kinds
  <2>. QED  BY <1>3, <2>1 DEF DlOk, Stage
<1>7. {s} \in SUBSET Pending(d)
  OBVIOUS
<1>8. dl' \in {[dl EXCEPT ![d] = x], Cleaned(d, x, TRUE), Cleaned(d, x, FALSE)}
  BY <1>4
<1>. QED  BY <1>3, <1>4, <1>5, <1>6, <1>7, <1>8, DlStep

LEMMA OverFacts ==
  ASSUME NEW s, NEW st, SubOver(s, st), UNCHANGED <<up, walk>>
  PROVE  /\ s \in DOMAIN sub /\ s \in Pending(s[1]) /\ ~Off' /\ ~Off
         /\ st = "OK" => up
         /\ st \in FtpStatus
  BY DEF SubOver, Off, Pending, FtpStatus

LEMMA WorstIs ==
  ASSUME NEW c \in ItemRec, NEW st \in FtpStatus
  PROVE  /\ Worst(c, st) \in ItemRec
         /\ Worst(c, st).kind = c.kind /\ Worst(c, st).files = c.files
         /\ Worst(c, st).got = c.got /\ Worst(c, st).tmp = c.tmp
         /\ Worst(c, st).saved = c.saved
         /\ Worst(c, st).status = (IF c.status = "OK" THEN st ELSE c.status)
<1>. DEFINE new == IF c.status = "OK" THEN st ELSE c.status
            w == Worst(c, st)
<1>1. new \in FtpStatus
  BY DEF ItemRec
<1>2. w = [c EXCEPT !.status = new]
  BY DEF Worst
<1>. HIDE DEF new, w
<1>3. /\ w \in ItemRec /\ w.kind = c.kind /\ w.files = c.files /\ w.got = c.got
      /\ w.tmp = c.tmp /\ w.saved = c.saved /\ w.status = new
  BY <1>1, <1>2 DEF ItemRec
<1>. QED  BY <1>3 DEF new, w

(* The stage of an item, from one of its requests.                         *)
LEMMA StageOf ==
  ASSUME DlPart, NEW d \in Dls, NEW op, NEW k, NEW s, s = <<d, op, k>>, s \in Pending(d)
  PROVE  LET x == dl[d]
             P == Pending(d)
             c == x.cur
         IN  /\ x \in DlRec /\ c \in ItemRec /\ DlOk(d, x, P) /\ x.st = "running"
             /\ op = "list" => P = {s} /\ c = NoItem /\ x.items = << >> /\ x.count = 0
             /\ op # "list" => c.kind \in Kinds
             /\ op = "dir" => P = {s} /\ c.got = {} /\ c.kind = "dir"
             /\ op = "get" =>
                  /\ k \in 1..c.files
                  /\ P \subseteq {<<d, "get", j>> : j \in 1..c.files}
                  /\ c.got \subseteq 1..c.files
                  /\ c.status = "OK" => \A j \in 1..c.files : <<d, "get", j>> \in P \/ j \in c.got
             /\ op = "delete" =>
                  P \subseteq {<<d, "delete", j>> : j \in 1..c.files} /\ c.saved /\ Whole(c)
             /\ op = "deldir" => P = {s} /\ c.saved /\ Whole(c)
<1>. DEFINE x == dl[d]
            P == Pending(d)
            c == x.cur
<1>1. x \in DlRec /\ DlOk(d, x, P)
  BY DEF DlPart
<1>2. c \in ItemRec /\ x.st = "running" /\ Stage(d, x, P)
  BY <1>1 DEF DlRec, DlOk
<1>3. \A s1, s2, s3, t1, t2, t3 : <<s1, s2, s3>> = <<t1, t2, t3>> => s2 = t2 /\ s3 = t3
  OBVIOUS
<1>. HIDE DEF x, P, c
<1>4. s \in P
  BY DEF P
<1>5. CASE P = {<<d, "list", 1>>} /\ x.cur = NoItem /\ x.items = << >> /\ x.count = 0
  <2>1. op = "list" /\ P = {s}
    BY <1>3, <1>4, <1>5
  <2>. QED  BY <1>1, <1>2, <1>5, <2>1 DEF x, P, c
<1>6. CASE x.cur.kind \in Kinds /\ P = {<<d, "dir", 1>>} /\ c.got = {} /\ c.kind = "dir"
  <2>1. op = "dir" /\ P = {s}
    BY <1>3, <1>4, <1>6
  <2>. QED  BY <1>1, <1>2, <1>6, <2>1 DEF x, P, c
<1>7. CASE /\ x.cur.kind \in Kinds /\ P \subseteq {<<d, "get", j>> : j \in 1..c.files}
           /\ c.got \subseteq 1..c.files
           /\ c.status = "OK" => \A j \in 1..c.files : <<d, "get", j>> \in P \/ j \in c.got
  <2>1. op = "get" /\ k \in 1..c.files
    BY <1>3, <1>4, <1>7
  <2>. QED  BY <1>1, <1>2, <1>7, <2>1 DEF x, P, c
<1>8. CASE /\ x.cur.kind \in Kinds /\ P \subseteq {<<d, "delete", j>> : j \in 1..c.files}
           /\ c.saved /\ Whole(c)
  <2>1. op = "delete"
    BY <1>3, <1>4, <1>8
  <2>. QED  BY <1>1, <1>2, <1>8, <2>1 DEF x, P, c
<1>9. CASE x.cur.kind \in Kinds /\ P = {<<d, "deldir", 1>>} /\ c.saved /\ Whole(c)
  <2>1. op = "deldir" /\ P = {s}
    BY <1>3, <1>4, <1>9
  <2>. QED  BY <1>1, <1>2, <1>9, <2>1 DEF x, P, c
<1>. QED  BY <1>2, <1>5, <1>6, <1>7, <1>8, <1>9 DEF Stage, Stages, c

DlGoal(d) == SubOk' /\ DlPart' /\ \A o : o # d => Pending(o)' = Pending(o)

LEMMA DlCreateStep ==
  ASSUME DlPart, SubOk, NEW d \in Dls, DlCreate(d)
  PROVE  DlGoal(d)
<1>. DEFINE x == [NoDl EXCEPT !.st = "running"]
            s == <<d, "list", 1>>
            L == dlist[d]
<1>1. dl[d].st = "none" /\ up /\ ~Off' /\ dl' = [dl EXCEPT ![d] = x] /\ sub' = After({}, {s})
  BY DEF DlCreate, Off
<1>2. Pending(d) = {}
  BY <1>1 DEF DlPart, DlOk
<1>3. << >> \in Seq(Kinds) /\ Len(<< >>) = 0
  OBVIOUS
<1>4. /\ x \in DlRec /\ x.st = "running" /\ x.items = << >> /\ x.total = 0 /\ x.count = 0
      /\ x.cur = NoItem /\ x.told = << >>
  BY <1>3, NoItemType DEF NoDl, DlRec
<1>5. DlOk(d, x, {s})
  <2>. HIDE DEF x
  <2>. QED  BY <1>3, <1>4 DEF DlOk, Stage
<1>6. {s} \in SUBSET Subs /\ \A q \in {s} : q[1] = d
  BY OwnersAre, MaxFilesAssumption DEF Subs, Ops
<1>7. L \in SUBSET Tells /\ (\A t \in L : t.status = "OK" /\ t.kind = "file" => t.saved)
      /\ dlist' = [dlist EXCEPT ![d] = L]
  BY DEF DlPart, DlCreate
<1>8. DlOk(d, x, (Pending(d) \ {}) \cup (IF up THEN {s} ELSE {})) /\ {} \in SUBSET Pending(d)
  <2>1. (Pending(d) \ {}) \cup (IF up THEN {s} ELSE {}) = {s}
    BY <1>1, <1>2
  <2>. QED  BY <1>5, <2>1
<1>. HIDE DEF x, s, L
<1>. QED  BY <1>1, <1>4, <1>6, <1>7, <1>8, DlStep DEF DlGoal

LEMMA MainListEndStep ==
  ASSUME DlPart, SubOk, NEW d, NEW st, MainListEnd(d, st)
  PROVE  d \in Dls /\ DlGoal(d) /\ UNCHANGED <<up, walk>>
<1>. DEFINE s == <<d, "list", 1>>
            L == dlist[d]
<1>0. d \in Dls /\ SubOver(s, st) /\ UNCHANGED <<dlist, up, walk>>
  BY DEF MainListEnd
<1>1. s \in Pending(d) /\ ~Off'
  <2>1. s[1] = d
    OBVIOUS
  <2>. QED  BY <1>0, <2>1, OverFacts
<1>2. /\ dl[d] \in DlRec /\ DlOk(d, dl[d], Pending(d)) /\ dl[d].st = "running"
      /\ Pending(d) = {s} /\ dl[d].cur = NoItem /\ dl[d].items = << >> /\ dl[d].count = 0
  BY <1>0, <1>1, StageOf
<1>3. dl[d].told = << >> /\ dl[d].count + Len(dl[d].items) = dl[d].total
  BY <1>2 DEF DlOk
<1>4. L \in SUBSET Tells /\ (\A t \in L : t.status = "OK" /\ t.kind = "file" => t.saved)
      /\ dlist' = [dlist EXCEPT ![d] = L]
  BY <1>0 DEF DlPart
<1>5. {s} \in SUBSET Pending(d)
  BY <1>2
<1>6. CASE dl' = [dl EXCEPT ![d] = ReqDone(@)] /\ sub' = After({s}, {})
  <2>. DEFINE x == [dl[d] EXCEPT !.st = "done", !.told = <<"OK">>]
  <2>1. ReqDone(dl[d]) = x
    BY <1>3 DEF ReqDone
  <2>2. dl' = [dl EXCEPT ![d] = x]
    BY <1>6, <2>1
  <2>3. /\ x \in DlRec /\ x.st = "done" /\ x.items = dl[d].items /\ x.cur = dl[d].cur
        /\ x.count = dl[d].count /\ x.total = dl[d].total
    <3>. DEFINE y == x
    <3>1. y = [dl[d] EXCEPT !.st = "done", !.told = <<"OK">>]
      OBVIOUS
    <3>. HIDE DEF y
    <3>2. /\ y \in DlRec /\ y.st = "done" /\ y.items = dl[d].items /\ y.cur = dl[d].cur
          /\ y.count = dl[d].count /\ y.total = dl[d].total
      BY <1>2, <3>1 DEF DlRec
    <3>. QED  BY <3>2 DEF y
  <2>. HIDE DEF x
  <2>4. (Pending(d) \ {s}) \cup (IF up THEN {} ELSE {}) = {}
    BY <1>2
  <2>5. DlOk(d, x, {})
    BY <1>2, <1>3, <2>3 DEF DlOk
  <2>6. DlOk(d, x, (Pending(d) \ {s}) \cup (IF up THEN {} ELSE {}))
    BY <2>4, <2>5
  <2>7. {} \in SUBSET Subs /\ \A q \in {} : q[1] = d
    OBVIOUS
  <2>. HIDE DEF s, L
  <2>8. dl' \in {[dl EXCEPT ![d] = x], Cleaned(d, x, TRUE), Cleaned(d, x, FALSE)}
    BY <2>2
  <2>9. d \in Dls /\ ~Off' /\ L \in SUBSET Tells /\ {s} \in SUBSET Pending(d) /\ x \in DlRec
        /\ sub' = After({s}, {})
        /\ dlist' = [dlist EXCEPT ![d] = L] /\ (\A t \in L : t.status = "OK" /\ t.kind = "file" => t.saved)
    BY <1>0, <1>1, <1>4, <1>5, <1>6, <2>3
  <2>10. DlGoal(d)
    BY <2>6, <2>7, <2>8, <2>9, DlStep DEF DlGoal
  <2>. QED  BY <1>0, <2>10
<1>7. ASSUME NEW l \in Listings,
             LET y == [dl[d] EXCEPT !.items = l, !.total = Len(l), !.listed = TRUE]
             IN  \E p \in Passed(y) :
                   LET r == StartNext(y, p)
                   IN  dl' = Cleaned(d, r, TRUE) /\ sub' = After({s}, FirstSubs(d, r))
      PROVE  DlGoal(d)
  <2>. DEFINE n == Len(l)
              r == [dl[d] EXCEPT !.items = l, !.total = n, !.listed = TRUE]
  <2>0. PICK p \in Passed(r) :
          /\ dl' = Cleaned(d, StartNext(r, p), TRUE)
          /\ sub' = After({s}, FirstSubs(d, StartNext(r, p)))
    BY <1>7
  <2>. DEFINE x == StartNext(r, p)
              New == FirstSubs(d, x)
  <2>1. l \in Seq(Kinds) /\ n \in Nat
    BY ListingsAssumption
  <2>2. /\ r \in DlRec /\ r.st = "running" /\ r.told = << >> /\ r.cur = NoItem
        /\ r.count = 0 /\ r.items = l /\ r.total = n
    <3>. DEFINE y == r
    <3>1. y = [dl[d] EXCEPT !.items = l, !.total = n, !.listed = TRUE]
      OBVIOUS
    <3>. HIDE DEF y, n
    <3>2. /\ y \in DlRec /\ y.st = "running" /\ y.told = << >> /\ y.cur = NoItem
          /\ y.count = 0 /\ y.items = l /\ y.total = n
      BY <1>2, <1>3, <2>1, <3>1 DEF DlRec
    <3>. QED  BY <3>2 DEF y
  <2>3. dl' = Cleaned(d, x, TRUE) /\ sub' = After({s}, New)
    BY <2>0
  <2>4. r.count + Len(r.items) = r.total
    <3>. HIDE DEF r
    <3>. QED  BY <2>1, <2>2
  <2>. HIDE DEF r
  <2>5. /\ x \in DlRec /\ New \in SUBSET Subs /\ \A q \in New : q[1] = d
        /\ DlOk(d, x, IF up THEN New ELSE {})
    BY <1>0, <2>0, <2>2, <2>4, FirstSubsOk
  <2>. HIDE DEF x, New
  <2>6. (Pending(d) \ {s}) \cup (IF up THEN New ELSE {}) = IF up THEN New ELSE {}
    BY <1>2
  <2>7. DlOk(d, x, (Pending(d) \ {s}) \cup (IF up THEN New ELSE {}))
    BY <2>5, <2>6
  <2>8. dl' \in {[dl EXCEPT ![d] = x], Cleaned(d, x, TRUE), Cleaned(d, x, FALSE)}
    BY <2>3
  <2>. HIDE DEF s, L
  <2>9. d \in Dls /\ ~Off' /\ L \in SUBSET Tells /\ {s} \in SUBSET Pending(d) /\ x \in DlRec
        /\ New \in SUBSET Subs /\ (\A q \in New : q[1] = d) /\ sub' = After({s}, New)
        /\ dlist' = [dlist EXCEPT ![d] = L] /\ (\A t \in L : t.status = "OK" /\ t.kind = "file" => t.saved)
    BY <1>0, <1>1, <1>4, <1>5, <2>3, <2>5
  <2>. QED  BY <2>7, <2>8, <2>9, DlStep DEF DlGoal
<1>. QED  BY <1>0, <1>6, <1>7 DEF MainListEnd

LEMMA DirEndStep ==
  ASSUME DlPart, SubOk, NEW d, NEW st, DirEnd(d, st)
  PROVE  d \in Dls /\ DlGoal(d) /\ UNCHANGED <<up, walk>>
<1>. DEFINE s == <<d, "dir", 1>>
            cur == dl[d].cur
            c == Worst(cur, st)
            fails == [c EXCEPT !.status = "FAILED"]
<1>0. d \in Dls /\ SubOver(s, st) /\ UNCHANGED <<up, walk>>
  BY DEF DirEnd
<1>1. s \in Pending(d) /\ ~Off' /\ st \in FtpStatus /\ (st = "OK" => up)
  <2>1. s[1] = d
    OBVIOUS
  <2>. QED  BY <1>0, <2>1, OverFacts
<1>2. Pending(d) = {s} /\ cur \in ItemRec /\ cur.kind = "dir" /\ cur.got = {}
  BY <1>0, <1>1, StageOf
<1>. HIDE DEF cur, s
<1>3. c \in ItemRec /\ c.kind = "dir" /\ c.got = {} /\ c.status \in FtpStatus
      /\ (c.status = "OK" => st = "OK")
  BY <1>1, <1>2, WorstIs DEF ItemRec
<1>. HIDE DEF c
<1>4. /\ fails \in ItemRec /\ fails.kind = "dir" /\ c.kind \in Kinds /\ fails.kind \in Kinds
      /\ "FAILED" \in FtpStatus /\ "OK" \in FtpStatus
  BY <1>3 DEF ItemRec, FtpStatus, Kinds
<1>5. CASE st # "OK" /\ ItemOver(d, s, c, c.status)
  BY <1>0, <1>1, <1>2, <1>3, <1>4, <1>5, ItemOverStep DEF DlGoal
<1>6. CASE ItemOver(d, s, fails, "FAILED")
  BY <1>0, <1>1, <1>2, <1>4, <1>6, ItemOverStep DEF DlGoal
<1>7. CASE ItemOver(d, s, c, "OK")
  BY <1>0, <1>1, <1>2, <1>3, <1>4, <1>7, ItemOverStep DEF DlGoal
<1>8. ASSUME st = "OK", NEW n \in 1..MaxFiles,
             ItemGoesOn(d, s, [c EXCEPT !.files = n, !.tmp = TRUE],
                        {<<d, "get", k>> : k \in 1..n})
      PROVE  d \in Dls /\ DlGoal(d) /\ UNCHANGED <<up, walk>>
  <2>. DEFINE i == [c EXCEPT !.files = n, !.tmp = TRUE]
              New == {<<d, "get", k>> : k \in 1..n}
  <2>1. n \in 0..MaxFiles /\ 1 \in 1..n
    BY MaxFilesAssumption
  <2>2. i \in ItemRec /\ i.kind \in Kinds /\ i.got = {} /\ i.files = n
    BY <1>3, <1>4, <2>1 DEF ItemRec
  <2>3. New \in SUBSET Subs /\ \A q \in New : q[1] = d
    <3>1. \A k \in 1..n : k \in 1..MaxFiles
      BY MaxFilesAssumption
    <3>. QED  BY <1>0, <3>1, OwnersAre DEF Subs, Ops
  <2>4. New = (Pending(d) \ {s}) \cup (IF up THEN New ELSE {})
    BY <1>1, <1>2, <1>8
  <2>5. New # {}
    <3>1. <<d, "get", 1>> \in New
      BY <2>1
    <3>. QED  BY <3>1
  <2>6. Stages(d, i, New)
    <3>. HIDE DEF i
    <3>. QED  BY <2>2 DEF Stages
  <2>7. ItemGoesOn(d, s, i, New)
    BY <1>8
  <2>. HIDE DEF i, New
  <2>8. DlGoal(d)
    BY <1>0, <1>1, <2>2, <2>3, <2>4, <2>5, <2>6, <2>7, ItemGoesOnStep DEF DlGoal
  <2>. QED  BY <1>0, <2>8
<1>. QED  BY <1>5, <1>6, <1>7, <1>8 DEF DirEnd, c, cur, s

LEMMA GetEndStep ==
  ASSUME DlPart, SubOk, NEW d, NEW k, NEW st, GetEnd(d, k, st)
  PROVE  d \in Dls /\ DlGoal(d) /\ UNCHANGED <<up, walk>>
<1>. DEFINE s == <<d, "get", k>>
            cur == dl[d].cur
            P == Pending(d)
            w == Worst(cur, st)
            c == [w EXCEPT !.got = IF st = "OK" THEN @ \cup {k} ELSE @]
            last == P = {s}
            named == [c EXCEPT !.saved = TRUE, !.tmp = FALSE]
            New == {<<d, "delete", j>> : j \in 1..c.files}
<1>0. /\ d \in Dls /\ SubOver(s, st) /\ UNCHANGED <<up, walk>>
      /\ \/ ~last /\ ItemGoesOn(d, s, c, {})
         \/ last /\ c.status # "OK" /\ ItemOver(d, s, c, c.status)
         \/ last /\ c.status = "OK" /\ ItemOver(d, s, c, "FAILED")
         \/ last /\ c.status = "OK" /\ ItemGoesOn(d, s, named, New)
  BY DEF GetEnd
<1>1. s \in P /\ ~Off' /\ st \in FtpStatus /\ (st = "OK" => up)
  <2>1. s[1] = d
    OBVIOUS
  <2>. QED  BY <1>0, <2>1, OverFacts
<1>2. /\ cur \in ItemRec /\ cur.kind \in Kinds /\ k \in 1..cur.files
      /\ P \subseteq {<<d, "get", j>> : j \in 1..cur.files} /\ cur.got \subseteq 1..cur.files
      /\ cur.status = "OK" =>
           \A j \in 1..cur.files : <<d, "get", j>> \in P \/ j \in cur.got
  BY <1>0, <1>1, StageOf
<1>3. \A j : <<d, "get", j>> = s => j = k
  OBVIOUS
<1>. HIDE DEF s, cur, P, w
<1>4. /\ w \in ItemRec /\ w.kind = cur.kind /\ w.files = cur.files /\ w.got = cur.got
      /\ w.saved = cur.saved
      /\ w.status = (IF cur.status = "OK" THEN st ELSE cur.status)
  BY <1>1, <1>2, WorstIs DEF w
<1>5. /\ c \in ItemRec /\ c.kind \in Kinds /\ c.files = cur.files
      /\ c.got = (IF st = "OK" THEN cur.got \cup {k} ELSE cur.got) /\ c.status = w.status
      /\ c.got \subseteq 1..c.files
  <2>. DEFINE g == IF st = "OK" THEN cur.got \cup {k} ELSE cur.got
  <2>1. cur.files \in 0..MaxFiles
    BY <1>2 DEF ItemRec
  <2>2. g \subseteq 1..cur.files
    BY <1>2
  <2>3. g \in SUBSET (1..MaxFiles)
    BY <2>1, <2>2, MaxFilesAssumption
  <2>4. c = [w EXCEPT !.got = g]
    BY <1>4
  <2>. HIDE DEF c, g
  <2>5. /\ c \in ItemRec /\ c.kind = w.kind /\ c.files = w.files /\ c.got = g
        /\ c.status = w.status
    BY <1>4, <2>3, <2>4 DEF ItemRec
  <2>. QED  BY <1>2, <1>4, <2>2, <2>5 DEF g
<1>. HIDE DEF c
<1>6. c.status = "OK" => st = "OK" /\ cur.status = "OK"
  BY <1>4, <1>5
<1>7. c.status \in FtpStatus /\ "FAILED" \in FtpStatus
  BY <1>5 DEF ItemRec, FtpStatus
<1>8. CASE ~last /\ ItemGoesOn(d, s, c, {})
  <2>. DEFINE Q == P \ {s}
  <2>1. Q = (Pending(d) \ {s}) \cup (IF up THEN {} ELSE {}) /\ Q # {}
    BY <1>1, <1>8 DEF P
  <2>2. c.status = "OK" => \A j \in 1..c.files : <<d, "get", j>> \in Q \/ j \in c.got
    BY <1>2, <1>3, <1>5, <1>6
  <2>3. Q \subseteq {<<d, "get", j>> : j \in 1..c.files}
    BY <1>2, <1>5
  <2>. HIDE DEF Q
  <2>4. Stages(d, c, Q)
    BY <1>5, <2>2, <2>3 DEF Stages
  <2>5. s \in Pending(d) /\ {} \in SUBSET Subs /\ \A q \in {} : q[1] = d
    BY <1>1 DEF P
  <2>6. DlGoal(d)
    BY <1>0, <1>1, <1>5, <1>8, <2>1, <2>4, <2>5, ItemGoesOnStep DEF DlGoal
  <2>. QED  BY <1>0, <2>6
<1>9. CASE last /\ c.status # "OK" /\ ItemOver(d, s, c, c.status)
  <2>1. DlGoal(d)
    BY <1>0, <1>1, <1>5, <1>7, <1>9, ItemOverStep DEF DlGoal, P
  <2>. QED  BY <1>0, <2>1
<1>10. CASE last /\ ItemOver(d, s, c, "FAILED")
  <2>1. DlGoal(d)
    BY <1>0, <1>1, <1>5, <1>7, <1>10, ItemOverStep DEF DlGoal, P
  <2>. QED  BY <1>0, <2>1
<1>11. CASE last /\ c.status = "OK" /\ ItemGoesOn(d, s, named, New)
  <2>1. /\ named \in ItemRec /\ named.kind \in Kinds /\ named.files = c.files
        /\ named.got = c.got /\ named.saved
    BY <1>5 DEF ItemRec
  <2>2. c.got = 1..c.files
    <3>1. ASSUME NEW j \in 1..c.files
          PROVE  j \in c.got
      BY <1>2, <1>3, <1>5, <1>6, <1>11
    <3>. QED  BY <1>5, <3>1
  <2>3. c.files \in 0..MaxFiles /\ 1 \in 1..c.files
    <3>1. c.files \in 0..MaxFiles /\ k \in 1..c.files
      BY <1>2, <1>5 DEF ItemRec
    <3>. QED  BY <3>1, MaxFilesAssumption
  <2>4. New \in SUBSET Subs /\ \A q \in New : q[1] = d
    <3>1. \A j \in 1..c.files : j \in 1..MaxFiles
      BY <2>3, MaxFilesAssumption
    <3>. QED  BY <1>0, <3>1, OwnersAre DEF Subs, Ops
  <2>5. New # {}
    <3>1. <<d, "delete", 1>> \in New
      BY <2>3
    <3>. QED  BY <3>1
  <2>6. New = (Pending(d) \ {s}) \cup (IF up THEN New ELSE {})
    BY <1>1, <1>6, <1>11 DEF P
  <2>. HIDE DEF named
  <2>7. Stages(d, named, New)
    BY <2>1, <2>2 DEF Stages, Whole
  <2>8. s \in Pending(d)
    BY <1>1 DEF P
  <2>9. ItemGoesOn(d, s, named, New)
    BY <1>11
  <2>. HIDE DEF New
  <2>10. DlGoal(d)
    BY <1>0, <1>1, <2>1, <2>4, <2>5, <2>6, <2>7, <2>8, <2>9, ItemGoesOnStep DEF DlGoal
  <2>. QED  BY <1>0, <2>10
<1>. HIDE DEF named, New
<1>. QED  BY <1>0, <1>8, <1>9, <1>10, <1>11

LEMMA DelEndStep ==
  ASSUME DlPart, SubOk, NEW d, NEW k, NEW st, DelEnd(d, k, st)
  PROVE  d \in Dls /\ DlGoal(d) /\ UNCHANGED <<up, walk>>
<1>. DEFINE s == <<d, "delete", k>>
            cur == dl[d].cur
            P == Pending(d)
            c == Worst(cur, st)
            last == P = {s}
            New == {<<d, "deldir", 1>>}
<1>0. /\ d \in Dls /\ SubOver(s, st) /\ UNCHANGED <<up, walk>>
      /\ \/ ~last /\ ItemGoesOn(d, s, c, {})
         \/ last /\ c.status # "OK" /\ ItemOver(d, s, c, c.status)
         \/ last /\ ItemOver(d, s, c, "OK")
         \/ last /\ c.status = "OK" /\ ItemGoesOn(d, s, c, New)
  BY DEF DelEnd
<1>1. s \in P /\ ~Off' /\ st \in FtpStatus /\ (st = "OK" => up)
  <2>1. s[1] = d
    OBVIOUS
  <2>. QED  BY <1>0, <2>1, OverFacts
<1>2. /\ cur \in ItemRec /\ cur.kind \in Kinds
      /\ P \subseteq {<<d, "delete", j>> : j \in 1..cur.files} /\ cur.saved /\ Whole(cur)
  BY <1>0, <1>1, StageOf
<1>. HIDE DEF s, cur, P
<1>3. /\ c \in ItemRec /\ c.kind \in Kinds /\ c.files = cur.files /\ c.saved /\ Whole(c)
      /\ c.status = (IF cur.status = "OK" THEN st ELSE cur.status)
  BY <1>1, <1>2, WorstIs DEF Whole
<1>. HIDE DEF c
<1>4. c.status = "OK" => st = "OK"
  BY <1>3
<1>5. c.status \in FtpStatus /\ "OK" \in FtpStatus /\ s \in Pending(d)
  BY <1>1, <1>3 DEF ItemRec, FtpStatus, P
<1>6. CASE ~last /\ ItemGoesOn(d, s, c, {})
  <2>. DEFINE Q == P \ {s}
  <2>1. Q = (Pending(d) \ {s}) \cup (IF up THEN {} ELSE {}) /\ Q # {}
    BY <1>1, <1>6 DEF P
  <2>2. Q \subseteq {<<d, "delete", j>> : j \in 1..c.files}
    BY <1>2, <1>3
  <2>. HIDE DEF Q
  <2>3. Stages(d, c, Q)
    BY <1>3, <2>2 DEF Stages
  <2>4. {} \in SUBSET Subs /\ \A q \in {} : q[1] = d
    OBVIOUS
  <2>5. DlGoal(d)
    BY <1>0, <1>1, <1>3, <1>5, <1>6, <2>1, <2>3, <2>4, ItemGoesOnStep DEF DlGoal
  <2>. QED  BY <1>0, <2>5
<1>7. CASE last /\ c.status # "OK" /\ ItemOver(d, s, c, c.status)
  <2>1. DlGoal(d)
    BY <1>0, <1>1, <1>3, <1>5, <1>7, ItemOverStep DEF DlGoal, P
  <2>. QED  BY <1>0, <2>1
<1>8. CASE last /\ ItemOver(d, s, c, "OK")
  <2>1. DlGoal(d)
    BY <1>0, <1>1, <1>3, <1>5, <1>8, ItemOverStep DEF DlGoal, P
  <2>. QED  BY <1>0, <2>1
<1>9. CASE last /\ c.status = "OK" /\ ItemGoesOn(d, s, c, New)
  <2>1. New \in SUBSET Subs /\ \A q \in New : q[1] = d
    BY <1>0, OwnersAre, MaxFilesAssumption DEF Subs, Ops
  <2>2. New = (Pending(d) \ {s}) \cup (IF up THEN New ELSE {}) /\ New # {}
    BY <1>1, <1>4, <1>9 DEF P
  <2>3. Stages(d, c, New)
    BY <1>3 DEF Stages
  <2>. HIDE DEF New
  <2>4. DlGoal(d)
    BY <1>0, <1>1, <1>3, <1>5, <1>9, <2>1, <2>2, <2>3, ItemGoesOnStep DEF DlGoal
  <2>. QED  BY <1>0, <2>4
<1>. HIDE DEF New
<1>. QED  BY <1>0, <1>6, <1>7, <1>8, <1>9

LEMMA DelDirEndStep ==
  ASSUME DlPart, SubOk, NEW d, NEW st, DelDirEnd(d, st)
  PROVE  d \in Dls /\ DlGoal(d) /\ UNCHANGED <<up, walk>>
<1>. DEFINE s == <<d, "deldir", 1>>
            cur == dl[d].cur
            plain == [cur EXCEPT !.status = st]
            worst == Worst(cur, st)
<1>0. /\ d \in Dls /\ SubOver(s, st) /\ UNCHANGED <<up, walk>>
      /\ \E c \in {plain, worst} : ItemOver(d, s, c, c.status)
  BY DEF DelDirEnd
<1>1. s \in Pending(d) /\ ~Off' /\ st \in FtpStatus
  <2>1. s[1] = d
    OBVIOUS
  <2>. QED  BY <1>0, <2>1, OverFacts
<1>2. Pending(d) = {s} /\ cur \in ItemRec /\ cur.kind \in Kinds /\ cur.saved
  BY <1>0, <1>1, StageOf
<1>. HIDE DEF s, cur
<1>3. plain \in ItemRec /\ plain.kind \in Kinds /\ plain.saved /\ plain.status \in FtpStatus
  BY <1>1, <1>2 DEF ItemRec
<1>4. worst \in ItemRec /\ worst.kind \in Kinds /\ worst.saved /\ worst.status \in FtpStatus
  BY <1>1, <1>2, WorstIs DEF ItemRec
<1>. HIDE DEF plain, worst
<1>5. PICK c \in {plain, worst} : ItemOver(d, s, c, c.status)
  BY <1>0
<1>6. c \in ItemRec /\ c.kind \in Kinds /\ c.saved /\ c.status \in FtpStatus
  BY <1>3, <1>4
<1>7. DlGoal(d)
  BY <1>0, <1>1, <1>2, <1>5, <1>6, ItemOverStep DEF DlGoal
<1>. QED  BY <1>0, <1>7

LEMMA CanceledOk ==
  ASSUME DlPart, NEW d \in Dls, dl[d].st = "running"
  PROVE  /\ Canceled(d) \in DlRec /\ DlOk(d, Canceled(d), {})
         /\ Canceled(d).st # "running"
<1>. DEFINE x == Canceled(d)
            whole == Started(d) # {} /\ Pending(d) = Started(d)
            st == IF whole THEN "done" ELSE "lost"
            told == IF whole THEN <<"ABORTED">> ELSE << >>
<1>1. dl[d] \in DlRec /\ DlOk(d, dl[d], Pending(d))
  BY DEF DlPart
<1>2. dl[d].told = << >> /\ dl[d].count + Len(dl[d].items) = dl[d].total
  BY <1>1 DEF DlOk
<1>3. x = [dl[d] EXCEPT !.st = st, !.told = told, !.cur = NoItem]
  BY <1>2 DEF Canceled
<1>4. st \in {"done", "lost"} /\ told \in {<< >>, <<"ABORTED">>} /\ told # <<"OK">>
  OBVIOUS
<1>. HIDE DEF x, st, told
<1>5. /\ x \in DlRec /\ x.st = st /\ x.told = told /\ x.cur = NoItem
      /\ x.count = dl[d].count /\ x.items = dl[d].items /\ x.total = dl[d].total
  BY <1>1, <1>3, <1>4, NoItemType DEF DlRec
<1>6. DlOk(d, x, {})
  BY <1>2, <1>4, <1>5 DEF DlOk
<1>. QED  BY <1>4, <1>5, <1>6 DEF x

LEMMA DlCancelStep ==
  ASSUME DlPart, SubOk, NEW d \in Dls, DlCancel(d)
  PROVE  DlGoal(d)
<1>. DEFINE x == Canceled(d)
            lt == Told("CANCELED", dl[d].cur)
            L == IF dl[d].cur # NoItem /\ Pending(d) = Started(d)
                 THEN dlist[d] \cup {lt} ELSE dlist[d]
<1>1. dl[d].st = "running" /\ ~Off' /\ dl' = [dl EXCEPT ![d] = x]
      /\ sub' = After(Pending(d), {})
  BY DEF DlCancel, Off
<1>2. x \in DlRec /\ DlOk(d, x, {})
  BY <1>1, CanceledOk
<1>3. dl[d].cur \in ItemRec
  BY DEF DlPart, DlRec
<1>4. lt \in Tells /\ lt.status # "OK"
  BY <1>3 DEF Told, Tells, ItemRec, FtpStatus
<1>5. dlist' = [dlist EXCEPT ![d] = L]
  BY DEF DlCancel, CancelStatus, DlPart
<1>. HIDE DEF x, lt
<1>6. L \in SUBSET Tells /\ \A t \in L : t.status = "OK" /\ t.kind = "file" => t.saved
  BY <1>4 DEF DlPart
<1>. HIDE DEF L
<1>7. (Pending(d) \ Pending(d)) \cup (IF up THEN {} ELSE {}) = {}
  OBVIOUS
<1>8. DlOk(d, x, (Pending(d) \ Pending(d)) \cup (IF up THEN {} ELSE {}))
  BY <1>2, <1>7
<1>9. /\ {} \in SUBSET Subs /\ Pending(d) \in SUBSET Pending(d) /\ \A q \in {} : q[1] = d
      /\ dl' \in {[dl EXCEPT ![d] = x], Cleaned(d, x, TRUE), Cleaned(d, x, FALSE)}
  BY <1>1
<1>. QED  BY <1>1, <1>2, <1>5, <1>6, <1>8, <1>9, DlStep DEF DlGoal

LEMMA DlNextStep ==
  ASSUME DlPart, SubOk, DlNext
  PROVE  /\ SubOk' /\ DlPart' /\ UNCHANGED <<up, walk>>
         /\ \A o : o \notin Dls => Pending(o)' = Pending(o)
<1>. DEFINE Goal == /\ SubOk' /\ DlPart' /\ UNCHANGED <<up, walk>>
                    /\ \A o : o \notin Dls => Pending(o)' = Pending(o)
<1>1. ASSUME NEW d, d \in Dls /\ DlGoal(d) /\ UNCHANGED <<up, walk>>
      PROVE  Goal
  BY <1>1 DEF DlGoal
<1>2. ASSUME NEW d \in Dls, DlCreate(d)
      PROVE  Goal
  <2>1. UNCHANGED <<up, walk>>
    BY <1>2 DEF DlCreate
  <2>. QED  BY <1>1, <1>2, <2>1, DlCreateStep
<1>3. ASSUME NEW d \in Dls, DlCancel(d)
      PROVE  Goal
  <2>1. UNCHANGED <<up, walk>>
    BY <1>3 DEF DlCancel
  <2>. QED  BY <1>1, <1>3, <2>1, DlCancelStep
<1>4. "crashml" \in Dls /\ "flight_log" \in Dls /\ "pud" \in Dls
  BY DEF Dls
<1>. HIDE DEF Goal
<1>5. ASSUME NEW d, NEW st, MainListEnd(d, st)
      PROVE  Goal
  BY <1>1, <1>5, MainListEndStep
<1>6. ASSUME NEW d, NEW st, DirEnd(d, st)
      PROVE  Goal
  BY <1>1, <1>6, DirEndStep
<1>7. ASSUME NEW d, NEW k, NEW st, GetEnd(d, k, st)
      PROVE  Goal
  BY <1>1, <1>7, GetEndStep
<1>8. ASSUME NEW d, NEW k, NEW st, DelEnd(d, k, st)
      PROVE  Goal
  BY <1>1, <1>8, DelEndStep
<1>9. ASSUME NEW d, NEW st, DelDirEnd(d, st)
      PROVE  Goal
  BY <1>1, <1>9, DelDirEndStep
<1>10. ASSUME NEW st, DlSubEnds(st)
       PROVE  Goal
  BY <1>5, <1>6, <1>7, <1>8, <1>9, <1>10 DEF DlSubEnds, CrashmlEnds, FlightLogListEnd,
     FlightLogGetEnd, FlightLogDelEnd, PudListEnd, PudGetEnd, PudDelEnd
<1>11. Goal
  BY <1>2, <1>3, <1>4, <1>10 DEF DlNext, CrashmlCreate, FlightLogCreate, PudCreate,
     CrashmlCancel, FlightLogCancel, PudCancel
<1>. QED  BY <1>11 DEF Goal

-----------------------------------------------------------------------------
(* The uploads of files.                                                   *)
LEMMA PutsAre ==
  ASSUME NEW o \in Uploaders
  PROVE  /\ Puts(o) \in SUBSET Subs /\ \A s \in Puts(o) : s[1] = o
         /\ Puts(o) = {Md5Put(o), FilePut(o)} /\ Md5Put(o) # FilePut(o)
         /\ Md5Get \notin Puts(o) /\ Rename \notin Puts(o)
<1>1. o \in Owners /\ "put" \in Ops /\ 1 \in 1..MaxFiles /\ 2 \in 1..MaxFiles
  BY OwnersAre, MaxFilesAssumption DEF Ops
<1>2. Md5Put(o) \in Subs /\ FilePut(o) \in Subs
  BY <1>1 DEF Md5Put, FilePut, Subs
<1>3. Md5Put(o)[1] = o /\ FilePut(o)[1] = o
  BY DEF Md5Put, FilePut
<1>4. Md5Put(o) # FilePut(o)
  BY DEF Md5Put, FilePut
<1>5. Md5Get \notin Puts(o) /\ Rename \notin Puts(o)
  BY DEF Puts, Md5Put, FilePut, Md5Get, Rename
<1>. QED  BY <1>2, <1>3, <1>4, <1>5 DEF Puts

LEMMA OthersAre ==
  /\ Md5Get \in Subs /\ Md5Get[1] = "ephemeris"
  /\ Rename \in Subs /\ Rename[1] = "updater"
  /\ "ephemeris" \in Uploaders /\ "updater" \in Uploaders
<1>1. /\ "ephemeris" \in Uploaders /\ "updater" \in Uploaders
      /\ "get" \in Ops /\ "rename" \in Ops /\ 1 \in 1..MaxFiles
  BY MaxFilesAssumption DEF Ops, Uploaders
<1>. QED  BY <1>1, OwnersAre DEF Md5Get, Rename, Subs

LEMMA StoredIs ==
  ASSUME NEW o \in Uploaders, remote \in [Uploaders -> HeldRec], NEW s \in Puts(o),
         NEW st, NEW h \in Stored(s, st)
  PROVE  /\ h \in HeldRec /\ h.final = remote[o].final
         /\ st = "OK" => Copy(o, h, s) = "same"
         /\ \A p \in Puts(o) : p # s => Copy(o, h, p) = Copy(o, remote[o], p)
<1>. DEFINE R == remote[o]
<1>1. R \in HeldRec /\ s[1] = o
  BY PutsAre
<1>2. R.md5 \in Held /\ R.file \in Held /\ "same" \in Held /\ "part" \in Held
  BY <1>1 DEF HeldRec, Held
<1>3. CASE s = Md5Put(o)
  <2>1. PICK v \in (IF st = "OK" THEN {"same"} ELSE {R.md5, "part"}) : h = [R EXCEPT !.md5 = v]
    BY <1>1, <1>3 DEF Stored
  <2>2. v \in Held /\ (st = "OK" => v = "same")
    BY <1>2, <2>1
  <2>. HIDE DEF R
  <2>3. h \in HeldRec /\ h.final = R.final /\ h.md5 = v /\ h.file = R.file
    BY <1>1, <2>1, <2>2 DEF HeldRec
  <2>. QED  BY <1>3, <2>2, <2>3, PutsAre DEF Copy, R
<1>4. CASE s # Md5Put(o)
  <2>1. PICK v \in (IF st = "OK" THEN {"same"} ELSE {R.file, "part"}) : h = [R EXCEPT !.file = v]
    BY <1>1, <1>4 DEF Stored
  <2>2. v \in Held /\ (st = "OK" => v = "same")
    BY <1>2, <2>1
  <2>. HIDE DEF R
  <2>3. h \in HeldRec /\ h.final = R.final /\ h.file = v /\ h.md5 = R.md5
    BY <1>1, <2>1, <2>2 DEF HeldRec
  <2>. QED  BY <1>4, <2>2, <2>3, PutsAre DEF Copy, R
<1>. QED  BY <1>3, <1>4

LEMMA AllStoredIs ==
  ASSUME NEW o \in Uploaders, NEW Over, NEW h \in AllStored(o, Over)
  PROVE  /\ h \in HeldRec /\ h.final = remote[o].final
         /\ Md5Put(o) \notin Over /\ FilePut(o) \notin Over =>
              h.md5 = remote[o].md5 /\ h.file = remote[o].file
  BY DEF AllStored, HeldRec

LEMMA UploadStep ==
  ASSUME UploadPart, SubOk, NEW o \in Uploaders, NEW x \in ReqRec, NEW h \in HeldRec,
         NEW Over \in SUBSET Pending(o), NEW New \in SUBSET Subs,
         \A s \in New : s[1] = o, sub' = After(Over, New),
         UploadOk(o, x, h, (Pending(o) \ Over) \cup (IF up THEN New ELSE {})),
         req' = [req EXCEPT ![o] = x], remote' = [remote EXCEPT ![o] = h],
         rounds' \in [Uploaders -> 0..Rounds]
  PROVE  SubOk' /\ UploadPart' /\ \A q : q # o => Pending(q)' = Pending(q)
<1>1. /\ SubOk' /\ Pending(o)' = (Pending(o) \ Over) \cup (IF up THEN New ELSE {})
      /\ \A q : q # o => Pending(q)' = Pending(q)
  BY AfterOwn
<1>2. req' \in [Uploaders -> ReqRec] /\ remote' \in [Uploaders -> HeldRec]
  BY DEF UploadPart
<1>3. UploadOk(o, req'[o], remote'[o], Pending(o)')
  BY <1>1 DEF UploadPart
<1>4. ASSUME NEW q \in Uploaders, q # o
      PROVE  UploadOk(q, req'[q], remote'[q], Pending(q)')
  BY <1>1, <1>4 DEF UploadPart
<1>5. \A q \in Uploaders : UploadOk(q, req'[q], remote'[q], Pending(q)')
  BY <1>3, <1>4
<1>6. \A q \in Uploaders : UploadOk(q, req[q], remote[q], Pending(q))'
  BY <1>5 DEF UploadOk, Sending, Sent, Copy, Puts, Md5Put, FilePut, Md5Get, Rename
<1>. QED  BY <1>1, <1>2, <1>6 DEF UploadPart

LEMMA CompleteIs ==
  ASSUME NEW r \in ReqRec, r.told = << >>, NEW status \in FtpStatus
  PROVE  LET x == Complete(r, status)
         IN  /\ x \in ReqRec /\ x.st = "done" /\ x.told = <<status>>
             /\ x.told = <<"OK">> => status = "OK"
             /\ x.sent = r.sent /\ x.same = r.same /\ x.status = r.status
<1>. DEFINE x == Complete(r, status)
            told == <<status>>
<1>1. x = [r EXCEPT !.st = "done", !.told = told]
  BY DEF Complete
<1>2. told \in {<< >>} \cup {<<s>> : s \in FtpStatus} /\ (told = <<"OK">> => status = "OK")
  OBVIOUS
<1>3. told = <<status>>
  OBVIOUS
<1>. HIDE DEF x, told
<1>4. /\ x \in ReqRec /\ x.st = "done" /\ x.told = told
      /\ x.sent = r.sent /\ x.same = r.same /\ x.status = r.status
  BY <1>1, <1>2 DEF ReqRec
<1>. QED  BY <1>2, <1>3, <1>4 DEF x

LEMMA OverOk ==
  ASSUME NEW o, NEW x, NEW h, x.sent \subseteq Puts(o), o = "ephemeris" => ~h.final,
         x.st # "running",
         x.told = <<"OK">> /\ ~x.same => Sent(o, x, h) /\ (o = "updater" => h.final)
  PROVE  UploadOk(o, x, h, {})
  BY DEF UploadOk
LEMMA GoesOnOk ==
  ASSUME NEW o, NEW x, NEW h, NEW P, x.sent \subseteq Puts(o), o = "ephemeris" => ~h.final,
         x.st = "running", x.told = << >>, P # {},
         Sending(o, x, h, P) \/ (o = "updater" /\ P = {Rename} /\ Sent(o, x, h))
  PROVE  UploadOk(o, x, h, P)
<1>1. << >> # <<"OK">>
  OBVIOUS
<1>. QED  BY <1>1 DEF UploadOk

(* Put s of request r ended with st.                                       *)
PutEnded(r, s, st) == [r EXCEPT !.status = PutStatus(r, st),
                                !.sent = IF st = "OK" THEN @ \cup {s} ELSE @]

(* The device took it whole.                                               *)
Took(o, h0, h, s, P, Q) ==
    /\ Copy(o, h, s) = "same" /\ Q = P \ {s}
    /\ \A p \in Puts(o) : p # s => Copy(o, h, p) = Copy(o, h0, p)

PutOk(o, r, h, Q, s, st) ==
    LET status == PutStatus(r, st)
        c == PutEnded(r, s, st)
    IN  /\ c \in ReqRec /\ c.st = r.st /\ c.told = r.told /\ c.same = r.same
        /\ c.sent \subseteq Puts(o) /\ c.status = status
        /\ status \in FtpStatus /\ (status = "OK" => st = "OK" /\ r.status = "OK" /\ ~r.aborted)
        /\ Sending(o, c, h, Q)
        /\ status = "OK" /\ Q = {} => Sent(o, c, h)

(* What is still sent then, and what is on the device.                     *)
LEMMA PutOver ==
  ASSUME NEW o \in Uploaders, NEW r \in ReqRec, NEW h0, NEW h, NEW P, NEW Q \in SUBSET P,
         NEW s \in Puts(o), NEW st \in FtpStatus, r.sent \subseteq Puts(o), Sending(o, r, h0, P),
         st = "OK" => Took(o, h0, h, s, P, Q)
  PROVE  PutOk(o, r, h, Q, s, st)
<1>. DEFINE status == PutStatus(r, st)
            sent == IF st = "OK" THEN r.sent \cup {s} ELSE r.sent
            c == PutEnded(r, s, st)
<1>1. status \in FtpStatus /\ (status = "OK" => st = "OK" /\ r.status = "OK" /\ ~r.aborted)
  BY DEF PutStatus, FtpStatus, ReqRec
<1>2. sent \subseteq Puts(o) /\ sent \in SUBSET Subs
  BY PutsAre
<1>3. c = [r EXCEPT !.status = status, !.sent = sent]
  BY DEF PutEnded
<1>. HIDE DEF c, status
<1>4. /\ c \in ReqRec /\ c.st = r.st /\ c.told = r.told /\ c.same = r.same
      /\ c.sent = sent /\ c.status = status
  <2>. HIDE DEF sent
  <2>. QED  BY <1>1, <1>2, <1>3 DEF ReqRec
<1>5. ASSUME status = "OK", NEW p \in Puts(o)
      PROVE  p \in Q \/ (p \in sent /\ Copy(o, h, p) = "same")
  <2>1. /\ st = "OK" /\ r.status = "OK" /\ Q = P \ {s}
        /\ p # s => Copy(o, h, p) = Copy(o, h0, p)
        /\ Copy(o, h, s) = "same"
    BY <1>1, <1>5 DEF Took
  <2>2. p \in P \/ (p \in r.sent /\ Copy(o, h0, p) = "same")
    BY <2>1 DEF Sending
  <2>. QED  BY <2>1, <2>2
<1>6. Sending(o, c, h, Q)
  <2>. HIDE DEF sent
  <2>. QED  BY <1>4, <1>5 DEF Sending
<1>7. ASSUME status = "OK", Q = {}
      PROVE  Sent(o, c, h)
  <2>1. \A p \in Puts(o) : p \in sent /\ Copy(o, h, p) = "same"
    BY <1>5, <1>7
  <2>2. Copy(o, h, Md5Put(o)) = "same" /\ Copy(o, h, FilePut(o)) = "same"
    BY <2>1, PutsAre
  <2>3. h.md5 = "same" /\ h.file = "same"
    BY <2>2, PutsAre DEF Copy
  <2>4. sent = Puts(o)
    BY <1>2, <2>1
  <2>. HIDE DEF sent
  <2>. QED  BY <1>4, <2>3, <2>4 DEF Sent
<1>. QED  BY <1>1, <1>2, <1>4, <1>6, <1>7 DEF c, status, PutOk

UpGoal(o) == SubOk' /\ UploadPart' /\ \A q : q # o => Pending(q)' = Pending(q)

LEMMA UploadFacts ==
  ASSUME UploadPart, NEW o \in Uploaders
  PROVE  /\ req[o] \in ReqRec /\ remote[o] \in HeldRec
         /\ UploadOk(o, req[o], remote[o], Pending(o))
         /\ rounds \in [Uploaders -> 0..Rounds]
         /\ req = [req EXCEPT ![o] = req[o]] /\ remote = [remote EXCEPT ![o] = remote[o]]
  BY DEF UploadPart

LEMMA CreateStep ==
  ASSUME UploadPart, SubOk, NEW o \in Uploaders, NEW New \in SUBSET Subs,
         \A s \in New : s[1] = o, New # {},
         New = Puts(o) \/ (o = "ephemeris" /\ New = {Md5Get}), Create(o, New)
  PROVE  UpGoal(o)
<1>. DEFINE x == [NoReq EXCEPT !.st = "running", !.running = TRUE]
            h == remote[o]
<1>1. /\ up /\ Pending(o) = {} /\ rounds[o] < Rounds /\ sub' = After({}, New)
      /\ req' = [req EXCEPT ![o] = x] /\ remote' = remote
      /\ rounds' = [rounds EXCEPT ![o] = @ + 1]
  BY DEF Create
<1>2. rounds' \in [Uploaders -> 0..Rounds]
  <2>1. rounds[o] + 1 \in 0..Rounds
    BY <1>1, UploadFacts, RoundsAssumption
  <2>. QED  BY <1>1, <2>1, UploadFacts
<1>3. /\ x \in ReqRec /\ x.st = "running" /\ x.told = << >> /\ x.status = "OK"
      /\ x.sent = {}
  BY DEF NoReq, ReqRec, FtpStatus
<1>4. h \in HeldRec /\ remote' = [remote EXCEPT ![o] = h] /\ (o = "ephemeris" => ~h.final)
  BY <1>1, UploadFacts DEF UploadOk
<1>. HIDE DEF x, h
<1>5. UploadOk(o, x, h, New)
  BY <1>3, <1>4 DEF UploadOk, Sending
<1>6. UploadOk(o, x, h, (Pending(o) \ {}) \cup (IF up THEN New ELSE {}))
  <2>1. (Pending(o) \ {}) \cup (IF up THEN New ELSE {}) = New
    BY <1>1
  <2>. QED  BY <1>5, <2>1
<1>7. {} \in SUBSET Pending(o)
  OBVIOUS
<1>. QED  BY <1>1, <1>2, <1>3, <1>4, <1>6, <1>7, UploadStep DEF UpGoal

LEMMA Md5GetEndStep ==
  ASSUME UploadPart, SubOk, NEW st, Md5GetEnd(st)
  PROVE  UpGoal("ephemeris") /\ UNCHANGED <<up, walk>>
<1>. DEFINE o == "ephemeris"
            r == req[o]
            same == st = "OK" /\ remote[o].md5 = "same"
            y == [r EXCEPT !.same = TRUE]
            h == remote[o]
<1>11. PICK opens \in {FALSE, up} :
         /\ req' = [req EXCEPT ![o] = IF same THEN Complete(y, "OK") ELSE PutFiles(r, opens)]
         /\ sub' = After({Md5Get}, IF same \/ ~opens THEN {} ELSE Puts(o))
  BY DEF Md5GetEnd
<1>. DEFINE New == IF same \/ ~opens THEN {} ELSE Puts(o)
            x == IF same THEN Complete(y, "OK") ELSE PutFiles(r, opens)
<1>0. /\ SubOver(Md5Get, st) /\ req' = [req EXCEPT ![o] = x] /\ sub' = After({Md5Get}, New)
      /\ UNCHANGED <<remote, rounds>> /\ UNCHANGED <<up, walk>>
  BY <1>11 DEF Md5GetEnd
<1>1. Md5Get \in Pending(o) /\ (st = "OK" => up)
  BY <1>0, OverFacts, OthersAre
<1>2. /\ o \in Uploaders /\ r \in ReqRec /\ h \in HeldRec /\ UploadOk(o, r, h, Pending(o))
      /\ rounds \in [Uploaders -> 0..Rounds] /\ remote = [remote EXCEPT ![o] = h]
  BY UploadFacts, OthersAre
<1>3. /\ r.st = "running" /\ r.told = << >> /\ Pending(o) = {Md5Get} /\ ~h.final
      /\ r.sent \subseteq Puts(o)
  BY <1>1, <1>2, PutsAre DEF UploadOk, Sending
<1>4. New \in SUBSET Subs /\ \A s \in New : s[1] = o
  BY <1>2, PutsAre
<1>5. "OK" \in FtpStatus /\ "FAILED" \in FtpStatus
  BY DEF FtpStatus
<1>6. x \in ReqRec /\ UploadOk(o, x, h, IF up THEN New ELSE {})
  <2>1. CASE same
    <3>1. y \in ReqRec /\ y.told = << >> /\ y.sent = r.sent /\ y.same = TRUE
      <4>. DEFINE z == y
      <4>1. z = [r EXCEPT !.same = TRUE]
        OBVIOUS
      <4>. HIDE DEF z, r
      <4>2. z \in ReqRec /\ z.told = r.told /\ z.sent = r.sent /\ z.same = TRUE
        BY <1>2, <4>1 DEF ReqRec
      <4>. QED  BY <1>3, <4>2 DEF z
    <3>. HIDE DEF y, r, h
    <3>2. x \in ReqRec /\ x.st = "done" /\ x.sent = r.sent /\ x.same = TRUE
      BY <1>5, <2>1, <3>1, CompleteIs
    <3>3. (IF up THEN New ELSE {}) = {}
      BY <2>1
    <3>. HIDE DEF x, New
    <3>. QED  BY <1>3, <3>2, <3>3 DEF UploadOk
  <2>2. CASE ~same /\ opens
    <3>1. x = r /\ (IF up THEN New ELSE {}) = Puts(o)
      BY <1>11, <2>2 DEF PutFiles
    <3>2. Puts(o) # {}
      BY <1>2, PutsAre
    <3>3. Sending(o, r, h, Puts(o))
      BY DEF Sending
    <3>. HIDE DEF x, r, h
    <3>. QED  BY <1>2, <1>3, <3>1, <3>2, <3>3 DEF UploadOk
  <2>3. CASE ~same /\ ~opens
    <3>1. x = Complete(r, "FAILED") /\ (IF up THEN New ELSE {}) = {}
      BY <2>3 DEF PutFiles
    <3>. HIDE DEF x, r, h
    <3>2. x \in ReqRec /\ x.st = "done" /\ x.told # <<"OK">> /\ x.sent = r.sent
      BY <1>2, <1>3, <1>5, <3>1, CompleteIs
    <3>. QED  BY <1>3, <3>1, <3>2 DEF UploadOk
  <2>. QED  BY <2>1, <2>2, <2>3
<1>. HIDE DEF New, x, h, r
<1>7. (Pending(o) \ {Md5Get}) \cup (IF up THEN New ELSE {}) = IF up THEN New ELSE {}
  BY <1>3
<1>8. UploadOk(o, x, h, (Pending(o) \ {Md5Get}) \cup (IF up THEN New ELSE {}))
  BY <1>6, <1>7
<1>9. /\ {Md5Get} \in SUBSET Pending(o) /\ sub' = After({Md5Get}, New)
      /\ req' = [req EXCEPT ![o] = x] /\ remote' = [remote EXCEPT ![o] = h]
      /\ rounds' \in [Uploaders -> 0..Rounds]
  BY <1>0, <1>1, <1>2
<1>10. UpGoal(o)
  BY <1>2, <1>4, <1>6, <1>8, <1>9, UploadStep DEF UpGoal
<1>. QED  BY <1>0, <1>10

LEMMA EphemerisPutEndStep ==
  ASSUME UploadPart, SubOk, NEW s, NEW st, EphemerisPutEnd(s, st)
  PROVE  UpGoal("ephemeris") /\ UNCHANGED <<up, walk>>
<1>. DEFINE o == "ephemeris"
            r == req[o]
            P == Pending(o)
            Q == P \ {s}
            status == PutStatus(r, st)
            c == PutEnded(r, s, st)
            x == IF P = {s} THEN Complete(c, status) ELSE c
<1>0. /\ s \in Puts(o) /\ SubOver(s, st) /\ req' = [req EXCEPT ![o] = x]
      /\ sub' = After({s}, {}) /\ UNCHANGED rounds /\ UNCHANGED <<up, walk>>
  BY DEF EphemerisPutEnd, PutEnded
<1>1. PICK h \in Stored(s, st) : remote' = [remote EXCEPT ![o] = h]
  BY DEF EphemerisPutEnd
<1>2. /\ o \in Uploaders /\ r \in ReqRec /\ UploadOk(o, r, remote[o], P)
      /\ remote \in [Uploaders -> HeldRec] /\ rounds \in [Uploaders -> 0..Rounds]
  BY UploadFacts, OthersAre DEF UploadPart
<1>3. s \in P /\ st \in FtpStatus
  <2>1. s[1] = o
    BY <1>0, <1>2, PutsAre
  <2>. QED  BY <1>0, <2>1, OverFacts
<1>4. /\ r.st = "running" /\ r.told = << >> /\ ~remote[o].final /\ r.sent \subseteq Puts(o)
      /\ Sending(o, r, remote[o], P)
  BY <1>0, <1>2, <1>3, PutsAre DEF UploadOk
<1>5. /\ h \in HeldRec /\ h.final = remote[o].final
      /\ st = "OK" => Copy(o, h, s) = "same"
      /\ \A p \in Puts(o) : p # s => Copy(o, h, p) = Copy(o, remote[o], p)
  BY <1>0, <1>1, <1>2, StoredIs
<1>. HIDE DEF r, P
<1>6. /\ c \in ReqRec /\ c.st = r.st /\ c.told = r.told /\ c.same = r.same
      /\ c.sent \subseteq Puts(o) /\ c.status = status /\ status \in FtpStatus
      /\ Sending(o, c, h, Q) /\ (status = "OK" /\ Q = {} => Sent(o, c, h))
  <2>. DEFINE h0 == remote[o]
  <2>1. /\ Q \in SUBSET P /\ s \in Puts(o) /\ o \in Uploaders /\ r \in ReqRec
        /\ st \in FtpStatus /\ r.sent \subseteq Puts(o) /\ Sending(o, r, h0, P)
        /\ st = "OK" => Took(o, h0, h, s, P, Q)
    BY <1>0, <1>2, <1>3, <1>4, <1>5 DEF Took
  <2>. HIDE DEF Q, h0
  <2>2. st = "OK" => Took(o, h0, h, s, P, Q)
    BY <2>1
  <2>. HIDE DEF o
  <2>3. PutOk(o, r, h, Q, s, st)
    BY <2>1, <2>2, PutOver
  <2>. USE DEF o
  <2>. QED  BY <2>3 DEF PutOk
<1>. HIDE DEF c, status
<1>7. x \in ReqRec /\ UploadOk(o, x, h, Q)
  <2>1. CASE P = {s}
    <3>1. x = Complete(c, status)
      BY <2>1
    <3>. HIDE DEF x
    <3>2. /\ x \in ReqRec /\ x.st = "done" /\ (x.told = <<"OK">> => status = "OK")
          /\ x.sent = c.sent
      BY <1>4, <1>6, <3>1, CompleteIs
    <3>3. Q = {}
      BY <2>1
    <3>4. Sent(o, c, h) => Sent(o, x, h)
      BY <3>2 DEF Sent
    <3>5. /\ x.sent \subseteq Puts(o) /\ ~h.final /\ x.st # "running" /\ o # "updater"
          /\ x.told = <<"OK">> => Sent(o, x, h)
      BY <1>4, <1>5, <1>6, <3>2, <3>3, <3>4
    <3>. HIDE DEF Q
    <3>. QED  BY <3>2, <3>3, <3>5, OverOk
  <2>2. CASE P # {s}
    <3>1. x = c /\ Q # {}
      BY <1>3, <2>2
    <3>. HIDE DEF x, Q
    <3>2. /\ x.sent \subseteq Puts(o) /\ ~h.final /\ x.st = "running" /\ x.told = << >>
          /\ Sending(o, x, h, Q) /\ x \in ReqRec
      BY <1>4, <1>5, <1>6, <3>1
    <3>. QED  BY <3>1, <3>2, GoesOnOk
  <2>. QED  BY <2>1, <2>2
<1>8. UploadOk(o, x, h, (Pending(o) \ {s}) \cup (IF up THEN {} ELSE {}))
  <2>1. Q = (Pending(o) \ {s}) \cup (IF up THEN {} ELSE {})
    BY DEF P
  <2>. HIDE DEF x, Q
  <2>. QED  BY <1>7, <2>1
<1>. HIDE DEF x
<1>9. /\ {s} \in SUBSET Pending(o) /\ {} \in SUBSET Subs /\ (\A q \in {} : q[1] = o)
      /\ sub' = After({s}, {}) /\ req' = [req EXCEPT ![o] = x]
      /\ rounds' \in [Uploaders -> 0..Rounds] /\ h \in HeldRec /\ x \in ReqRec
  BY <1>0, <1>2, <1>3, <1>5, <1>7 DEF P
<1>10. UpGoal(o)
  BY <1>1, <1>2, <1>8, <1>9, UploadStep DEF UpGoal
<1>. QED  BY <1>0, <1>10

LEMMA EphemerisCancelStep ==
  ASSUME UploadPart, SubOk, EphemerisCancel
  PROVE  UpGoal("ephemeris") /\ UNCHANGED <<up, walk>>
<1>. DEFINE o == "ephemeris"
            r == req[o]
            Over == Started(o)
            whole == Over # {} /\ Pending(o) = Over
            status == IF r.status # "OK" THEN r.status ELSE "CANCELED"
            y == Complete(r, status)
            x == IF whole THEN [y EXCEPT !.running = FALSE]
                 ELSE [r EXCEPT !.st = "lost", !.running = FALSE]
<1>0. /\ r.st = "running" /\ req' = [req EXCEPT ![o] = x] /\ sub' = After(Pending(o), {})
      /\ UNCHANGED rounds /\ UNCHANGED <<up, walk>>
      /\ remote' \in {[remote EXCEPT ![o] = h] : h \in AllStored(o, Over)}
  BY DEF EphemerisCancel
<1>1. PICK h \in AllStored(o, Over) : remote' = [remote EXCEPT ![o] = h]
  BY <1>0
<1>2. /\ o \in Uploaders /\ r \in ReqRec /\ UploadOk(o, r, remote[o], Pending(o))
      /\ rounds \in [Uploaders -> 0..Rounds]
  BY UploadFacts, OthersAre
<1>3. r.told = << >> /\ ~remote[o].final /\ r.sent \subseteq Puts(o)
  BY <1>0, <1>2 DEF UploadOk
<1>4. h \in HeldRec /\ ~h.final
  BY <1>1, <1>2, <1>3, AllStoredIs
<1>5. status \in FtpStatus /\ status # "OK"
  BY <1>2 DEF ReqRec, FtpStatus
<1>. HIDE DEF r, status, Over
<1>6. /\ y \in ReqRec /\ y.st = "done" /\ y.told # <<"OK">> /\ y.sent = r.sent
  BY <1>2, <1>3, <1>5, CompleteIs
<1>. HIDE DEF y
<1>7. x \in ReqRec /\ x.st # "running" /\ x.told # <<"OK">> /\ x.sent = r.sent
  <2>1. CASE whole
    <3>1. x = [y EXCEPT !.running = FALSE]
      BY <2>1
    <3>. HIDE DEF x
    <3>. QED  BY <1>6, <3>1 DEF ReqRec
  <2>2. CASE ~whole
    <3>1. x = [r EXCEPT !.st = "lost", !.running = FALSE]
      BY <2>2
    <3>. HIDE DEF x
    <3>2. x \in ReqRec /\ x.st = "lost" /\ x.told = r.told /\ x.sent = r.sent
      BY <1>2, <3>1 DEF ReqRec
    <3>3. << >> # <<"OK">>
      OBVIOUS
    <3>. QED  BY <1>3, <3>2, <3>3
  <2>. QED  BY <2>1, <2>2
<1>. HIDE DEF x
<1>8. UploadOk(o, x, h, {})
  BY <1>3, <1>4, <1>7, OverOk
<1>9. (Pending(o) \ Pending(o)) \cup (IF up THEN {} ELSE {}) = {}
  OBVIOUS
<1>10. UploadOk(o, x, h, (Pending(o) \ Pending(o)) \cup (IF up THEN {} ELSE {}))
  BY <1>8, <1>9
<1>11. /\ Pending(o) \in SUBSET Pending(o) /\ {} \in SUBSET Subs /\ (\A q \in {} : q[1] = o)
       /\ sub' = After(Pending(o), {}) /\ req' = [req EXCEPT ![o] = x]
       /\ rounds' \in [Uploaders -> 0..Rounds]
  BY <1>0, <1>2
<1>12. UpGoal(o)
  BY <1>1, <1>2, <1>4, <1>7, <1>10, <1>11, UploadStep DEF UpGoal
<1>. QED  BY <1>0, <1>12

LEMMA RenameEndStep ==
  ASSUME UploadPart, SubOk, NEW st, RenameEnd(st)
  PROVE  UpGoal("updater") /\ UNCHANGED <<up, walk>>
<1>. DEFINE o == "updater"
            r == req[o]
            y == [r EXCEPT !.status = st]
            x == Complete(y, st)
            h == [remote[o] EXCEPT !.final = @ \/ st = "OK"]
<1>0. /\ SubOver(Rename, st) /\ req' = [req EXCEPT ![o] = x] /\ sub' = After({Rename}, {})
      /\ remote' = [remote EXCEPT ![o] = h] /\ UNCHANGED rounds /\ UNCHANGED <<up, walk>>
  BY DEF RenameEnd
<1>1. Rename \in Pending(o) /\ st \in FtpStatus
  BY <1>0, OverFacts, OthersAre
<1>2. /\ o \in Uploaders /\ r \in ReqRec /\ remote[o] \in HeldRec
      /\ UploadOk(o, r, remote[o], Pending(o)) /\ rounds \in [Uploaders -> 0..Rounds]
  BY UploadFacts, OthersAre
<1>3. /\ r.st = "running" /\ r.told = << >> /\ Pending(o) = {Rename} /\ Sent(o, r, remote[o])
      /\ r.sent \subseteq Puts(o)
  BY <1>1, <1>2, PutsAre DEF UploadOk, Sending
<1>4. /\ h \in HeldRec /\ h.md5 = remote[o].md5 /\ h.file = remote[o].file
      /\ st = "OK" => h.final
  <2>. DEFINE R == remote[o]
              f == R.final \/ st = "OK"
              z == h
  <2>1. z = [R EXCEPT !.final = f]
    OBVIOUS
  <2>2. f \in BOOLEAN /\ (st = "OK" => f)
    BY <1>2 DEF HeldRec
  <2>. HIDE DEF z, f
  <2>3. z \in HeldRec /\ z.md5 = R.md5 /\ z.file = R.file /\ z.final = f
    <3>. HIDE DEF R
    <3>. QED  BY <1>2, <2>1, <2>2 DEF HeldRec, R
  <2>. QED  BY <2>2, <2>3 DEF z
<1>. HIDE DEF r, h
<1>5. y \in ReqRec /\ y.told = << >> /\ y.sent = r.sent
  <2>. DEFINE z == y
  <2>1. z = [r EXCEPT !.status = st]
    OBVIOUS
  <2>. HIDE DEF z
  <2>2. z \in ReqRec /\ z.told = r.told /\ z.sent = r.sent
    BY <1>1, <1>2, <2>1 DEF ReqRec
  <2>. QED  BY <1>3, <2>2 DEF z
<1>. HIDE DEF y
<1>6. /\ x \in ReqRec /\ x.st = "done" /\ (x.told = <<"OK">> => st = "OK") /\ x.sent = r.sent
  BY <1>1, <1>5, CompleteIs
<1>. HIDE DEF x
<1>7. UploadOk(o, x, h, {})
  BY <1>3, <1>4, <1>6 DEF UploadOk, Sent
<1>8. (Pending(o) \ {Rename}) \cup (IF up THEN {} ELSE {}) = {}
  BY <1>3
<1>9. UploadOk(o, x, h, (Pending(o) \ {Rename}) \cup (IF up THEN {} ELSE {}))
  BY <1>7, <1>8
<1>10. /\ {Rename} \in SUBSET Pending(o) /\ {} \in SUBSET Subs /\ (\A q \in {} : q[1] = o)
       /\ sub' = After({Rename}, {}) /\ req' = [req EXCEPT ![o] = x]
       /\ remote' = [remote EXCEPT ![o] = h] /\ rounds' \in [Uploaders -> 0..Rounds]
  BY <1>0, <1>1, <1>2
<1>11. UpGoal(o)
  BY <1>2, <1>4, <1>6, <1>9, <1>10, UploadStep DEF UpGoal
<1>. QED  BY <1>0, <1>11


LEMMA UpdaterPutEndStep ==
  ASSUME UploadPart, SubOk, NEW s, NEW st, UpdaterPutEnd(s, st)
  PROVE  UpGoal("updater") /\ UNCHANGED <<up, walk>>
<1>. DEFINE o == "updater"
            r == req[o]
            P == Pending(o)
            first == r.status = "OK" /\ ~r.aborted /\ st # "OK"
            Other == IF first THEN Started(o) \ {s} ELSE {}
            Over == {s} \cup Other
            Q == P \ Over
            status == PutStatus(r, st)
            New == IF Q = {} /\ status = "OK" THEN {Rename} ELSE {}
            c == PutEnded(r, s, st)
            x == IF Q # {} THEN c
                 ELSE IF status # "OK" THEN Complete(c, status)
                 ELSE IF ~up THEN Complete(c, "FAILED") ELSE c
            Held2(h, g) == IF Other = {} THEN h
                           ELSE IF s = Md5Put(o) THEN [h EXCEPT !.file = g.file]
                           ELSE [h EXCEPT !.md5 = g.md5]
<1>0. /\ s \in Puts(o) /\ SubOver(s, st) /\ req' = [req EXCEPT ![o] = x]
      /\ sub' = After(Over, New) /\ UNCHANGED rounds /\ UNCHANGED <<up, walk>>
  BY DEF UpdaterPutEnd, PutEnded
<1>1. PICK h \in Stored(s, st), g \in AllStored(o, Other) :
        remote' = [remote EXCEPT ![o] = Held2(h, g)]
  BY DEF UpdaterPutEnd
<1>2. /\ o \in Uploaders /\ r \in ReqRec /\ UploadOk(o, r, remote[o], P)
      /\ remote \in [Uploaders -> HeldRec] /\ rounds \in [Uploaders -> 0..Rounds]
  BY UploadFacts, OthersAre DEF UploadPart
<1>3. s \in P /\ st \in FtpStatus /\ (st = "OK" => up) /\ s[1] = o
  <2>1. s[1] = o
    BY <1>0, <1>2, PutsAre
  <2>. QED  BY <1>0, <2>1, OverFacts
<1>4. /\ r.st = "running" /\ r.told = << >> /\ r.sent \subseteq Puts(o)
      /\ Sending(o, r, remote[o], P)
  BY <1>0, <1>2, <1>3, PutsAre DEF UploadOk
<1>5. /\ h \in HeldRec
      /\ st = "OK" => Copy(o, h, s) = "same"
      /\ \A p \in Puts(o) : p # s => Copy(o, h, p) = Copy(o, remote[o], p)
  BY <1>0, <1>1, <1>2, StoredIs
<1>6. g \in HeldRec
  BY <1>1, <1>2, AllStoredIs
<1>7. Over \in SUBSET P /\ (st = "OK" => Other = {} /\ Q = P \ {s}) /\ Q \in SUBSET P
  BY <1>3 DEF Started
<1>8. New \in SUBSET Subs /\ \A q \in New : q[1] = o
  BY OthersAre
<1>. HIDE DEF r, P, Other, Q
<1>. DEFINE k == Held2(h, g)
<1>9. k \in HeldRec /\ (st = "OK" => k = h)
  BY <1>5, <1>6, <1>7 DEF HeldRec
<1>. HIDE DEF k
<1>10. remote' = [remote EXCEPT ![o] = k]
  BY <1>1 DEF k
<1>. HIDE DEF Held2
<1>11. PutOk(o, r, k, Q, s, st)
  <2>. DEFINE h0 == remote[o]
  <2>1. /\ Q \in SUBSET P /\ s \in Puts(o) /\ o \in Uploaders /\ r \in ReqRec
        /\ st \in FtpStatus /\ r.sent \subseteq Puts(o) /\ Sending(o, r, h0, P)
    BY <1>0, <1>2, <1>3, <1>4, <1>7
  <2>2. st = "OK" => Took(o, h0, k, s, P, Q)
    BY <1>5, <1>7, <1>9 DEF Took
  <2>. HIDE DEF o, h0
  <2>. QED  BY <2>1, <2>2, PutOver
<1>12. /\ c \in ReqRec /\ c.st = "running" /\ c.told = << >> /\ c.sent \subseteq Puts(o)
       /\ status \in FtpStatus /\ Sending(o, c, k, Q) /\ (status = "OK" => st = "OK")
       /\ status = "OK" /\ Q = {} => Sent(o, c, k)
  BY <1>4, <1>11 DEF PutOk
<1>. HIDE DEF c, status
<1>. DEFINE Left == Q \cup (IF up THEN New ELSE {})
<1>13. x \in ReqRec /\ UploadOk(o, x, k, Left)
  <2>1. CASE Q # {}
    <3>1. x = c /\ Left = Q
      BY <2>1
    <3>. HIDE DEF x, Left
    <3>2. /\ x.sent \subseteq Puts(o) /\ o # "ephemeris" /\ x.st = "running" /\ x.told = << >>
          /\ Q # {} /\ Sending(o, x, k, Q) /\ x \in ReqRec
      BY <1>12, <2>1, <3>1
    <3>. QED  BY <3>1, <3>2, GoesOnOk
  <2>2. CASE Q = {} /\ status # "OK"
    <3>1. x = Complete(c, status) /\ Left = {}
      BY <2>2
    <3>. HIDE DEF x, Left
    <3>2. /\ x \in ReqRec /\ x.st = "done" /\ (x.told = <<"OK">> => status = "OK")
          /\ x.sent = c.sent
      BY <1>12, <3>1, CompleteIs
    <3>3. x.sent \subseteq Puts(o) /\ x.told # <<"OK">> /\ x.st # "running" /\ o # "ephemeris"
      BY <1>12, <2>2, <3>2
    <3>. QED  BY <3>1, <3>2, <3>3, OverOk
  <2>3. CASE Q = {} /\ status = "OK"
    <3>1. x = c /\ Left = {Rename}
      BY <1>3, <1>12, <2>3
    <3>. HIDE DEF x, Left
    <3>2. /\ x.sent \subseteq Puts(o) /\ o # "ephemeris" /\ x.st = "running" /\ x.told = << >>
          /\ Left # {} /\ o = "updater" /\ Left = {Rename} /\ Sent(o, x, k) /\ x \in ReqRec
      BY <1>12, <2>3, <3>1
    <3>. QED  BY <3>2, GoesOnOk
  <2>. QED  BY <2>1, <2>2, <2>3
<1>14. UploadOk(o, x, k, (Pending(o) \ Over) \cup (IF up THEN New ELSE {}))
  <2>1. Left = (Pending(o) \ Over) \cup (IF up THEN New ELSE {})
    BY DEF P, Q
  <2>. HIDE DEF x, Left
  <2>. QED  BY <1>13, <2>1
<1>. HIDE DEF x, New, Over
<1>15. /\ Over \in SUBSET Pending(o) /\ sub' = After(Over, New)
       /\ req' = [req EXCEPT ![o] = x] /\ remote' = [remote EXCEPT ![o] = k]
       /\ rounds' \in [Uploaders -> 0..Rounds] /\ k \in HeldRec /\ x \in ReqRec
  BY <1>0, <1>2, <1>7, <1>9, <1>10, <1>13 DEF P
<1>16. UpGoal(o)
  BY <1>2, <1>8, <1>14, <1>15, UploadStep DEF UpGoal
<1>. QED  BY <1>0, <1>16

LEMMA UpdaterCancelStep ==
  ASSUME UploadPart, SubOk, UpdaterCancel
  PROVE  UpGoal("updater") /\ UNCHANGED <<up, walk>>
<1>. DEFINE o == "updater"
            r == req[o]
            P == Pending(o)
            Over == Started(o)
            Q == P \ Over
            status == IF Rename \in Over THEN "CANCELED" ELSE PutStatus(r, "CANCELED")
            c == [r EXCEPT !.status = status]
            x == IF P = Over THEN Complete(c, status) ELSE c
<1>0. /\ r.st = "running" /\ req' = [req EXCEPT ![o] = x] /\ sub' = After(Over, {})
      /\ Over # {} /\ UNCHANGED rounds /\ UNCHANGED <<up, walk>>
      /\ remote' \in {[remote EXCEPT ![o] = h] : h \in AllStored(o, Over)}
  BY DEF UpdaterCancel
<1>1. PICK h \in AllStored(o, Over) : remote' = [remote EXCEPT ![o] = h]
  BY <1>0
<1>2. /\ o \in Uploaders /\ r \in ReqRec /\ UploadOk(o, r, remote[o], P)
      /\ rounds \in [Uploaders -> 0..Rounds]
  BY UploadFacts, OthersAre
<1>3. r.told = << >> /\ r.sent \subseteq Puts(o) /\ (P \subseteq Puts(o) \/ P = {Rename})
  BY <1>0, <1>2 DEF UploadOk, Sending
<1>4. h \in HeldRec
  BY <1>1, <1>2, AllStoredIs
<1>5. status \in FtpStatus /\ status # "OK"
  BY <1>2 DEF ReqRec, FtpStatus, PutStatus
<1>6. Over \in SUBSET P
  BY DEF Started
<1>. HIDE DEF r, P, status, Over
<1>7. /\ c \in ReqRec /\ c.st = "running" /\ c.told = << >> /\ c.sent = r.sent
      /\ c.status = status
  <2>. DEFINE z == c
  <2>1. z = [r EXCEPT !.status = status]
    OBVIOUS
  <2>. HIDE DEF z
  <2>2. z \in ReqRec /\ z.st = r.st /\ z.told = r.told /\ z.sent = r.sent /\ z.status = status
    BY <1>2, <1>5, <2>1 DEF ReqRec
  <2>. QED  BY <1>0, <1>3, <2>2 DEF z
<1>. HIDE DEF c
<1>8. x \in ReqRec /\ UploadOk(o, x, h, Q)
  <2>1. CASE P = Over
    <3>1. x = Complete(c, status) /\ Q = {}
      BY <2>1
    <3>. HIDE DEF x, Q
    <3>2. /\ x \in ReqRec /\ x.st = "done" /\ (x.told = <<"OK">> => status = "OK")
          /\ x.sent = c.sent
      BY <1>5, <1>7, <3>1, CompleteIs
    <3>3. x.sent \subseteq Puts(o) /\ x.told # <<"OK">> /\ x.st # "running" /\ o # "ephemeris"
      BY <1>3, <1>5, <1>7, <3>2
    <3>. QED  BY <3>1, <3>2, <3>3, OverOk
  <2>2. CASE P # Over
    <3>1. x = c /\ Q # {} /\ Q \subseteq Puts(o)
      BY <1>0, <1>3, <1>6, <2>2
    <3>. HIDE DEF x, Q
    <3>2. Sending(o, x, h, Q)
      BY <1>5, <1>7, <3>1 DEF Sending
    <3>3. /\ x.sent \subseteq Puts(o) /\ o # "ephemeris" /\ x.st = "running" /\ x.told = << >>
          /\ x \in ReqRec
      BY <1>3, <1>7, <3>1
    <3>. QED  BY <3>1, <3>2, <3>3, GoesOnOk
  <2>. QED  BY <2>1, <2>2
<1>9. UploadOk(o, x, h, (Pending(o) \ Over) \cup (IF up THEN {} ELSE {}))
  <2>1. Q = (Pending(o) \ Over) \cup (IF up THEN {} ELSE {})
    BY DEF P
  <2>. HIDE DEF x, Q
  <2>. QED  BY <1>8, <2>1
<1>. HIDE DEF x
<1>10. /\ Over \in SUBSET Pending(o) /\ {} \in SUBSET Subs /\ (\A q \in {} : q[1] = o)
       /\ sub' = After(Over, {}) /\ req' = [req EXCEPT ![o] = x]
       /\ rounds' \in [Uploaders -> 0..Rounds] /\ x \in ReqRec
  BY <1>0, <1>2, <1>6, <1>8 DEF P
<1>11. UpGoal(o)
  BY <1>1, <1>2, <1>4, <1>9, <1>10, UploadStep DEF UpGoal
<1>. QED  BY <1>0, <1>11

LEMMA UploadNextStep ==
  ASSUME UploadPart, SubOk, UploadNext
  PROVE  /\ SubOk' /\ UploadPart' /\ UNCHANGED <<up, walk>>
         /\ \A o : o \notin Uploaders => Pending(o)' = Pending(o)
<1>. DEFINE Goal == /\ SubOk' /\ UploadPart' /\ UNCHANGED <<up, walk>>
                    /\ \A o : o \notin Uploaders => Pending(o)' = Pending(o)
<1>1. ASSUME NEW o, o \in Uploaders /\ UpGoal(o) /\ UNCHANGED <<up, walk>>
      PROVE  Goal
  BY <1>1 DEF UpGoal
<1>. HIDE DEF Goal
<1>2. ASSUME EphemerisCreate
      PROVE  Goal
  <2>1. UpGoal("ephemeris")
    <3>1. {Md5Get} \in SUBSET Subs /\ (\A s \in {Md5Get} : s[1] = "ephemeris") /\ {Md5Get} # {}
      BY OthersAre
    <3>. QED  BY <1>2, <3>1, OthersAre, CreateStep DEF EphemerisCreate
  <2>2. UNCHANGED <<up, walk>>
    BY <1>2 DEF EphemerisCreate, Create
  <2>. QED  BY <1>1, <2>1, <2>2, OthersAre
<1>3. ASSUME UpdaterCreate
      PROVE  Goal
  <2>1. UpGoal("updater")
    <3>1. /\ Puts("updater") \in SUBSET Subs /\ (\A s \in Puts("updater") : s[1] = "updater")
          /\ Puts("updater") # {}
      BY OthersAre, PutsAre
    <3>. QED  BY <1>3, <3>1, OthersAre, CreateStep DEF UpdaterCreate
  <2>2. UNCHANGED <<up, walk>>
    BY <1>3 DEF UpdaterCreate, Create
  <2>. QED  BY <1>1, <2>1, <2>2, OthersAre
<1>4. ASSUME EphemerisCancel
      PROVE  Goal
  <2>1. UpGoal("ephemeris") /\ UNCHANGED <<up, walk>>
    BY <1>4, EphemerisCancelStep
  <2>. QED  BY <1>1, <2>1, OthersAre
<1>5. ASSUME UpdaterCancel
      PROVE  Goal
  <2>1. UpGoal("updater") /\ UNCHANGED <<up, walk>>
    BY <1>5, UpdaterCancelStep
  <2>. QED  BY <1>1, <2>1, OthersAre
<1>6. ASSUME NEW st, Md5GetEnd(st)
      PROVE  Goal
  BY <1>1, <1>6, OthersAre, Md5GetEndStep
<1>7. ASSUME NEW st, RenameEnd(st)
      PROVE  Goal
  BY <1>1, <1>7, OthersAre, RenameEndStep
<1>8. ASSUME NEW s, NEW st, EphemerisPutEnd(s, st)
      PROVE  Goal
  BY <1>1, <1>8, OthersAre, EphemerisPutEndStep
<1>9. ASSUME NEW s, NEW st, UpdaterPutEnd(s, st)
      PROVE  Goal
  BY <1>1, <1>9, OthersAre, UpdaterPutEndStep
<1>10. Goal
  BY <1>2, <1>3, <1>4, <1>5, <1>6, <1>7, <1>8, <1>9 DEF UploadNext, UploadSubEnds
<1>. QED  BY <1>10 DEF Goal

-----------------------------------------------------------------------------
(* The channels of the multiplexer.                                        *)
LEMMA FirstIs ==
  /\ First(0) = << >>
  /\ \A n \in Nat : Append(First(n), n) = First(n + 1) /\ Len(First(n)) = n
<1>1. First(0) = << >>
  BY DEF First
<1>2. ASSUME NEW n \in Nat
      PROVE  Append(First(n), n) = First(n + 1) /\ Len(First(n)) = n
  <2>. DEFINE s == First(n)
  <2>1. s = [i \in 1..n |-> i - 1] /\ s \in Seq(Int) /\ Len(s) = n
    BY DEF First
  <2>. HIDE DEF s
  <2>. DEFINE t == Append(s, n)
  <2>2. /\ t \in Seq(Int) /\ Len(t) = n + 1 /\ t[n + 1] = n
        /\ \A i \in 1..n : t[i] = s[i]
    BY <2>1
  <2>. HIDE DEF t
  <2>3. t = [i \in 1..(n + 1) |-> i - 1]
    <3>1. \A i \in 1..(n + 1) : t[i] = i - 1
      BY <2>1, <2>2
    <3>2. t = [i \in 1..Len(t) |-> t[i]]
      BY <2>2
    <3>. QED  BY <2>2, <3>1, <3>2
  <2>. QED  BY <2>1, <2>3 DEF First, s, t
<1>. QED  BY <1>1, <1>2

LEMMA NotifyIs ==
  ASSUME mup \in MupRec, mup.told = << >>, NEW status \in FtpStatus, Notify(status)
  PROVE  /\ mup' \in MupRec /\ mup'.st = "done" /\ toDev' = toDev
         /\ mup'.told = <<"OK">> => status = "OK"
<1>. DEFINE told == <<status>>
<1>1. mup' = [mup EXCEPT !.st = "done", !.told = told] /\ toDev' = toDev
  BY DEF Notify
<1>2. told \in {<< >>} \cup {<<s>> : s \in FtpStatus} /\ (told = <<"OK">> => status = "OK")
  OBVIOUS
<1>. HIDE DEF told
<1>3. mup' \in MupRec /\ mup'.st = "done" /\ mup'.told = told
  BY <1>1, <1>2 DEF MupRec
<1>. QED  BY <1>1, <1>2, <1>3

LEMMA SendIs ==
  ASSUME NEW u \in MupRec, u.written < Chunks, toDev = << >>, SendChunk(u)
  PROVE  /\ mup' \in MupRec /\ mup'.written = u.written + 1 /\ mup'.id = u.id
         /\ mup'.st = u.st /\ mup'.told = u.told
         /\ toDev' = << <<"CHUNK", u.id>> >>
<1>1. mup' = [u EXCEPT !.written = @ + 1] /\ toDev' = Append(toDev, <<"CHUNK", u.id>>)
  BY DEF SendChunk
<1>2. u.written + 1 \in 0..Chunks
  BY MuxAssumption DEF MupRec
<1>3. /\ mup' \in MupRec /\ mup'.written = u.written + 1 /\ mup'.id = u.id
      /\ mup'.st = u.st /\ mup'.told = u.told
  BY <1>1, <1>2 DEF MupRec
<1>. QED  BY <1>1, <1>3

LEMMA MuxTold ==
  ASSUME MuxPart, mup.st = "open", NEW status \in FtpStatus, Notify(status),
         status = "OK" => toDev = << >> /\ dev.got = First(Chunks),
         UNCHANGED <<dev, box>>, up' = up, up
  PROVE  MuxPart'
<1>1. mup \in MupRec /\ mup.told = << >>
  BY DEF MuxPart
<1>2. /\ mup' \in MupRec /\ mup'.st = "done" /\ toDev' = toDev
      /\ mup'.told = <<"OK">> => status = "OK"
  BY <1>1, NotifyIs
<1>3. dev' = dev /\ box' = box /\ ~Off'
  BY DEF Off
<1>. QED  BY <1>2, <1>3 DEF MuxPart

LEMMA MuxOpenOk ==
  ASSUME MuxPart, box' = box, dev'.st \in DevStates, mup' \in MupRec, mup'.st = "open",
         mup'.told = << >>, Channel', up, up' = up
  PROVE  MuxPart'
<1>1. << >> # <<"OK">>
  OBVIOUS
<1>. QED  BY <1>1 DEF MuxPart, Off

LEMMA ChunkSentIs ==
  ASSUME toDev' = << <<"CHUNK", mup'.id>> >>, toCtl' = << >>, mup'.written = mup'.id + 1,
         dev'.got = First(mup'.id)
  PROVE  Channel'
  BY DEF Channel, ChunkSent, First

LEMMA MuxReceiveStep ==
  ASSUME MuxPart, MuxReceive, up, up' = up
  PROVE  MuxPart'
<1>. DEFINE m == Head(toCtl)
<1>0. /\ toCtl' = Tail(toCtl) /\ UNCHANGED <<dev, box>> /\ dev' = dev /\ box' = box
  BY DEF MuxReceive
<1>1. mup \in MupRec /\ box \in BoxRec /\ dev.st \in DevStates
  BY DEF MuxPart
<1>2. CASE mup.st # "open"
  <2>1. UNCHANGED <<mup, toDev>>
    BY <1>2 DEF MuxReceive
  <2>2. mup.st # "none"
    BY DEF MuxPart, MuxReceive
  <2>. QED  BY <1>0, <1>2, <2>1, <2>2 DEF MuxPart, Off
<1>3. CASE mup.st = "open"
  <2>1. mup.told = << >> /\ Channel /\ (UpdateResp(m) \/ ChunkAck(m) \/ UpdateStatus(m))
    BY <1>3 DEF MuxPart, MuxReceive
  <2>2. "OK" \in FtpStatus /\ "FAILED" \in FtpStatus
    BY DEF FtpStatus
  <2>3. ASSUME Notify("FAILED")
        PROVE  MuxPart'
    BY <1>0, <1>3, <2>2, <2>3, MuxTold
  <2>4. CASE Asked \/ ChunkSent
    BY <2>4 DEF Asked, ChunkSent, MuxReceive
  <2>5. CASE Answered
    <3>1. PICK s \in {0, 1} : toCtl = << <<"UPDATE_RESP", s>> >>
      BY <2>5 DEF Answered
    <3>2. m = <<"UPDATE_RESP", s>> /\ toCtl' = << >> /\ toDev = << >> /\ dev.got = << >>
      BY <1>0, <2>5, <3>1 DEF Answered
    <3>3. UpdateResp(m)
      BY <2>1, <3>2 DEF ChunkAck, UpdateStatus
    <3>4. CASE s = 0
      <4>. DEFINE u == [mup EXCEPT !.written = 0, !.id = 0]
      <4>1. SendChunk(u)
        BY <3>2, <3>3, <3>4 DEF UpdateResp
      <4>2. u = [mup EXCEPT !.written = 0, !.id = 0]
        OBVIOUS
      <4>. HIDE DEF u
      <4>5. /\ u \in MupRec /\ u.written = 0 /\ u.id = 0 /\ u.st = "open" /\ u.told = << >>
            /\ u.written < Chunks
        <5>1. 0 \in 0..Chunks /\ 0 < Chunks
          BY MuxAssumption
        <5>2. /\ u \in MupRec /\ u.written = 0 /\ u.id = 0 /\ u.st = mup.st
              /\ u.told = mup.told
          BY <1>1, <4>2, <5>1 DEF MupRec
        <5>. QED  BY <1>3, <2>1, <5>1, <5>2
      <4>3. /\ mup' \in MupRec /\ mup'.written = 1 /\ mup'.id = 0 /\ mup'.st = "open"
            /\ mup'.told = << >> /\ toDev' = << <<"CHUNK", 0>> >>
        BY <3>2, <4>1, <4>5, SendIs
      <4>4. Channel'
        <5>2. dev'.got = First(0)
          BY <1>0, <3>2, FirstIs
        <5>3. mup'.written = 0 + 1
          BY <4>3
        <5>1. /\ toDev' = << <<"CHUNK", mup'.id>> >> /\ toCtl' = << >>
              /\ mup'.written = mup'.id + 1 /\ dev'.got = First(mup'.id)
          BY <3>2, <4>3, <5>2, <5>3
        <5>. QED  BY <5>1, ChunkSentIs
      <4>. QED  BY <1>0, <1>1, <4>3, <4>4, MuxOpenOk
    <3>5. CASE s # 0
      BY <2>3, <3>2, <3>3, <3>5 DEF UpdateResp
    <3>. QED  BY <3>4, <3>5
  <2>6. CASE ChunkTaken
    <3>1. PICK s \in {0, 1} : toCtl = << <<"CHUNK_ACK", mup.id + s>> >>
      BY <2>6 DEF ChunkTaken
    <3>2. /\ m[1] = "CHUNK_ACK" /\ m[2] = mup.id + s /\ toCtl' = << >> /\ toDev = << >>
          /\ mup.written = mup.id + 1 /\ mup.id + 1 < Chunks /\ dev.got = First(mup.id + 1)
      BY <1>0, <2>6, <3>1 DEF ChunkTaken
    <3>3. ChunkAck(m)
      BY <2>1, <3>2 DEF UpdateResp, UpdateStatus
    <3>4. CASE m[2] # mup.id
      BY <2>3, <3>3, <3>4 DEF ChunkAck
    <3>5. CASE m[2] = mup.id
      <4>. DEFINE u == [mup EXCEPT !.percent = mup.written, !.id = @ + 1]
      <4>1. SendChunk(u)
        BY <3>2, <3>3, <3>5, <1>1 DEF ChunkAck, MupRec
      <4>2. u = [mup EXCEPT !.percent = mup.written, !.id = mup.id + 1]
        OBVIOUS
      <4>. HIDE DEF u
      <4>3. mup.written \in 0..Chunks /\ mup.id + 1 \in 0..Chunks
        BY <1>1, <3>2, MuxAssumption DEF MupRec
      <4>4. /\ u \in MupRec /\ u.written = mup.written /\ u.id = mup.id + 1 /\ u.st = "open"
            /\ u.told = << >> /\ u.written < Chunks
        BY <1>1, <1>3, <2>1, <3>2, <4>2, <4>3 DEF MupRec
      <4>5. /\ mup' \in MupRec /\ mup'.written = mup.written + 1 /\ mup'.id = mup.id + 1
            /\ mup'.st = "open" /\ mup'.told = << >> /\ toDev' = << <<"CHUNK", mup'.id>> >>
        BY <3>2, <4>1, <4>4, SendIs
      <4>6. Channel'
        <5>1. /\ toDev' = << <<"CHUNK", mup'.id>> >> /\ toCtl' = << >>
              /\ mup'.written = mup'.id + 1 /\ dev'.got = First(mup'.id)
          BY <1>0, <3>2, <4>5
        <5>. QED  BY <5>1, ChunkSentIs
      <4>. QED  BY <1>0, <1>1, <4>5, <4>6, MuxOpenOk
    <3>. QED  BY <3>4, <3>5
  <2>7. CASE LastTaken
    <3>1. PICK s \in {0, 1} : toCtl = << <<"CHUNK_ACK", mup.id>>, <<"STATUS", s>> >>
      BY <2>7 DEF LastTaken
    <3>2. /\ m[1] = "CHUNK_ACK" /\ m[2] = mup.id /\ toCtl' = << <<"STATUS", s>> >>
          /\ toDev = << >> /\ mup.written = Chunks /\ dev.got = First(Chunks)
      BY <1>0, <2>7, <3>1 DEF LastTaken
    <3>3. ChunkAck(m)
      BY <2>1, <3>2 DEF UpdateResp, UpdateStatus
    <3>4. mup' = [mup EXCEPT !.percent = mup.written] /\ toDev' = << >>
      BY <3>2, <3>3, MuxAssumption DEF ChunkAck
    <3>5. mup' \in MupRec /\ mup'.st = "open" /\ mup'.told = << >>
      <4>1. mup.written \in 0..Chunks
        BY <1>1 DEF MupRec
      <4>. QED  BY <1>1, <1>3, <2>1, <3>4, <4>1 DEF MupRec
    <3>6. Channel'
      <4>1. dev'.got = First(Chunks)
        BY <1>0, <3>2
      <4>. QED  BY <3>2, <3>4, <4>1 DEF Channel, AllTaken, First
    <3>. QED  BY <1>0, <1>1, <3>5, <3>6, MuxOpenOk
  <2>8. CASE AllTaken
    <3>1. PICK s \in {0, 1} : toCtl = << <<"STATUS", s>> >>
      BY <2>8 DEF AllTaken
    <3>2. m[1] = "STATUS" /\ toDev = << >> /\ dev.got = First(Chunks)
      BY <2>8, <3>1 DEF AllTaken
    <3>3. Notify("OK") \/ Notify("FAILED")
      BY <2>1, <3>2 DEF UpdateResp, ChunkAck, UpdateStatus
    <3>4. ASSUME Notify("OK")
          PROVE  MuxPart'
      BY <1>0, <1>3, <2>2, <3>2, <3>4, MuxTold
    <3>. QED  BY <2>3, <3>3, <3>4
  <2>. QED  BY <2>1, <2>4, <2>5, <2>6, <2>7, <2>8 DEF Channel
<1>. QED  BY <1>2, <1>3

LEMMA DeviceAnswersStep ==
  ASSUME MuxPart, NEW status \in {0, 1}, DeviceAnswers(status), up, up' = up
  PROVE  MuxPart'
<1>. DEFINE m == Head(toDev)
            got == IF m[1] = "CHUNK" THEN Append(dev.got, m[2]) ELSE << >>
            whole == Len(got) = Chunks
<1>0. /\ toDev # << >> /\ toDev' = Tail(toDev) /\ mup' = mup /\ box' = box
      /\ dev' = [st |-> IF whole \/ status # 0 THEN "done" ELSE "receiving", got |-> got]
      /\ toCtl' = IF m[1] = "UPDATE_REQ" THEN Append(toCtl, <<"UPDATE_RESP", status>>)
                  ELSE IF whole
                  THEN toCtl \o << <<"CHUNK_ACK", m[2]>>, <<"STATUS", status>> >>
                  ELSE Append(toCtl, <<"CHUNK_ACK", m[2] + status>>)
  BY DEF DeviceAnswers
<1>1. mup \in MupRec /\ box \in BoxRec
  BY DEF MuxPart
<1>2. dev'.st \in DevStates /\ dev'.got = got
  BY <1>0 DEF DevStates
<1>3. mup.st \in {"open", "done"}
  BY <1>0, <1>1 DEF MuxPart, MupRec
<1>4. CASE mup.st = "done"
  <2>1. mup.told # <<"OK">>
    BY <1>0 DEF MuxPart
  <2>. HIDE DEF got, m
  <2>2. mup' \in MupRec /\ box' \in BoxRec /\ mup'.st = "done" /\ mup'.told # <<"OK">> /\ ~Off'
    BY <1>0, <1>1, <1>4, <2>1 DEF Off
  <2>. QED  BY <1>2, <2>2 DEF MuxPart
<1>5. CASE mup.st = "open"
  <2>1. mup.told = << >> /\ Channel
    BY <1>5 DEF MuxPart
  <2>2. Asked \/ ChunkSent
    BY <1>0, <2>1 DEF Channel, Answered, ChunkTaken, LastTaken, AllTaken
  <2>3. ASSUME Channel'
        PROVE  MuxPart'
    <3>1. mup' \in MupRec /\ mup'.st = "open" /\ mup'.told = << >>
      BY <1>0, <1>1, <1>5, <2>1
    <3>. HIDE DEF got
    <3>. QED  BY <1>0, <1>2, <2>3, <3>1, MuxOpenOk
  <2>4. CASE Asked
    <3>1. m[1] = "UPDATE_REQ" /\ toCtl = << >> /\ toDev' = << >>
      BY <1>0, <2>4 DEF Asked
    <3>2. got = << >>
      BY <3>1
    <3>3. toCtl' = << <<"UPDATE_RESP", status>> >>
      BY <1>0, <3>1
    <3>. HIDE DEF got, m
    <3>4. Channel'
      BY <1>2, <3>1, <3>2, <3>3 DEF Channel, Answered
    <3>. QED  BY <2>3, <3>4
  <2>5. CASE ChunkSent
    <3>1. /\ m[1] = "CHUNK" /\ m[2] = mup.id /\ toCtl = << >> /\ toDev' = << >>
          /\ mup.written = mup.id + 1 /\ dev.got = First(mup.id)
      BY <1>0, <2>5 DEF ChunkSent
    <3>2. mup.id \in Nat /\ mup.id + 1 <= Chunks /\ mup.id + 1 \in Nat
      BY <1>1, <3>1, MuxAssumption DEF MupRec
    <3>3. got = First(mup.id + 1) /\ Len(got) = mup.id + 1
      BY <3>1, <3>2, FirstIs
    <3>. HIDE DEF got, m
    <3>4. CASE mup.id + 1 = Chunks
      <4>1. toCtl' = << >> \o << <<"CHUNK_ACK", mup.id>>, <<"STATUS", status>> >>
        BY <1>0, <3>1, <3>3, <3>4
      <4>2. toCtl' = << <<"CHUNK_ACK", mup.id>>, <<"STATUS", status>> >>
        BY <4>1
      <4>3. mup'.id = mup.id /\ mup'.written = Chunks /\ mup'.id = Chunks - 1
        BY <1>0, <3>1, <3>2, <3>4, MuxAssumption
      <4>4. dev'.got = First(Chunks)
        BY <1>2, <3>3, <3>4
      <4>5. Channel'
        BY <3>1, <4>2, <4>3, <4>4 DEF Channel, LastTaken, First
      <4>. QED  BY <2>3, <4>5
    <3>5. CASE mup.id + 1 # Chunks
      <4>1. toCtl' = << <<"CHUNK_ACK", mup.id + status>> >>
        BY <1>0, <3>1, <3>3, <3>5
      <4>2. /\ mup'.id = mup.id /\ mup'.written = mup'.id + 1 /\ mup'.id + 1 < Chunks
        BY <1>0, <3>1, <3>2, <3>5, MuxAssumption
      <4>3. dev'.got = First(mup'.id + 1)
        BY <1>2, <3>3, <4>2
      <4>4. Channel'
        BY <3>1, <4>1, <4>2, <4>3 DEF Channel, ChunkTaken, First
      <4>. QED  BY <2>3, <4>4
    <3>. QED  BY <3>4, <3>5
  <2>. QED  BY <2>2, <2>4, <2>5
<1>. QED  BY <1>3, <1>4, <1>5

LEMMA MuxNextStep ==
  ASSUME MuxPart, MuxNext
  PROVE  MuxPart' /\ UNCHANGED ftpVars
<1>1. up /\ up' = up /\ UNCHANGED ftpVars /\ "FAILED" \in FtpStatus /\ "CANCELED" \in FtpStatus
  BY DEF MuxNext, ftpVars, FtpStatus
<1>2. CASE MuxCreate
  <2>1. /\ mup.st = "none" /\ mup' = [mup EXCEPT !.st = "open"] /\ toCtl' = toCtl
        /\ toDev' = Append(toDev, <<"UPDATE_REQ", 0>>) /\ dev' = dev /\ box' = box
    BY <1>2 DEF MuxCreate
  <2>2. /\ mup \in MupRec /\ mup.told = << >> /\ toDev = << >> /\ toCtl = << >>
        /\ dev.st \in DevStates
    BY <2>1 DEF MuxPart
  <2>3. mup' \in MupRec /\ mup'.st = "open" /\ mup'.told = << >>
    BY <2>1, <2>2 DEF MupRec
  <2>4. Channel'
    BY <2>1, <2>2 DEF Channel, Asked
  <2>. QED  BY <1>1, <2>1, <2>2, <2>3, <2>4, MuxOpenOk
<1>3. CASE MuxReceive
  BY <1>1, <1>3, MuxReceiveStep
<1>4. CASE MuxReset
  BY <1>1, <1>4, MuxTold DEF MuxReset
<1>5. CASE MuxCancel("CANCELED")
  BY <1>1, <1>5, MuxTold DEF MuxCancel
<1>6. ASSUME NEW status \in {0, 1}, DeviceAnswers(status)
      PROVE  MuxPart'
  BY <1>1, <1>6, DeviceAnswersStep
<1>7. ASSUME box' \in BoxRec, UNCHANGED <<mup, toDev, toCtl, dev>>
      PROVE  MuxPart'
  BY <1>1, <1>7 DEF MuxPart, Off, Channel, Asked, Answered, ChunkSent, ChunkTaken, LastTaken,
     AllTaken
<1>8. ASSUME NEW l \in Listeners, BoxListen(l) \/ BoxUnregister(l)
      PROVE  MuxPart'
  <2>1. box \in BoxRec
    BY DEF MuxPart
  <2>2. box' \in BoxRec /\ UNCHANGED <<mup, toDev, toCtl, dev>>
    BY <1>8, <2>1 DEF BoxListen, BoxUnregister, BoxRec
  <2>. QED  BY <1>7, <2>2
<1>. QED  BY <1>1, <1>2, <1>3, <1>4, <1>5, <1>6, <1>8 DEF MuxNext

-----------------------------------------------------------------------------
(* The application's own requests.                                         *)
AppGoal == /\ SubOk' /\ AppPart' /\ UNCHANGED <<up, walk>>
           /\ \A o : o # "app" => Pending(o)' = Pending(o)

LEMMA AppSubIs ==
  ASSUME NEW op \in AppOps
  PROVE  /\ AppSub(op) \in Subs /\ AppSub(op)[1] = "app"
         /\ \A q \in AppOps : q # op => AppSub(q) # AppSub(op)
<1>1. "app" \in Owners /\ op \in Ops /\ 1 \in 1..MaxFiles
  BY OwnersAre, MaxFilesAssumption DEF AppOps, Ops
<1>. QED  BY <1>1 DEF AppSub, Subs

LEMMA AppCreateStep ==
  ASSUME AppPart, SubOk, NEW op \in AppOps, AppCreate(op)
  PROVE  AppGoal
<1>. DEFINE New == {AppSub(op)}
<1>1. /\ up /\ app' = [app EXCEPT ![op] = "running"] /\ sub' = After({}, New)
      /\ UNCHANGED <<up, walk>>
  BY DEF AppCreate
<1>2. /\ {} \in SUBSET Pending("app") /\ New \in SUBSET Subs /\ \A s \in New : s[1] = "app"
  BY AppSubIs
<1>. HIDE DEF New
<1>3. /\ SubOk' /\ \A o : o # "app" => Pending(o)' = Pending(o)
      /\ Pending("app")' = (Pending("app") \ {}) \cup (IF up THEN New ELSE {})
  BY <1>1, <1>2, AfterOwn
<1>4. Pending("app")' = Pending("app") \cup {AppSub(op)}
  BY <1>1, <1>3 DEF New
<1>5. app' \in [AppOps -> {"none", "running"} \cup FtpStatus]
  BY <1>1 DEF AppPart
<1>6. ASSUME NEW q \in AppOps, app'[q] = "running"
      PROVE  AppSub(q) \in Pending("app")'
  BY <1>1, <1>4, <1>6 DEF AppPart
<1>7. AppPart'
  BY <1>5, <1>6 DEF AppPart, AppSub
<1>. QED  BY <1>1, <1>3, <1>7 DEF AppGoal

LEMMA AppOverStep ==
  ASSUME AppPart, SubOk, NEW op \in AppOps, NEW st \in FtpStatus,
         AppSub(op) \in Pending("app"), app' = [app EXCEPT ![op] = st],
         sub' = After({AppSub(op)}, {}), UNCHANGED <<up, walk>>
  PROVE  AppGoal
<1>. DEFINE Over == {AppSub(op)}
<1>1. /\ Over \in SUBSET Pending("app") /\ {} \in SUBSET Subs /\ (\A s \in {} : s[1] = "app")
      /\ sub' = After(Over, {})
  OBVIOUS
<1>. HIDE DEF Over
<1>2. /\ SubOk' /\ \A o : o # "app" => Pending(o)' = Pending(o)
      /\ Pending("app")' = (Pending("app") \ Over) \cup (IF up THEN {} ELSE {})
  BY <1>1, AfterOwn
<1>3. Pending("app")' = Pending("app") \ {AppSub(op)}
  BY <1>2 DEF Over
<1>4. app' \in [AppOps -> {"none", "running"} \cup FtpStatus] /\ st # "running"
  BY DEF AppPart, FtpStatus
<1>5. ASSUME NEW q \in AppOps, app'[q] = "running"
      PROVE  AppSub(q) \in Pending("app")'
  <2>1. q # op /\ app[q] = "running"
    BY <1>4, <1>5 DEF AppPart
  <2>. QED  BY <1>3, <2>1, AppSubIs DEF AppPart
<1>6. AppPart'
  BY <1>4, <1>5 DEF AppPart, AppSub
<1>. QED  BY <1>2, <1>6 DEF AppGoal

LEMMA AppNextStep ==
  ASSUME AppPart, SubOk, AppNext
  PROVE  AppGoal
<1>1. ASSUME NEW op \in AppOps, AppCreate(op)
      PROVE  AppGoal
  BY <1>1, AppCreateStep
<1>2. ASSUME NEW op \in AppOps, AppCancel(op)
      PROVE  AppGoal
  <2>1. /\ AppSub(op) \in Pending("app") /\ app' = [app EXCEPT ![op] = "CANCELED"]
        /\ sub' = After({AppSub(op)}, {}) /\ UNCHANGED <<up, walk>> /\ "CANCELED" \in FtpStatus
    BY <1>2 DEF AppCancel, Started, FtpStatus
  <2>. QED  BY <2>1, AppOverStep
<1>3. ASSUME NEW op \in AppOps, NEW st \in FtpStatus, AppEnd(op, st)
      PROVE  AppGoal
  <2>1. /\ SubOver(AppSub(op), st) /\ app' = [app EXCEPT ![op] = st]
        /\ sub' = After({AppSub(op)}, {}) /\ UNCHANGED <<up, walk>>
    BY <1>3 DEF AppEnd
  <2>2. AppSub(op) \in Pending("app")
    BY <2>1, OverFacts, AppSubIs
  <2>. QED  BY <2>1, <2>2, AppOverStep
<1>4. /\ "list" \in AppOps /\ "get" \in AppOps /\ "put" \in AppOps /\ "delete" \in AppOps
      /\ "rename" \in AppOps
  BY DEF AppOps
<1>. QED  BY <1>1, <1>2, <1>3, <1>4 DEF AppNext, AppList, AppGet, AppPut, AppDelete, AppRename

-----------------------------------------------------------------------------
(* The FTP interface, and the disconnection.                               *)
LEMMA FtpNextStep ==
  ASSUME SubOk, WalkOk, FtpNext
  PROVE  SubOk' /\ WalkOk' /\ (Off' => Off) /\ \A o : Pending(o)' = Pending(o)
<1>1. CASE UNCHANGED sub
  <2>1. SubOk' /\ \A o : Pending(o)' = Pending(o)
    BY <1>1 DEF SubOk, Pending
  <2>2. WalkOk' /\ (Off' => Off)
    BY <1>1 DEF FtpNext, FtpAdvances, SubStart, SizeComplete, CancelAllEnd, CancelAll, Stop,
       WalkOk, Off
  <2>. QED  BY <2>1, <2>2
<1>2. ASSUME NEW s \in DOMAIN sub, NEW v \in SubStates, sub' = [sub EXCEPT ![s] = v],
             UNCHANGED <<up, walk>>
      PROVE  SubOk' /\ WalkOk' /\ (Off' => Off) /\ \A o : Pending(o)' = Pending(o)
  <2>1. DOMAIN sub' = DOMAIN sub
    BY <1>2
  <2>2. SubOk'
    BY <1>2, <2>1 DEF SubOk
  <2>3. \A o : Pending(o)' = Pending(o)
    BY <2>1 DEF Pending
  <2>4. WalkOk' /\ (Off' => Off)
    BY <1>2 DEF WalkOk, Off
  <2>. QED  BY <2>2, <2>3, <2>4
<1>3. CASE ~UNCHANGED sub
  <2>1. PICK s \in DOMAIN sub : SubStart(s) \/ SizeComplete(s)
    BY <1>3 DEF FtpNext, FtpAdvances, CancelAllEnd, CancelAll, Stop
  <2>2. \E v \in SubStates : sub' = [sub EXCEPT ![s] = v] /\ UNCHANGED <<up, walk>>
    BY <2>1 DEF SubStart, SizeComplete, SubStates
  <2>. QED  BY <1>2, <2>2
<1>. QED  BY <1>1, <1>3

Interrupted == Dls \cup {"ephemeris"}
LEMMA StopPending ==
  ASSUME InterfacesStop, NEW o
  PROVE  Pending(o)' = IF o \in Interrupted THEN {} ELSE Pending(o)
<1>. DEFINE Over == UNION {Pending(q) : q \in Dls \cup {"ephemeris"}}
<1>1. sub' = After(Over, {})
  BY DEF InterfacesStop
<1>2. o \in Interrupted => Pending(o) \subseteq Over
  BY DEF Interrupted
<1>3. \A s \in Over : s[1] \in Interrupted
  BY DEF Interrupted, Pending
<1>. HIDE DEF Over
<1>4. Pending(o)' = (Pending(o) \ Over) \cup (IF up THEN {s \in {} : s[1] = o} ELSE {})
  BY <1>1, AfterPending
<1>5. Pending(o)' = Pending(o) \ Over
  BY <1>4
<1>6. o \notin Interrupted => Pending(o) \ Over = Pending(o)
  BY <1>3 DEF Pending
<1>. QED  BY <1>2, <1>5, <1>6

LEMMA StopSub ==
  ASSUME SubOk, WalkOk, InterfacesStop
  PROVE  SubOk' /\ WalkOk'
<1>. DEFINE Over == UNION {Pending(q) : q \in Dls \cup {"ephemeris"}}
<1>1. sub' = After(Over, {}) /\ walk' = "no" /\ up' = up /\ {} \in SUBSET Subs
  BY DEF InterfacesStop
<1>. HIDE DEF Over
<1>. QED  BY <1>1, AfterType DEF WalkOk

LEMMA StopMedia ==
  ASSUME MediaPart, InterfacesStop
  PROVE  MediaPart'
<1>1. media' = [r \in MediaReqs |->
                  IF media[r].st = "running"
                  THEN [media[r] EXCEPT !.aborted = TRUE] ELSE media[r]]
  BY DEF InterfacesStop, MediaStopped
<1>2. ASSUME NEW r \in MediaReqs
      PROVE  media'[r] \in MediaReq /\ MediaOk(r, media'[r], Pending(r)')
  <2>1. media[r] \in MediaReq /\ MediaOk(r, media[r], Pending(r))
    BY DEF MediaPart
  <2>2. Pending(r)' = Pending(r)
    BY StopPending DEF Interrupted, MediaReqs, Dls
  <2>. DEFINE m == media[r]
              x == media'[r]
              P == Pending(r)
  <2>3. x = IF m.st = "running" THEN [m EXCEPT !.aborted = TRUE] ELSE m
    BY <1>1
  <2>. HIDE DEF m, x
  <2>4. /\ x \in MediaReq /\ x.st = m.st /\ x.status = m.status /\ x.files = m.files
        /\ x.ended = m.ended /\ x.told = m.told
    BY <2>1, <2>3 DEF MediaReq, m
  <2>5. MediaOk(r, x, P)
    <3>1. MediaOk(r, m, P)
      BY <2>1 DEF m
    <3>. HIDE DEF P
    <3>. QED  BY <2>4, <3>1 DEF MediaOk
  <2>. QED  BY <2>2, <2>4, <2>5 DEF x
<1>3. media' \in [MediaReqs -> MediaReq]
  BY <1>1, <1>2
<1>4. \A r \in MediaReqs : MediaOk(r, media[r], Pending(r))'
  BY <1>2 DEF MediaOk, MediaSubs, MediaOp
<1>. QED  BY <1>3, <1>4 DEF MediaPart

LEMMA StopDl ==
  ASSUME DlPart, InterfacesStop
  PROVE  DlPart'
<1>1. /\ dl' = [d \in Dls |-> IF dl[d].st = "running" THEN Canceled(d) ELSE dl[d]]
      /\ dlist' = dlist
  BY DEF InterfacesStop, DlStopped
<1>2. ASSUME NEW d \in Dls
      PROVE  dl'[d] \in DlRec /\ DlOk(d, dl'[d], Pending(d)') /\ dl'[d].st # "running"
  <2>1. Pending(d)' = {}
    BY StopPending DEF Interrupted
  <2>2. CASE dl[d].st = "running"
    <3>1. dl'[d] = Canceled(d)
      BY <1>1, <2>2
    <3>. QED  BY <2>1, <2>2, <3>1, CanceledOk
  <2>3. CASE dl[d].st # "running"
    <3>1. dl'[d] = dl[d] /\ dl[d] \in DlRec /\ DlOk(d, dl[d], Pending(d))
      BY <1>1, <2>3 DEF DlPart
    <3>2. DlOk(d, dl[d], {})
      BY <2>3, <3>1 DEF DlOk
    <3>. QED  BY <2>1, <2>3, <3>1, <3>2
  <2>. QED  BY <2>2, <2>3
<1>3. dl' \in [Dls -> DlRec]
  BY <1>1, <1>2
<1>4. \A d \in Dls : DlOk(d, dl[d], Pending(d))'
  BY <1>2 DEF DlOk, Stage, Stages
<1>. QED  BY <1>1, <1>2, <1>3, <1>4 DEF DlPart

LEMMA StopUpload ==
  ASSUME UploadPart, InterfacesStop
  PROVE  UploadPart'
<1>1. /\ req' = [o \in Uploaders |->
                   IF req[o].st # "running" THEN req[o]
                   ELSE IF o = "ephemeris"
                   THEN [req[o] EXCEPT !.status = "ABORTED", !.running = FALSE, !.st = "lost"]
                   ELSE [req[o] EXCEPT !.aborted = TRUE]]
      /\ remote' = remote /\ rounds' = rounds
  BY DEF InterfacesStop, UploadStopped
<1>2. ASSUME NEW o \in Uploaders
      PROVE  req'[o] \in ReqRec /\ UploadOk(o, req'[o], remote'[o], Pending(o)')
  <2>. DEFINE r == req[o]
              x == req'[o]
              h == remote[o]
              P == Pending(o)
              Q == Pending(o)'
  <2>1. r \in ReqRec /\ UploadOk(o, r, h, P) /\ remote'[o] = h
    BY <1>1 DEF UploadPart
  <2>2. Q = IF o \in Interrupted THEN {} ELSE P
    BY StopPending
  <2>3. /\ r.st # "running" => x = r
        /\ r.st = "running" /\ o = "ephemeris" =>
             x = [r EXCEPT !.status = "ABORTED", !.running = FALSE, !.st = "lost"]
        /\ r.st = "running" /\ o # "ephemeris" => x = [r EXCEPT !.aborted = TRUE]
    BY <1>1
  <2>. HIDE DEF r, x, h, P, Q
  <2>4. CASE r.st # "running"
    <3>1. P = {} /\ Q = {}
      BY <2>1, <2>2, <2>4 DEF UploadOk
    <3>. QED  BY <2>1, <2>3, <2>4, <3>1 DEF x, Q
  <2>5. CASE r.st = "running" /\ o = "ephemeris"
    <3>1. x = [r EXCEPT !.status = "ABORTED", !.running = FALSE, !.st = "lost"] /\ Q = {}
      BY <2>2, <2>3, <2>5 DEF Interrupted
    <3>2. x \in ReqRec /\ x.st = "lost" /\ x.told = r.told /\ x.sent = r.sent
      BY <2>1, <3>1 DEF ReqRec, FtpStatus
    <3>3. r.told = << >> /\ r.sent \subseteq Puts(o) /\ ~h.final /\ << >> # <<"OK">>
      BY <2>1, <2>5 DEF UploadOk
    <3>4. x.sent \subseteq Puts(o) /\ x.st # "running" /\ x.told # <<"OK">> /\ ~h.final
      BY <3>2, <3>3
    <3>5. UploadOk(o, x, h, {})
      BY <3>4, OverOk
    <3>. QED  BY <2>1, <3>1, <3>2, <3>5 DEF x, Q
  <2>6. CASE r.st = "running" /\ o # "ephemeris"
    <3>1. x = [r EXCEPT !.aborted = TRUE] /\ Q = P
      BY <2>2, <2>3, <2>6 DEF Interrupted, Dls, Uploaders
    <3>2. /\ x \in ReqRec /\ x.st = r.st /\ x.told = r.told /\ x.sent = r.sent
          /\ x.status = r.status /\ x.same = r.same
      BY <2>1, <3>1 DEF ReqRec
    <3>3. UploadOk(o, x, h, P)
      BY <2>1, <3>2 DEF UploadOk, Sending, Sent
    <3>. QED  BY <2>1, <3>1, <3>2, <3>3 DEF x, Q
  <2>. QED  BY <2>4, <2>5, <2>6
<1>3. req' \in [Uploaders -> ReqRec]
  BY <1>1, <1>2
<1>4. \A o \in Uploaders : UploadOk(o, req[o], remote[o], Pending(o))'
  BY <1>2 DEF UploadOk, Sending, Sent, Copy, Puts, Md5Put, FilePut, Md5Get, Rename
<1>. QED  BY <1>1, <1>3, <1>4 DEF UploadPart

LEMMA StopMux ==
  ASSUME MuxPart, InterfacesStop
  PROVE  MuxPart'
<1>1. /\ mup' = IF mup.st = "open"
                THEN [mup EXCEPT !.st = "done", !.told = Append(@, "ABORTED")] ELSE mup
      /\ box' = [open |-> FALSE, in |-> {}, out |-> box.out \cup box.in]
      /\ UNCHANGED <<toDev, toCtl, dev>>
  BY DEF InterfacesStop, MuxStopped
<1>2. box' \in BoxRec /\ box'.in = {} /\ dev'.st \in DevStates
  BY <1>1 DEF MuxPart, BoxRec
<1>3. CASE mup.st = "open"
  <2>1. Notify("ABORTED") /\ mup \in MupRec /\ mup.told = << >> /\ "ABORTED" \in FtpStatus
    BY <1>1, <1>3 DEF MuxPart, Notify, FtpStatus
  <2>2. mup' \in MupRec /\ mup'.st = "done" /\ mup'.told # <<"OK">>
    BY <2>1, NotifyIs
  <2>. QED  BY <1>2, <2>2 DEF MuxPart
<1>4. CASE mup.st # "open"
  <2>1. mup' = mup
    BY <1>1, <1>4
  <2>. QED  BY <1>1, <1>2, <1>4, <2>1 DEF MuxPart
<1>. QED  BY <1>3, <1>4

LEMMA StopApp ==
  ASSUME AppPart, InterfacesStop
  PROVE  AppPart'
<1>1. app' = app /\ Pending("app")' = Pending("app")
  BY StopPending DEF InterfacesStop, Interrupted, Dls
<1>. QED  BY <1>1, AppPartFrame

-----------------------------------------------------------------------------
LEMMA InitIInv ==
  ASSUME Init
  PROVE  IInv
<1>1. \A o : Pending(o) = {}
  BY DEF Init, FtpInit, Pending
<1>2. SubOk /\ WalkOk /\ used \in Scenarios
  BY DEF Init, FtpInit, SubOk, WalkOk
<1>3. MediaPart
  <2>1. NoMedia \in MediaReq
    BY MaxFilesAssumption DEF NoMedia, MediaReq, FtpStatus
  <2>2. \A r : MediaOk(r, NoMedia, {})
    BY DEF MediaOk, NoMedia
  <2>. QED  BY <1>1, <2>1, <2>2 DEF Init, MediaInit, MediaPart
<1>4. DlPart
  <2>1. NoDl \in DlRec
    BY NoItemType DEF NoDl, DlRec
  <2>2. \A d : DlOk(d, NoDl, {})
    BY NoItemType DEF DlOk, NoDl
  <2>3. NoDl.st # "running"
    BY DEF NoDl
  <2>4. dl = [d \in Dls |-> NoDl] /\ dlist = [d \in Dls |-> {}]
    BY DEF Init, DlInit
  <2>. QED  BY <1>1, <2>1, <2>2, <2>3, <2>4 DEF DlPart
<1>5. UploadPart
  <2>. DEFINE R == [md5 |-> "other", file |-> "other", final |-> FALSE]
  <2>1. NoReq \in ReqRec /\ R \in HeldRec /\ 0 \in 0..Rounds
    BY RoundsAssumption DEF NoReq, ReqRec, FtpStatus, HeldRec, Held
  <2>2. \A o : UploadOk(o, NoReq, R, {})
    <3>1. NoReq.st = "none" /\ NoReq.sent = {} /\ NoReq.told = << >> /\ ~R.final
      BY DEF NoReq
    <3>2. << >> # <<"OK">>
      OBVIOUS
    <3>. QED  BY <3>1, <3>2 DEF UploadOk
  <2>. HIDE DEF R
  <2>3. /\ req = [o \in Uploaders |-> NoReq] /\ remote = [o \in Uploaders |-> R]
        /\ rounds = [o \in Uploaders |-> 0]
    BY DEF Init, UploadInit, R
  <2>. QED  BY <1>1, <2>1, <2>2, <2>3 DEF UploadPart
<1>6. MuxPart
  <2>1. /\ mup = NoUpload /\ toDev = << >> /\ toCtl = << >> /\ dev.st = "idle"
        /\ box = [open |-> TRUE, in |-> {}, out |-> {}]
    BY DEF Init, MuxInit
  <2>2. mup \in MupRec /\ mup.st = "none" /\ mup.told = << >>
    BY <2>1, MuxAssumption DEF NoUpload, MupRec
  <2>3. << >> # <<"OK">>
    OBVIOUS
  <2>4. box \in BoxRec /\ box.in = {} /\ dev.st \in DevStates
    BY <2>1 DEF BoxRec, DevStates
  <2>. QED  BY <2>1, <2>2, <2>3, <2>4 DEF MuxPart
<1>7. AppPart
  BY DEF Init, AppPart
<1>. QED  BY <1>2, <1>3, <1>4, <1>5, <1>6, <1>7 DEF IInv

LEMMA OwnersApart ==
  /\ \A o \in MediaReqs : o \notin Dls /\ o \notin Uploaders /\ o # "app"
  /\ \A o \in Dls : o \notin MediaReqs /\ o \notin Uploaders /\ o # "app"
  /\ \A o \in Uploaders : o \notin MediaReqs /\ o \notin Dls /\ o # "app"
  /\ "app" \notin MediaReqs /\ "app" \notin Dls /\ "app" \notin Uploaders
  BY DEF MediaReqs, Dls, Uploaders

LEMMA NextIInv ==
  ASSUME IInv, [Next]_svcVars
  PROVE  IInv'
<1>1. /\ SubOk /\ WalkOk /\ used \in Scenarios
      /\ MediaPart /\ DlPart /\ UploadPart /\ MuxPart /\ AppPart
  BY DEF IInv
<1>2. used' = used
  BY DEF Next, svcVars
<1>3. ASSUME UNCHANGED <<up, walk>>
      PROVE  (Off' => Off) /\ WalkOk'
  BY <1>1, <1>3 DEF Off, WalkOk
<1>4. CASE UNCHANGED svcVars
  <2>1. /\ UNCHANGED <<up, walk>> /\ UNCHANGED sub /\ UNCHANGED media
        /\ UNCHANGED <<dl, dlist>> /\ UNCHANGED <<req, remote, rounds>>
        /\ UNCHANGED muxVars /\ UNCHANGED app
    BY <1>4 DEF svcVars, ftpVars
  <2>2. SubOk' /\ \A o : Pending(o)' = Pending(o)
    BY <1>1, <2>1 DEF SubOk, Pending
  <2>3. (Off' => Off) /\ WalkOk'
    BY <1>3, <2>1
  <2>4. MediaPart' /\ DlPart' /\ UploadPart' /\ MuxPart' /\ AppPart'
    BY <1>1, <2>1, <2>2, <2>3, MediaPartFrame, DlPartFrame, UploadPartFrame, MuxPartFrame,
       AppPartFrame
  <2>. QED  BY <1>1, <1>2, <2>2, <2>3, <2>4 DEF IInv
<1>5. CASE FtpNext
  <2>1. /\ UNCHANGED media /\ UNCHANGED <<dl, dlist>> /\ UNCHANGED <<req, remote, rounds>>
        /\ UNCHANGED muxVars /\ UNCHANGED app
    BY <1>5 DEF FtpNext, UploadVars
  <2>2. SubOk' /\ WalkOk' /\ (Off' => Off) /\ \A o : Pending(o)' = Pending(o)
    BY <1>1, <1>5, FtpNextStep
  <2>4. MediaPart' /\ DlPart' /\ UploadPart' /\ MuxPart' /\ AppPart'
    BY <1>1, <2>1, <2>2, MediaPartFrame, DlPartFrame, UploadPartFrame, MuxPartFrame,
       AppPartFrame
  <2>. QED  BY <1>1, <1>2, <2>2, <2>4 DEF IInv
<1>6. CASE MediaNext
  <2>1. /\ UNCHANGED <<dl, dlist>> /\ UNCHANGED <<req, remote, rounds>>
        /\ UNCHANGED muxVars /\ UNCHANGED app
    BY <1>6 DEF MediaNext, UploadVars
  <2>2. /\ SubOk' /\ MediaPart' /\ UNCHANGED <<up, walk>>
        /\ \A o : o \notin MediaReqs => Pending(o)' = Pending(o)
    BY <1>1, <1>6, MediaNextStep
  <2>3. (Off' => Off) /\ WalkOk'
    BY <1>3, <2>2
  <2>4. DlPart' /\ UploadPart' /\ MuxPart' /\ AppPart'
    BY <1>1, <2>1, <2>2, <2>3, OwnersApart, DlPartFrame, UploadPartFrame, MuxPartFrame,
       AppPartFrame
  <2>. QED  BY <1>1, <1>2, <2>2, <2>3, <2>4 DEF IInv
<1>7. CASE DlNext
  <2>1. /\ UNCHANGED media /\ UNCHANGED <<req, remote, rounds>>
        /\ UNCHANGED muxVars /\ UNCHANGED app
    BY <1>7 DEF DlNext, UploadVars
  <2>2. /\ SubOk' /\ DlPart' /\ UNCHANGED <<up, walk>>
        /\ \A o : o \notin Dls => Pending(o)' = Pending(o)
    BY <1>1, <1>7, DlNextStep
  <2>3. (Off' => Off) /\ WalkOk'
    BY <1>3, <2>2
  <2>4. MediaPart' /\ UploadPart' /\ MuxPart' /\ AppPart'
    BY <1>1, <2>1, <2>2, <2>3, OwnersApart, MediaPartFrame, UploadPartFrame, MuxPartFrame,
       AppPartFrame
  <2>. QED  BY <1>1, <1>2, <2>2, <2>3, <2>4 DEF IInv
<1>8. CASE UploadNext
  <2>1. /\ UNCHANGED media /\ UNCHANGED <<dl, dlist>>
        /\ UNCHANGED muxVars /\ UNCHANGED app
    BY <1>8 DEF UploadNext
  <2>2. /\ SubOk' /\ UploadPart' /\ UNCHANGED <<up, walk>>
        /\ \A o : o \notin Uploaders => Pending(o)' = Pending(o)
    BY <1>1, <1>8, UploadNextStep
  <2>3. (Off' => Off) /\ WalkOk'
    BY <1>3, <2>2
  <2>4. MediaPart' /\ DlPart' /\ MuxPart' /\ AppPart'
    BY <1>1, <2>1, <2>2, <2>3, OwnersApart, MediaPartFrame, DlPartFrame, MuxPartFrame,
       AppPartFrame
  <2>. QED  BY <1>1, <1>2, <2>2, <2>3, <2>4 DEF IInv
<1>9. CASE MuxNext
  <2>1. /\ UNCHANGED media /\ UNCHANGED <<dl, dlist>> /\ UNCHANGED <<req, remote, rounds>>
        /\ UNCHANGED app
    BY <1>9 DEF MuxNext, UploadVars
  <2>2. MuxPart' /\ UNCHANGED ftpVars
    BY <1>1, <1>9, MuxNextStep
  <2>3. SubOk' /\ \A o : Pending(o)' = Pending(o)
    BY <1>1, <2>2 DEF SubOk, Pending, ftpVars
  <2>4. (Off' => Off) /\ WalkOk'
    BY <1>3, <2>2 DEF ftpVars
  <2>5. MediaPart' /\ DlPart' /\ UploadPart' /\ AppPart'
    BY <1>1, <2>1, <2>3, <2>4, MediaPartFrame, DlPartFrame, UploadPartFrame, AppPartFrame
  <2>. QED  BY <1>1, <1>2, <2>2, <2>3, <2>4, <2>5 DEF IInv
<1>10. CASE AppNext
  <2>1. /\ UNCHANGED media /\ UNCHANGED <<dl, dlist>> /\ UNCHANGED <<req, remote, rounds>>
        /\ UNCHANGED muxVars
    BY <1>10 DEF AppNext, UploadVars
  <2>2. /\ SubOk' /\ AppPart' /\ UNCHANGED <<up, walk>>
        /\ \A o : o # "app" => Pending(o)' = Pending(o)
    BY <1>1, <1>10, AppNextStep DEF AppGoal
  <2>3. (Off' => Off) /\ WalkOk'
    BY <1>3, <2>2
  <2>4. MediaPart' /\ DlPart' /\ UploadPart' /\ MuxPart'
    BY <1>1, <2>1, <2>2, <2>3, OwnersApart, MediaPartFrame, DlPartFrame, UploadPartFrame,
       MuxPartFrame
  <2>. QED  BY <1>1, <1>2, <2>2, <2>3, <2>4 DEF IInv
<1>11. CASE InterfacesStop
  BY <1>1, <1>2, <1>11, StopSub, StopMedia, StopDl, StopUpload, StopMux, StopApp DEF IInv
<1>. QED  BY <1>4, <1>5, <1>6, <1>7, <1>8, <1>9, <1>10, <1>11 DEF Next

-----------------------------------------------------------------------------
LEMMA TypesHold ==
  ASSUME IInv
  PROVE  TypeOK
<1>1. FtpTypeOK
  BY DEF IInv, SubOk, WalkOk, FtpTypeOK
<1>2. DlTypeOK
  <2>1. ASSUME NEW d \in Dls
        PROVE  /\ dl[d] \in DlRec /\ dl[d].cur \in ItemRec
               /\ Len(dl[d].told) <= 1 /\ ToSet(dl[d].told) \subseteq {"OK", "ABORTED"}
    <3>1. dl[d] \in DlRec
      BY DEF IInv, DlPart
    <3>2. dl[d].cur \in ItemRec /\ dl[d].told \in {<< >>, <<"OK">>, <<"ABORTED">>}
      BY <3>1 DEF DlRec
    <3>3. \A t \in {<< >>, <<"OK">>, <<"ABORTED">>} :
             Len(t) <= 1 /\ ToSet(t) \subseteq {"OK", "ABORTED"}
      BY DEF ToSet
    <3>. QED  BY <3>1, <3>2, <3>3
  <2>2. ASSUME NEW d \in Dls
        PROVE  /\ dl[d].st \in {"none", "running", "done", "lost"}
               /\ dl[d].total \in Nat /\ dl[d].count \in Nat
               /\ dl[d].cur.kind \in Kinds \cup {"none"}
               /\ dl[d].cur.status \in FtpStatus
               /\ dl[d].cur.got \subseteq 1..MaxFiles
    BY <2>1 DEF DlRec, ItemRec
  <2>3. \A d \in Dls : \A t \in dlist[d] : t.status \in FtpStatus
    BY DEF IInv, DlPart, Tells
  <2>. QED  BY <2>1, <2>2, <2>3 DEF DlTypeOK
<1>3. UploadTypeOK
  <2>1. ASSUME NEW o \in Uploaders
        PROVE  /\ req[o] \in ReqRec /\ remote[o] \in HeldRec /\ req[o].sent \subseteq Puts(o)
               /\ {req[o].told[i] : i \in DOMAIN req[o].told} \subseteq FtpStatus
    <3>1. req[o] \in ReqRec /\ remote[o] \in HeldRec /\ req[o].sent \subseteq Puts(o)
      BY DEF IInv, UploadPart, UploadOk
    <3>2. req[o].told \in {<< >>} \cup {<<s>> : s \in FtpStatus}
      BY <3>1 DEF ReqRec
    <3>. QED  BY <3>1, <3>2
  <2>2. rounds \in [Uploaders -> 0..Rounds]
    BY DEF IInv, UploadPart
  <2>. QED  BY <2>1, <2>2 DEF UploadTypeOK, ReqRec, HeldRec
<1>4. MuxTypeOK
  BY DEF IInv, MuxPart, MupRec, BoxRec, DevStates, MuxTypeOK
<1>. QED  BY <1>1, <1>2, <1>3, <1>4 DEF IInv, MediaPart, AppPart, TypeOK

LEMMA EndsHold ==
  ASSUME IInv
  PROVE  MediaToldLast /\ CountedToTotal /\ ToldAtStop
<1>1. MediaToldLast
  <2>. SUFFICES ASSUME NEW r \in MediaReqs, media[r].told # "none"
                PROVE  /\ Pending(r) = {}
                       /\ {e[1] : e \in media[r].ended} = 1..media[r].files
                       /\ media[r].told = "OK" =>
                            \A e \in media[r].ended : e[2] \in {"OK", "FAILED"}
    BY DEF MediaToldLast
  <2>1. MediaOk(r, media[r], Pending(r))
    BY DEF IInv, MediaPart
  <2>. QED  BY <2>1 DEF MediaOk
<1>2. CountedToTotal
  <2>. SUFFICES ASSUME NEW d \in Dls
                PROVE  /\ dl[d].count <= dl[d].total
                       /\ dl[d].told = <<"OK">> /\ dl[d].listed /\ dl[d].cur = NoItem
                             => dl[d].count = dl[d].total
    BY DEF CountedToTotal
  <2>1. dl[d] \in DlRec /\ DlOk(d, dl[d], Pending(d))
    BY DEF IInv, DlPart
  <2>2. dl[d].count \in Nat /\ Len(dl[d].items) \in Nat /\ dl[d].total \in Nat
    BY <2>1 DEF DlRec
  <2>3. /\ dl[d].count + Len(dl[d].items) = dl[d].total
        /\ dl[d].told = <<"OK">> /\ dl[d].listed /\ dl[d].cur = NoItem => dl[d].items = << >>
    BY <2>1 DEF DlOk
  <2>. QED  BY <2>2, <2>3
<1>3. ToldAtStop
  <2>. SUFFICES ASSUME Off
                PROVE  /\ \A r \in MediaReqs : media[r].st = "running" => Pending(r) # {}
                       /\ \A d \in Dls : dl[d].st = "lost" \/ dl[d].st # "running"
                       /\ req["updater"].st = "running" => Pending("updater") # {}
                       /\ \A op \in AppOps : app[op] = "running" => AppSub(op) \in DOMAIN sub
                       /\ mup.st # "open"
                       /\ box.in = {}
    BY DEF ToldAtStop, Off
  <2>1. \A r \in MediaReqs : media[r].st = "running" => Pending(r) # {}
    BY DEF IInv, MediaPart, MediaOk
  <2>2. \A d \in Dls : dl[d].st # "running"
    BY DEF IInv, DlPart
  <2>3. req["updater"].st = "running" => Pending("updater") # {}
    BY OthersAre DEF IInv, UploadPart, UploadOk
  <2>4. \A op \in AppOps : app[op] = "running" => AppSub(op) \in DOMAIN sub
    BY DEF IInv, AppPart, Pending
  <2>5. mup.st # "open" /\ box.in = {}
    BY DEF IInv, MuxPart
  <2>. QED  BY <2>1, <2>2, <2>3, <2>4, <2>5
<1>. QED  BY <1>1, <1>2, <1>3

LEMMA SavedHold ==
  ASSUME IInv
  PROVE  DeletedOnlyIfSaved /\ FileOkMeansHere
<1>1. DeletedOnlyIfSaved
  <2>. SUFFICES ASSUME NEW d \in Dls, NEW s \in Pending(d), s[2] \in {"delete", "deldir"}
                PROVE  dl[d].cur.saved /\ dl[d].cur.got = 1..dl[d].cur.files
    BY DEF DeletedOnlyIfSaved
  <2>1. DlOk(d, dl[d], Pending(d))
    BY DEF IInv, DlPart
  <2>2. Stage(d, dl[d], Pending(d))
    BY <2>1 DEF DlOk, DlRec
  <2>3. Stages(d, dl[d].cur, Pending(d))
    BY <2>2 DEF Stage
  <2>. QED  BY <2>3 DEF Stages, Whole
<1>2. FileOkMeansHere
  BY DEF IInv, DlPart, FileOkMeansHere
<1>. QED  BY <1>1, <1>2

LEMMA UploadsHold ==
  ASSUME IInv
  PROVE  UploadsWhole
<1>1. UploadWhole
  <2>. SUFFICES ASSUME NEW o \in Uploaders, req[o].told = <<"OK">>, ~req[o].same
                PROVE  /\ remote[o].file = "same"
                       /\ remote[o].md5 = "same"
                       /\ remote[o].final <=> o = "updater"
                       /\ req[o].sent = Puts(o)
    BY DEF UploadWhole
  <2>1. UploadOk(o, req[o], remote[o], Pending(o)) /\ remote[o] \in HeldRec
    BY DEF IInv, UploadPart
  <2>2. /\ Sent(o, req[o], remote[o]) /\ (o = "updater" => remote[o].final)
        /\ (o = "ephemeris" => ~remote[o].final)
    BY <2>1 DEF UploadOk
  <2>3. o \in {"ephemeris", "updater"} /\ remote[o].final \in BOOLEAN
    BY <2>1 DEF Uploaders, HeldRec
  <2>. QED  BY <2>2, <2>3 DEF Sent
<1>2. FirmwareInOrder
  BY DEF IInv, MuxPart, FirmwareInOrder, First
<1>. QED  BY <1>1, <1>2 DEF UploadsWhole

LEMMA IInvHolds == Spec => []IInv
<1>1. Init => IInv
  BY InitIInv
<1>2. IInv /\ [Next]_svcVars => IInv'
  BY NextIInv
<1>. QED  BY <1>1, <1>2, PTL DEF Spec

(* Whatever the answers, the cancels and the loss of the transport: a      *)
(* media request is told its end when the last of its files is over, a     *)
(* download never tells more items than it announced, and after the        *)
(* disconnection only a request whose FTP request was left behind is still *)
(* untold (finish and abort of each interface, stop_interfaces).           *)
THEOREM EndsAreTold == Spec => []EndsTold
<1>1. IInv => EndsTold
  BY TypesHold, EndsHold DEF EndsTold
<1>. QED  BY <1>1, IInvHolds, PTL

(* A file told sent is on the device, checksum and final name included, and *)
(* a firmware told updated over the multiplexer was taken chunk after chunk *)
(* from the first to the last (update_put_complete_cb, put_complete,        *)
(* updater_mux_channel_recv).                                              *)
THEOREM UploadsAreWhole == Spec => []UploadsWhole
<1>1. IInv => UploadsWhole
  BY UploadsHold
<1>. QED  BY <1>1, IInvHolds, PTL

-----------------------------------------------------------------------------
(***************************************************************************)
(* The medias of a directory: AddLine keeps them sharing out the files it  *)
(* was given.                                                              *)
(***************************************************************************)

LEMMA LeastOf ==
  ASSUME NEW S \in SUBSET Nat, S # {}
  PROVE  \E x \in S : \A y \in S : x <= y
<1>1. \E x \in S : \A y \in S : ~(<<y, x>> \in OpToRel(<, Nat))
  BY NatLessThanWellFounded, WFMin, Zenon
<1>2. PICK x \in S : \A y \in S : ~(<<y, x>> \in OpToRel(<, Nat))
  BY <1>1
<1>3. ASSUME NEW y \in S
      PROVE  x <= y
  <2>1. ~(y < x)
    BY <1>2, <1>3 DEF OpToRel
  <2>. QED  BY <2>1
<1>. QED  BY <1>3

LEMMA MaxOfInterval ==
  ASSUME NEW L \in Nat, NEW S \in SUBSET (0..L), S # {}
  PROVE  Max(S) \in S /\ \A y \in S : y <= Max(S)
<1>. DEFINE T == {L - x : x \in S}
<1>1. T \in SUBSET Nat /\ T # {}
  <2>1. \A x \in S : L - x \in Nat
    OBVIOUS
  <2>. QED  BY <2>1
<1>2. PICK d \in T : \A e \in T : d <= e
  BY <1>1, LeastOf
<1>3. PICK x \in S : d = L - x
  BY <1>2
<1>4. ASSUME NEW y \in S
      PROVE  y <= x
  <2>1. L - y \in T
    OBVIOUS
  <2>2. L - x <= L - y
    BY <1>2, <1>3, <2>1
  <2>. QED  BY <2>2
<1>5. \A y \in S : x >= y
  BY <1>4
<1>6. \E m \in S : \A y \in S : m >= y
  BY <1>5
<1>7. Max(S) \in S /\ \A y \in S : Max(S) >= y
  BY <1>6 DEF Max
<1>. QED  BY <1>7

LEMMA CountUp ==
  ASSUME NEW N \in Nat, NEW T, 0 \in T,
         \A k \in 1..N : k - 1 \in T => k \in T
  PROVE  \A k \in 0..N : k \in T
<1>. DEFINE F == {k \in 0..N : k \notin T}
<1>1. SUFFICES ASSUME F # {}
               PROVE  FALSE
  OBVIOUS
<1>2. F \in SUBSET Nat
  OBVIOUS
<1>3. PICK k \in F : \A j \in F : k <= j
  BY <1>1, <1>2, LeastOf
<1>4. k # 0 /\ k \in 1..N
  BY <1>3
<1>5. k - 1 \notin F
  BY <1>3, <1>4
<1>. QED  BY <1>3, <1>4, <1>5

Lines == [read : BOOLEAN, ext : STRING, stem : [date : STRING, run : STRING]]
Exts == STRING \cup {"jpg", "mp4.jpg"}
Resources == [stem : [date : STRING, run : STRING], thumb : BOOLEAN, ext : Exts]
Medias == [name : [date : STRING, run : STRING], type : {"PHOTO", "VIDEO"}, res : Seq(Resources)]

(* m is a media of files of D, all of its name, each once.                 *)
OfFiles(m, D) ==
    /\ m \in Medias
    /\ Len(m.res) >= 1
    /\ \A k \in DOMAIN m.res :
         /\ m.res[k].stem = m.name
         /\ m.res[k].thumb <=> k = Len(m.res)
         /\ m.res[k].thumb \/ m.res[k] \in {Resource(f) : f \in D}
         /\ \A j \in DOMAIN m.res : m.res[j] = m.res[k] => j = k

Holds(m, f) == m.name = f.stem /\ \E k \in DOMAIN m.res : m.res[k] = Resource(f)

(* The files of D are shared out among medias.                             *)
SharedOut(medias, D) ==
    /\ medias \in Seq(Medias)
    /\ \A i \in DOMAIN medias : OfFiles(medias[i], D)
    /\ \A i, j \in DOMAIN medias : medias[i].name = medias[j].name => i = j
    /\ \A f \in D : Parsed(f.stem) => \E i \in DOMAIN medias : Holds(medias[i], f)

(* A media with one more file of its name.                                 *)
OneMore(m, f) == [m EXCEPT !.res = <<Resource(f)>> \o @]

LEMMA OneMoreOf ==
  ASSUME NEW D \in SUBSET Lines, NEW f \in Lines, f \notin D, f.read,
         \A g \in D : g.read,
         NEW m, OfFiles(m, D), m.name = f.stem
  PROVE  /\ OfFiles(OneMore(m, f), D \cup {f})
         /\ OneMore(m, f).name = m.name
         /\ Holds(OneMore(m, f), f)
         /\ \A g : Holds(m, g) => Holds(OneMore(m, f), g)
<1>. DEFINE r == Resource(f)
            old == m.res
            new == <<r>> \o old
            n == OneMore(m, f)
<1>1. m \in Medias /\ old \in Seq(Resources) /\ Len(old) \in Nat /\ DOMAIN old = 1..Len(old)
      /\ m.name \in [date : STRING, run : STRING] /\ m.type \in {"PHOTO", "VIDEO"}
  BY LenProperties DEF OfFiles, Medias
<1>2. r \in Resources /\ r.stem = m.name /\ ~r.thumb
  BY DEF Resource, Resources, Exts, Lines
<1>3. \A k \in DOMAIN old : old[k] # r
  <2>1. SUFFICES ASSUME NEW k \in DOMAIN old, old[k] = r
                 PROVE  FALSE
    OBVIOUS
  <2>2. old[k] \in {Resource(g) : g \in D}
    BY <1>2, <2>1 DEF OfFiles
  <2>3. PICK g \in D : r = Resource(g)
    BY <2>1, <2>2
  <2>4. g.stem = f.stem /\ g.ext = f.ext /\ g.read = f.read /\ g \in Lines
    BY <2>3 DEF Resource, Lines
  <2>5. g = f
    BY <2>4 DEF Lines
  <2>. QED  BY <2>5
<1>. HIDE DEF r, old
<1>4. /\ new \in Seq(Resources) /\ Len(new) = Len(old) + 1 /\ DOMAIN new = 1..(Len(old) + 1)
      /\ new[1] = r
      /\ \A k \in 1..Len(old) : new[k + 1] = old[k]
  <2>1. <<r>> \in Seq(Resources) /\ Len(<<r>>) = 1 /\ <<r>>[1] = r
    BY <1>2
  <2>2. new \in Seq(Resources) /\ Len(new) = 1 + Len(old)
    BY <1>1, <2>1, ConcatProperties
  <2>3. \A k \in 1..(1 + Len(old)) : new[k] = IF k <= 1 THEN <<r>>[k] ELSE old[k - 1]
    BY <1>1, <2>1, ConcatProperties
  <2>4. DOMAIN new = 1..(Len(old) + 1)
    BY <1>1, <2>2, LenProperties
  <2>5. \A k \in 1..Len(old) : k + 1 \in 1..(1 + Len(old)) /\ ~(k + 1 <= 1) /\ (k + 1) - 1 = k
    BY <1>1
  <2>6. 1 \in 1..(1 + Len(old))
    BY <1>1
  <2>7. new[1] = r
    BY <2>1, <2>3, <2>6
  <2>8. ASSUME NEW k \in 1..Len(old)
        PROVE  new[k + 1] = old[k]
    BY <2>3, <2>5
  <2>9. Len(new) = Len(old) + 1
    BY <1>1, <2>2
  <2>. QED  BY <2>2, <2>4, <2>7, <2>8, <2>9
<1>5. n.res = new /\ n.name = m.name /\ n \in Medias
  <2>1. n = [m EXCEPT !.res = new]
    BY DEF OneMore, old, r
  <2>. HIDE DEF n, new
  <2>. QED  BY <1>1, <1>4, <2>1 DEF Medias
<1>. HIDE DEF new, n
<1>6. \A k \in DOMAIN new : k = 1 \/ (k - 1 \in 1..Len(old) /\ (k - 1) + 1 = k /\ new[k] = old[k - 1])
  BY <1>1, <1>4
<1>7. ASSUME NEW k \in DOMAIN old
      PROVE  /\ old[k].stem = m.name
             /\ old[k].thumb <=> k = Len(old)
             /\ old[k].thumb \/ old[k] \in {Resource(g) : g \in D}
             /\ \A j \in DOMAIN old : old[j] = old[k] => j = k
  BY <1>7 DEF OfFiles, old
<1>8. Len(old) >= 1
  BY DEF OfFiles, old
<1>9. ASSUME NEW k \in DOMAIN new
      PROVE  /\ new[k].stem = m.name
             /\ new[k].thumb <=> k = Len(new)
             /\ new[k].thumb \/ new[k] \in {Resource(g) : g \in D \cup {f}}
             /\ \A j \in DOMAIN new : new[j] = new[k] => j = k
  <2>1. CASE k = 1
    <3>1. new[k] = r /\ k # Len(new)
      BY <1>1, <1>4, <1>8, <2>1
    <3>2. \A j \in DOMAIN new : new[j] = r => j = 1
      BY <1>1, <1>3, <1>6
    <3>3. r \in {Resource(g) : g \in D \cup {f}}
      BY DEF r
    <3>. QED  BY <1>2, <2>1, <3>1, <3>2, <3>3
  <2>2. CASE k # 1
    <3>. DEFINE i == k - 1
    <3>1. i \in DOMAIN old /\ i + 1 = k /\ new[k] = old[i]
      BY <1>1, <1>6, <2>2
    <3>2. i = Len(old) <=> k = Len(new)
      BY <1>1, <1>4
    <3>. HIDE DEF i
    <3>3. /\ old[i].stem = m.name
          /\ old[i].thumb <=> i = Len(old)
          /\ old[i].thumb \/ old[i] \in {Resource(g) : g \in D}
          /\ \A j \in DOMAIN old : old[j] = old[i] => j = i
      BY <1>7, <3>1
    <3>4. ASSUME NEW j \in DOMAIN new, new[j] = new[k]
          PROVE  j = k
      <4>1. j # 1
        BY <1>3, <1>4, <3>1, <3>4
      <4>2. j - 1 \in DOMAIN old /\ new[j] = old[j - 1] /\ (j - 1) + 1 = j
        BY <1>1, <1>6, <4>1
      <4>3. j - 1 = i
        BY <3>1, <3>3, <3>4, <4>2
      <4>. QED  BY <3>1, <4>2, <4>3
    <3>. QED  BY <3>1, <3>2, <3>3, <3>4
  <2>. QED  BY <2>1, <2>2
<1>10. OfFiles(n, D \cup {f})
  <2>1. Len(new) >= 1
    BY <1>1, <1>4
  <2>. QED  BY <1>5, <1>9, <2>1 DEF OfFiles
<1>11. Holds(n, f)
  <2>1. 1 \in DOMAIN new /\ new[1] = Resource(f)
    BY <1>1, <1>4 DEF r
  <2>. QED  BY <1>5, <2>1 DEF Holds
<1>12. ASSUME NEW g, Holds(m, g)
       PROVE  Holds(n, g)
  <2>1. PICK k \in DOMAIN old : old[k] = Resource(g)
    BY <1>12 DEF Holds, old
  <2>2. k + 1 \in DOMAIN new /\ new[k + 1] = Resource(g)
    BY <1>1, <1>4, <2>1
  <2>3. m.name = g.stem
    BY <1>12 DEF Holds
  <2>. QED  BY <1>5, <2>2, <2>3 DEF Holds
<1>. QED  BY <1>5, <1>10, <1>11, <1>12 DEF n

LEMMA AddFileOf ==
  ASSUME NEW D \in SUBSET Lines, NEW f \in Lines, f \notin D, f.read,
         \A g \in D : g.read,
         NEW asked, Types(f.ext) \cap asked # {},
         NEW medias, SharedOut(medias, D)
  PROVE  SharedOut(AddFile(medias, f, asked), D \cup {f})
<1>. DEFINE E == D \cup {f}
            N == Len(medias)
<1>1. /\ medias \in Seq(Medias) /\ N \in Nat /\ DOMAIN medias = 1..N
      /\ \A i \in 1..N : medias[i] \in Medias /\ OfFiles(medias[i], D)
      /\ \A i, j \in 1..N : medias[i].name = medias[j].name => i = j
      /\ \A g \in D : Parsed(g.stem) => \E i \in 1..N : Holds(medias[i], g)
  BY LenProperties, ElementOfSeq DEF SharedOut
<1>2. \A m : OfFiles(m, D) => OfFiles(m, E)
  <2>1. {Resource(g) : g \in D} \subseteq {Resource(g) : g \in E}
    OBVIOUS
  <2>. QED  BY <2>1 DEF OfFiles
<1>3. CASE Joined(medias, f) # {}
  <2>1. PICK i \in 1..N : medias[i].name = f.stem
    BY <1>1, <1>3 DEF Joined
  <2>2. Joined(medias, f) = {i}
    BY <1>1, <2>1 DEF Joined
  <2>. DEFINE new == [j \in 1..N |-> IF j = i THEN OneMore(medias[i], f) ELSE medias[j]]
  <2>3. AddFile(medias, f, asked) = new
    <3>1. \A j \in 1..N : j \in Joined(medias, f) <=> j = i
      BY <2>2
    <3>2. AddFile(medias, f, asked) =
            [j \in 1..N |-> IF j \in Joined(medias, f)
                            THEN [medias[j] EXCEPT !.res = <<Resource(f)>> \o @] ELSE medias[j]]
      BY <1>1, <1>3 DEF AddFile
    <3>. QED  BY <3>1, <3>2 DEF OneMore
  <2>4. OfFiles(medias[i], D)
    BY <1>1
  <2>5. /\ OfFiles(OneMore(medias[i], f), E)
        /\ OneMore(medias[i], f).name = medias[i].name
        /\ Holds(OneMore(medias[i], f), f)
        /\ \A g : Holds(medias[i], g) => Holds(OneMore(medias[i], f), g)
    BY <2>1, <2>4, OneMoreOf
  <2>6. \A j \in 1..N : new[j] = IF j = i THEN OneMore(medias[i], f) ELSE medias[j]
    OBVIOUS
  <2>7. DOMAIN new = 1..N /\ new = [j \in 1..N |-> new[j]]
    OBVIOUS
  <2>. HIDE DEF new, E
  <2>8. \A j \in 1..N : OfFiles(new[j], E) /\ new[j].name = medias[j].name
    BY <1>1, <1>2, <2>5, <2>6
  <2>9. \A j \in 1..N : new[j] \in Medias
    BY <2>8 DEF OfFiles
  <2>10. new \in Seq(Medias)
    BY <1>1, <2>7, <2>9
  <2>11. \A j, k \in 1..N : new[j].name = new[k].name => j = k
    BY <1>1, <2>8
  <2>12. ASSUME NEW g \in E, Parsed(g.stem)
         PROVE  \E j \in 1..N : Holds(new[j], g)
    <3>1. CASE g = f
      BY <2>1, <2>5, <2>6, <3>1
    <3>2. CASE g # f
      <4>1. PICK j \in 1..N : Holds(medias[j], g)
        BY <1>1, <2>12, <3>2 DEF E
      <4>. QED  BY <2>5, <2>6, <4>1
    <3>. QED  BY <3>1, <3>2
  <2>13. SharedOut(new, E)
    BY <2>7, <2>8, <2>10, <2>11, <2>12 DEF SharedOut
  <2>. QED  BY <2>3, <2>13 DEF E
<1>4. CASE Joined(medias, f) = {} /\ Parsed(f.stem)
  <2>. DEFINE thumb == Thumb(f)
              bare == NewMedia(f)
              first == OneMore(bare, f)
              new == <<first>> \o medias
  <2>1. AddFile(medias, f, asked) = new
    <3>. DEFINE more == [NewMedia(f) EXCEPT !.res = <<Resource(f)>> \o @]
    <3>1. first = more
      BY DEF OneMore
    <3>2. AddFile(medias, f, asked) = <<more>> \o medias
      BY <1>4 DEF AddFile
    <3>. HIDE DEF first, more
    <3>. QED  BY <3>1, <3>2
  <2>2. thumb \in Resources /\ thumb.stem = f.stem /\ thumb.thumb
    <3>. DEFINE ext == IF f.ext \in VideoExts THEN "mp4.jpg" ELSE "jpg"
    <3>1. ext \in Exts
      BY DEF Exts
    <3>2. f.stem \in [date : STRING, run : STRING]
      BY DEF Lines
    <3>3. thumb = [stem |-> f.stem, thumb |-> TRUE, ext |-> ext]
      BY DEF Thumb
    <3>. HIDE DEF ext, thumb
    <3>. QED  BY <3>1, <3>2, <3>3 DEF Resources
  <2>3. /\ <<thumb>> \in Seq(Resources) /\ Len(<<thumb>>) = 1 /\ <<thumb>>[1] = thumb
        /\ DOMAIN <<thumb>> = {1}
    BY <2>2
  <2>4. bare \in Medias /\ bare.name = f.stem /\ bare.res = <<thumb>>
    <3>. DEFINE type == CHOOSE t \in Types(f.ext) : TRUE
    <3>1. type \in {"PHOTO", "VIDEO"}
      <4>1. Types(f.ext) # {} /\ Types(f.ext) \subseteq {"PHOTO", "VIDEO"}
        BY DEF Types
      <4>2. type \in Types(f.ext)
        BY <4>1
      <4>. QED  BY <4>1, <4>2
    <3>2. f.stem \in [date : STRING, run : STRING]
      BY DEF Lines
    <3>3. bare = [name |-> f.stem, type |-> type, res |-> <<thumb>>]
      BY DEF NewMedia
    <3>. HIDE DEF type, thumb, bare
    <3>. QED  BY <2>3, <3>1, <3>2, <3>3 DEF Medias
  <2>. HIDE DEF thumb, bare
  <2>5. \A k \in DOMAIN bare.res : k = 1 /\ bare.res[k] = thumb
    BY <2>3, <2>4
  <2>6. OfFiles(bare, D)
    <3>1. Len(bare.res) >= 1 /\ Len(bare.res) = 1
      BY <2>3, <2>4
    <3>. QED  BY <2>2, <2>4, <2>5, <3>1 DEF OfFiles
  <2>7. OfFiles(first, E) /\ first.name = f.stem /\ Holds(first, f)
    BY <2>4, <2>6, OneMoreOf
  <2>. HIDE DEF first
  <2>8. first \in Medias /\ <<first>> \in Seq(Medias) /\ Len(<<first>>) = 1 /\ <<first>>[1] = first
    BY <2>7 DEF OfFiles
  <2>9. /\ new \in Seq(Medias) /\ Len(new) = 1 + N
        /\ \A k \in 1..(1 + N) : new[k] = IF k <= 1 THEN <<first>>[k] ELSE medias[k - 1]
    BY <1>1, <2>8, ConcatProperties
  <2>10. DOMAIN new = 1..(1 + N)
    BY <1>1, <2>9, LenProperties
  <2>. HIDE DEF new, E
  <2>11. new[1] = first /\ 1 \in 1..(1 + N)
    BY <1>1, <2>8, <2>9
  <2>12. \A k \in 1..(1 + N) : k = 1 \/ (k - 1 \in 1..N /\ new[k] = medias[k - 1])
    BY <1>1, <2>9
  <2>13. \A k \in 1..(1 + N) : OfFiles(new[k], E)
    BY <1>1, <1>2, <2>7, <2>11, <2>12
  <2>14. \A i \in 1..N : medias[i].name # f.stem
    BY <1>1, <1>4 DEF Joined
  <2>15. ASSUME NEW j \in 1..(1 + N), NEW k \in 1..(1 + N), new[j].name = new[k].name
         PROVE  j = k
    <3>1. CASE j = 1 \/ k = 1
      BY <2>7, <2>11, <2>12, <2>14, <2>15, <3>1
    <3>2. CASE j # 1 /\ k # 1
      <4>1. j - 1 = k - 1
        BY <1>1, <2>12, <2>15, <3>2
      <4>. QED  BY <1>1, <4>1
    <3>. QED  BY <3>1, <3>2
  <2>16. ASSUME NEW g \in E, Parsed(g.stem)
         PROVE  \E j \in 1..(1 + N) : Holds(new[j], g)
    <3>1. CASE g = f
      BY <2>7, <2>11, <3>1
    <3>2. CASE g # f
      <4>1. PICK j \in 1..N : Holds(medias[j], g)
        BY <1>1, <2>16, <3>2 DEF E
      <4>2. j + 1 \in 1..(1 + N) /\ j + 1 # 1 /\ (j + 1) - 1 = j
        BY <1>1
      <4>3. new[j + 1] = medias[j]
        BY <2>12, <4>2
      <4>. QED  BY <4>1, <4>2, <4>3
    <3>. QED  BY <3>1, <3>2
  <2>17. SharedOut(new, E)
    BY <2>9, <2>10, <2>13, <2>15, <2>16 DEF SharedOut
  <2>. QED  BY <2>1, <2>17 DEF E
<1>5. CASE Joined(medias, f) = {} /\ ~Parsed(f.stem)
  <2>1. AddFile(medias, f, asked) = medias
    BY <1>5 DEF AddFile
  <2>2. SharedOut(medias, E)
    BY <1>1, <1>2, <1>5 DEF SharedOut
  <2>. QED  BY <2>1, <2>2
<1>. QED  BY <1>3, <1>4, <1>5

(* h[s] is what the lines numbered in s make, read in this order.          *)
Adds(h, lines, asked, k) ==
    h = [s \in SUBSET (1..k) |->
           IF s = {} THEN << >>
           ELSE AddLine(h[s \ {Max(s)}], FilesOf(lines)[Max(s)], asked)]

LEMMA AddsIs ==
  ASSUME NEW lines, NEW asked, NEW N \in Nat
  PROVE  \E h : Adds(h, lines, asked, N)
<1>. DEFINE T == {k \in 0..N : \E h : Adds(h, lines, asked, k)}
            files == FilesOf(lines)
            none == << >>
<1>2. 0 \in T
  <2>. DEFINE h == [s \in SUBSET (1..0) |-> none]
  <2>1. \A s \in SUBSET (1..0) : s = {}
    OBVIOUS
  <2>2. Adds(h, lines, asked, 0)
    BY <2>1 DEF Adds
  <2>3. 0 \in 0..N
    OBVIOUS
  <2>. QED  BY <2>2, <2>3
<1>3. ASSUME NEW k \in 1..N, k - 1 \in T
      PROVE  k \in T
  <2>1. PICK g : Adds(g, lines, asked, k - 1)
    BY <1>3
  <2>2. k \in Nat /\ k \in 0..N
    OBVIOUS
  <2>3. /\ \A s \in SUBSET (1..k) : s \ {k} \in SUBSET (1..(k - 1))
        /\ \A s \in SUBSET (1..(k - 1)) : k \notin s /\ s \in SUBSET (1..k)
    BY <2>2
  <2>. DEFINE h == [s \in SUBSET (1..k) |->
                      IF k \in s THEN AddLine(g[s \ {k}], files[k], asked) ELSE g[s]]
  <2>4. \A s \in SUBSET (1..(k - 1)) :
          g[s] = IF s = {} THEN none ELSE AddLine(g[s \ {Max(s)}], files[Max(s)], asked)
    <3>1. g = [s \in SUBSET (1..(k - 1)) |->
                 IF s = {} THEN none ELSE AddLine(g[s \ {Max(s)}], files[Max(s)], asked)]
      BY <2>1 DEF Adds
    <3>. HIDE DEF none, files
    <3>. QED  BY <3>1
  <2>. HIDE DEF none, files
  <2>6. h = [s \in SUBSET (1..k) |-> h[s]]
    OBVIOUS
  <2>7. /\ \A s \in SUBSET (1..(k - 1)) : h[s] = g[s]
        /\ \A s \in SUBSET (1..k) : k \in s => h[s] = AddLine(g[s \ {k}], files[k], asked)
    BY <2>3
  <2>. HIDE DEF h
  <2>8. ASSUME NEW s \in SUBSET (1..k), s # {}
        PROVE  h[s] = AddLine(h[s \ {Max(s)}], files[Max(s)], asked)
    <3>1. s \in SUBSET (0..k)
      BY <2>2
    <3>2. Max(s) \in s /\ \A y \in s : y <= Max(s)
      BY <2>2, <2>8, <3>1, MaxOfInterval
    <3>3. CASE k \in s
      <4>1. Max(s) = k
        <5>1. k <= Max(s) /\ Max(s) \in 1..k
          BY <3>2, <3>3
        <5>. HIDE DEF Max
        <5>. QED  BY <2>2, <5>1
      <4>2. h[s \ {k}] = g[s \ {k}]
        BY <2>3, <2>7
      <4>3. h[s] = AddLine(g[s \ {k}], files[k], asked)
        BY <2>7, <3>3
      <4>. QED  BY <4>1, <4>2, <4>3
    <3>4. CASE k \notin s
      <4>. DEFINE m == Max(s)
      <4>1. s \in SUBSET (1..(k - 1)) /\ s \ {m} \in SUBSET (1..(k - 1))
        BY <2>3, <3>4
      <4>2. h[s] = g[s] /\ h[s \ {m}] = g[s \ {m}]
        BY <2>7, <4>1
      <4>3. g[s] = AddLine(g[s \ {m}], files[m], asked)
        BY <2>4, <2>8, <4>1
      <4>. QED  BY <4>2, <4>3
    <3>. QED  BY <3>3, <3>4
  <2>9. h[{}] = none
    <3>1. {} \in SUBSET (1..(k - 1))
      OBVIOUS
    <3>. QED  BY <2>4, <2>7, <3>1
  <2>10. Adds(h, lines, asked, k)
    <3>1. \A s \in SUBSET (1..k) :
            h[s] = IF s = {} THEN none ELSE AddLine(h[s \ {Max(s)}], files[Max(s)], asked)
      BY <2>8, <2>9
    <3>2. h = [s \in SUBSET (1..k) |->
                 IF s = {} THEN none ELSE AddLine(h[s \ {Max(s)}], files[Max(s)], asked)]
      BY <2>6, <3>1
    <3>. QED  BY <3>2 DEF Adds, none, files
  <2>. QED  BY <2>2, <2>10
<1>. HIDE DEF T
<1>4. N \in T
  <2>1. N \in 0..N
    OBVIOUS
  <2>. QED  BY <1>2, <1>3, <2>1, CountUp
<1>. QED  BY <1>4 DEF T

(* The lines of a directory that are files of a type asked for.            *)
Listed(lines, asked) == {l \in ToSet(lines) : l.read /\ Types(l.ext) \cap asked # {}}

LEMMA MediasShare ==
  ASSUME NEW lines \in Directories, NEW asked
  PROVE  SharedOut(MediasOf(lines, asked), Listed(lines, asked))
<1>. DEFINE N == Len(lines)
            files == FilesOf(lines)
            none == << >>
            Folds(it) == it = [s \in SUBSET (DOMAIN files) |->
                                 IF s = {} THEN none
                                 ELSE AddLine(it[s \ {Max(s)}], files[Max(s)], asked)]
            fold == CHOOSE it : Folds(it)
            Of(k) == {f \in {files[j] : j \in 1..k} : f.read /\ Types(f.ext) \cap asked # {}}
<1>1. MediasOf(lines, asked) = fold[DOMAIN files]
  BY DEF MediasOf, FoldLeft, MapThenFoldSet
<1>2. /\ lines \in Seq(Lines) /\ N \in Nat /\ DOMAIN lines = 1..N
      /\ \A i, j \in 1..N : lines[i] = lines[j] /\ lines[i].read => i = j
      /\ \A i \in 1..N : lines[i] \in Lines
  <2>1. /\ lines \in Seq(Lines)
        /\ \A i, j \in DOMAIN lines : lines[i] = lines[j] /\ lines[i].read => i = j
    BY DirectoriesAssumption DEF Lines
  <2>2. N \in Nat /\ DOMAIN lines = 1..N
    BY <2>1, LenProperties
  <2>3. \A i \in 1..N : lines[i] \in Lines
    BY <2>1, ElementOfSeq
  <2>. QED  BY <2>1, <2>2, <2>3
<1>3. DOMAIN files = 1..N /\ \A i \in 1..N : files[i] = lines[(N - i) + 1]
  BY <1>2 DEF FilesOf, Reverse
<1>4. \A i \in 1..N : (N - i) + 1 \in 1..N /\ (N - ((N - i) + 1)) + 1 = i
  BY <1>2
<1>5. \A i, j \in 1..N : files[i] = files[j] /\ files[i].read => i = j
  BY <1>2, <1>3, <1>4
<1>6. \A i \in 1..N : files[i] \in Lines
  BY <1>2, <1>3, <1>4
<1>7. {files[j] : j \in 1..N} = ToSet(lines)
  <2>1. \A i \in 1..N : lines[i] = files[(N - i) + 1]
    BY <1>3, <1>4
  <2>. HIDE DEF files, N
  <2>. QED  BY <1>2, <1>3, <1>4, <2>1 DEF ToSet
<1>8. PICK h : Adds(h, lines, asked, N)
  BY <1>2, AddsIs
<1>. HIDE DEF N, files
<1>9. Folds(h)
  <2>. HIDE DEF none
  <2>. QED  BY <1>3, <1>8 DEF Adds, files, none
<1>10. Folds(fold)
  <2>. HIDE DEF Folds
  <2>. QED  BY <1>9
<1>11. \A s \in SUBSET (1..N) :
         fold[s] = IF s = {} THEN none ELSE AddLine(fold[s \ {Max(s)}], files[Max(s)], asked)
  <2>1. fold = [s \in SUBSET (1..N) |->
                  IF s = {} THEN none ELSE AddLine(fold[s \ {Max(s)}], files[Max(s)], asked)]
    <3>. HIDE DEF fold, none
    <3>. QED  BY <1>3, <1>10
  <2>. HIDE DEF fold, none
  <2>. QED  BY <2>1
<1>. HIDE DEF Folds, fold
<1>. DEFINE T == {k \in 0..N : SharedOut(fold[1..k], Of(k))}
<1>12. 0 \in T
  <2>1. 1..0 = {} /\ {} \in SUBSET (1..N) /\ 0 \in 0..N
    BY <1>2
  <2>2. fold[{}] = none
    BY <1>11, <2>1
  <2>3. fold[1..0] = none
    BY <2>1, <2>2
  <2>4. Of(0) = {}
    BY <2>1
  <2>5. SharedOut(none, {})
    <3>1. none \in Seq(Medias) /\ DOMAIN none = {}
      OBVIOUS
    <3>. HIDE DEF none
    <3>. QED  BY <3>1 DEF SharedOut
  <2>. HIDE DEF Of
  <2>. QED  BY <2>1, <2>3, <2>4, <2>5
<1>13. ASSUME NEW k \in 1..N, k - 1 \in T
       PROVE  k \in T
  <2>. DEFINE s == 1..k
              f == files[k]
              before == fold[1..(k - 1)]
              D == Of(k - 1)
  <2>1. k \in Nat /\ k \in 0..N /\ s \in SUBSET (1..N) /\ k \in s /\ s \in SUBSET (0..k)
        /\ s # {}
    <3>1. k \in Nat /\ 1 <= k /\ k <= N
      BY <1>2
    <3>2. k \in s /\ \A x \in s : x \in 1..N /\ x \in 0..k
      BY <1>2, <3>1
    <3>3. k \in 0..N
      BY <1>2, <3>1
    <3>. HIDE DEF s
    <3>. QED  BY <3>1, <3>2, <3>3
  <2>2. Max(s) = k
    <3>1. Max(s) \in s /\ \A y \in s : y <= Max(s)
      <4>. HIDE DEF s
      <4>. QED  BY <2>1, MaxOfInterval
    <3>2. k <= Max(s) /\ Max(s) \in 1..k
      BY <2>1, <3>1
    <3>. HIDE DEF Max, s
    <3>. QED  BY <2>1, <3>2
  <2>3. s \ {k} = 1..(k - 1)
    BY <2>1
  <2>4. fold[s] = AddLine(before, f, asked)
    <3>1. fold[s] = AddLine(fold[s \ {k}], files[k], asked)
      <4>. HIDE DEF s
      <4>. QED  BY <1>11, <2>1, <2>2
    <3>. HIDE DEF s
    <3>. QED  BY <2>3, <3>1
  <2>5. SharedOut(before, D)
    BY <1>13
  <2>6. f \in Lines /\ \A j \in 1..(k - 1) : j \in 1..N /\ j # k
    BY <1>2, <1>6
  <2>7. {files[j] : j \in 1..k} = {files[j] : j \in 1..(k - 1)} \cup {f}
    <3>1. \A j \in 1..k : j = k \/ j \in 1..(k - 1)
      BY <2>1
    <3>2. \A j \in 1..(k - 1) : j \in 1..k
      BY <2>1
    <3>. QED  BY <2>1, <3>1, <3>2
  <2>8. D \in SUBSET Lines /\ \A g \in D : g.read
    BY <1>6, <2>6
  <2>9. CASE f.read /\ Types(f.ext) \cap asked # {}
    <3>1. Of(k) = D \cup {f}
      BY <2>7, <2>9
    <3>2. f \notin D
      BY <1>5, <2>6, <2>9
    <3>3. AddLine(before, f, asked) = AddFile(before, f, asked)
      BY <2>9 DEF AddLine
    <3>. HIDE DEF f, D, before, Of
    <3>4. SharedOut(AddFile(before, f, asked), D \cup {f})
      BY <2>5, <2>6, <2>8, <2>9, <3>2, AddFileOf
    <3>. QED  BY <2>1, <2>4, <3>1, <3>3, <3>4
  <2>10. CASE ~(f.read /\ Types(f.ext) \cap asked # {})
    <3>1. Of(k) = D
      BY <2>7, <2>10
    <3>2. AddLine(before, f, asked) = before
      BY <2>10 DEF AddLine, AddFile
    <3>. HIDE DEF f, D, before, Of
    <3>. QED  BY <2>1, <2>4, <2>5, <3>1, <3>2
  <2>. QED  BY <2>9, <2>10
<1>. HIDE DEF T
<1>14. N \in T
  <2>1. N \in 0..N
    BY <1>2
  <2>. QED  BY <1>2, <1>12, <1>13, <2>1, CountUp
<1>15. SharedOut(fold[1..N], Of(N))
  BY <1>14 DEF T
<1>16. Of(N) = Listed(lines, asked)
  BY <1>7 DEF Listed
<1>. HIDE DEF Of
<1>. QED  BY <1>1, <1>3, <1>15, <1>16

LEMMA MediasAreWhole == MediasWhole
<1>1. ASSUME NEW lines \in Directories, NEW asked \in SUBSET {"PHOTO", "VIDEO"}
      PROVE  LET medias == MediasOf(lines, asked)
                 listed == Listed(lines, asked)
             IN  /\ \A f \in listed : Parsed(f.stem) =>
                      \E i \in DOMAIN medias :
                        /\ Resource(f) \in ToSet(medias[i].res)
                        /\ \A j \in DOMAIN medias : medias[j].name = f.stem => j = i
                 /\ \A i \in DOMAIN medias : \A k \in DOMAIN medias[i].res :
                      LET r == medias[i].res[k]
                      IN  /\ r.stem = medias[i].name
                          /\ r.thumb <=> k = Len(medias[i].res)
                          /\ r.thumb \/ r \in {Resource(f) : f \in listed}
                          /\ \A m \in 1..(k - 1) : medias[i].res[m] # r
  <2>. DEFINE medias == MediasOf(lines, asked)
              listed == Listed(lines, asked)
  <2>1. SharedOut(medias, listed)
    BY MediasShare
  <2>. HIDE DEF medias, listed
  <2>2. ASSUME NEW f \in listed, Parsed(f.stem)
        PROVE  \E i \in DOMAIN medias :
                 /\ Resource(f) \in ToSet(medias[i].res)
                 /\ \A j \in DOMAIN medias : medias[j].name = f.stem => j = i
    <3>1. PICK i \in DOMAIN medias : Holds(medias[i], f)
      BY <2>1, <2>2 DEF SharedOut
    <3>2. Resource(f) \in ToSet(medias[i].res) /\ medias[i].name = f.stem
      BY <3>1 DEF Holds, ToSet
    <3>3. \A j \in DOMAIN medias : medias[j].name = f.stem => j = i
      BY <2>1, <3>2 DEF SharedOut
    <3>. QED  BY <3>2, <3>3
  <2>3. ASSUME NEW i \in DOMAIN medias, NEW k \in DOMAIN medias[i].res
        PROVE  LET r == medias[i].res[k]
               IN  /\ r.stem = medias[i].name
                   /\ r.thumb <=> k = Len(medias[i].res)
                   /\ r.thumb \/ r \in {Resource(f) : f \in listed}
                   /\ \A m \in 1..(k - 1) : medias[i].res[m] # r
    <3>. DEFINE media0 == medias[i]
                res == media0.res
    <3>1. OfFiles(media0, listed)
      BY <2>1 DEF SharedOut
    <3>2. /\ res[k].stem = media0.name
          /\ res[k].thumb <=> k = Len(res)
          /\ res[k].thumb \/ res[k] \in {Resource(f) : f \in listed}
          /\ \A j \in DOMAIN res : res[j] = res[k] => j = k
      BY <3>1 DEF OfFiles
    <3>3. DOMAIN res = 1..Len(res) /\ Len(res) \in Nat
      <4>1. res \in Seq(Resources)
        BY <3>1 DEF OfFiles, Medias
      <4>. HIDE DEF res
      <4>. QED  BY <4>1, LenProperties
    <3>4. \A m \in 1..(k - 1) : m \in DOMAIN res /\ m # k
      BY <3>3
    <3>5. \A m \in 1..(k - 1) : res[m] # res[k]
      BY <3>2, <3>4
    <3>. QED  BY <3>2, <3>5
  <2>. QED  BY <2>2, <2>3 DEF medias, listed
<1>. QED  BY <1>1, Zenon DEF MediasWhole, Listed

-----------------------------------------------------------------------------
(* Nothing that a device recorded is lost: an item is deleted there only   *)
(* once all its files are here under its final name, one that is a file is *)
(* told a success only if it is here, and each file of a directory is in   *)
(* one media and once                                                      *)
(* (ftp_get_complete_cb, ftp_del_file_complete, pfld_list_complete_cb).    *)
THEOREM NothingIsLost == Spec => []NothingLost
<1>1. IInv => NothingLost
  BY SavedHold, MediasAreWhole DEF NothingLost
<1>. QED  BY <1>1, IInvHolds, PTL
=============================================================================
