----------------------------- MODULE MediaList -----------------------------
(***************************************************************************)
(* How the media interface makes medias of the files of a directory        *)
(* (libarsdkctrl/src/arsdk_ftp_itf.c, arsdk_media_itf.c).  A file is named *)
(* [product]_[date]_[run].[ext]; the product adds nothing here, and the    *)
(* date "" stands for one strptime does not read, the run "" for none.     *)
(***************************************************************************)
EXTENDS SequencesExt

PhotoExts == {"jpg", "dng"}
VideoExts == {"mp4"}

\* ext_to_type, parse_ext: none for another extension.
Types(ext) == IF ext \in PhotoExts THEN {"PHOTO"}
              ELSE IF ext \in VideoExts THEN {"VIDEO"} ELSE {}

\* req_list_complete: each line is put before those it has; the total of the
\* first line is not one.
FilesOf(lines) == Reverse(lines)

\* parse_file_name, file_to_media: two underscores are looked for, so that a
\* name without run is refused though the code that follows allows it.
Parsed(stem) == stem.date # "" /\ stem.run # ""

\* arsdk_media_res_new_thumb.
Thumb(f) == [stem |-> f.stem, thumb |-> TRUE,
             ext |-> IF f.ext \in VideoExts THEN "mp4.jpg" ELSE "jpg"]

\* A resource of a media, of file f.
Resource(f) == [stem |-> f.stem, thumb |-> FALSE, ext |-> f.ext]

\* arsdk_media_new_from_file.
NewMedia(f) == [name |-> f.stem, type |-> CHOOSE t \in Types(f.ext) : TRUE,
                res |-> <<Thumb(f)>>]

\* Mutant: a media for each file.
JoinedNever(medias, f) == {}

\* The media of the same name, found first.
Joined(medias, f) == {i \in DOMAIN medias : medias[i].name = f.stem}

\* The loop of pfld_list_complete_cb: file f of a type asked for joins the
\* media of its name, or makes one if its name can be read.
AddFile(medias, f, asked) ==
    IF Types(f.ext) \cap asked = {} THEN medias
    ELSE IF Joined(medias, f) # {}
    THEN [i \in DOMAIN medias |->
            IF i \in Joined(medias, f)
            THEN [medias[i] EXCEPT !.res = <<Resource(f)>> \o @] ELSE medias[i]]
    ELSE IF Parsed(f.stem)
    THEN <<[NewMedia(f) EXCEPT !.res = <<Resource(f)>> \o @]>> \o medias
    ELSE medias

\* A line that list_line_to_file does not read is no file.
AddLine(medias, l, asked) == IF l.read THEN AddFile(medias, l, asked) ELSE medias

\* What the application gets of a directory.
MediasOf(lines, asked) ==
    FoldLeft(LAMBDA medias, l : AddLine(medias, l, asked), << >>, FilesOf(lines))
=============================================================================
