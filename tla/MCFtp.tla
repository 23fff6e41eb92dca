------------------------------- MODULE MCFtp -------------------------------
(* Two requests, one that moves data and one that may not.                 *)
EXTENDS FtpProps, TLC

CONSTANTS r1, r2
MCKinds ==
    (r1 :> {"get", "append", "list", "size", "rename"}) @@ (r2 :> {"delete"})
=============================================================================
