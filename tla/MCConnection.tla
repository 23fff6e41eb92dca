---------------------------- MODULE MCConnection ----------------------------
(* Two controllers: c1 has version 2 in common with the device, c2 2 and 3.*)
EXTENDS Connection

CONSTANTS c1, c2
MCVersions == (c1 :> [min |-> 1, max |-> 2]) @@ (c2 :> [min |-> 2, max |-> 3])
MCMaxConn == (c1 :> 2) @@ (c2 :> 1)
MCMaxAttempts == (c1 :> 1) @@ (c2 :> 1)
MCDevVersions == [min |-> 1, max |-> 3]
=============================================================================
