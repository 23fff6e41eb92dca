---------------------------- MODULE MCMuxBackend ----------------------------
(***************************************************************************)
(* Three connections; a controller that supports less, as much or nothing  *)
(* of what the device does; sizes at the borders of the variable fields;   *)
(* each type of argument, and numbers that are the same in two classes.    *)
(***************************************************************************)
EXTENDS MuxBackendProps

MCCtrlRanges == {<<1, 1>>, <<1, 3>>, <<3, 3>>}
MCDevRange == <<1, 2>>
MCHeaders == {[type |-> 2, id |-> 1, seq |-> 255], [type |-> 4, id |-> 255, seq |-> 256]}
MCLens == {0, 127, 128}

Desc(prj, cls, cmd, args) == [prj |-> prj, cls |-> cls, cmd |-> cmd, args |-> args]
MCTable ==
    <<<<<<Desc(0, 0, 0, <<"I8", "U8", "I16", "U16">>), Desc(0, 0, 1, <<"I32", "U32", "ENUM">>)>>,
        <<Desc(0, 3, 0, <<"STRING", "STRING", "U8">>), Desc(0, 3, 256, <<"STRING">>)>>>>,
      <<<<Desc(255, 0, 0, <<"I64", "U64", "FLOAT", "DOUBLE">>), Desc(255, 0, 1, << >>)>>,
        <<Desc(255, 1, 0, <<"U16", "U16", "BINARY">>), Desc(255, 1, 1, <<"BINARY", "ENUM">>)>>>>>>
MCValues ==
    [I8 |-> {-128, 127}, U8 |-> {0, 255}, I16 |-> {-32768, 255}, U16 |-> {0, 65535},
     I32 |-> {-2147483647, 65536}, U32 |-> {0, 2147483647},
     I64 |-> {-300, 2147483647}, U64 |-> {0, 2147483647},
     FLOAT |-> {0, 1065353216}, DOUBLE |-> {0, 16777216}, ENUM |-> {-1, 3},
     STRING |-> {<< >>, <<65, 255>>}, BINARY |-> {<< >>, <<0>>, <<0, 7, 0>>}]
=============================================================================
