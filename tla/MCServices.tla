----------------------------- MODULE MCServices -----------------------------
(* Small instance of the interfaces of a device. *)
EXTENDS ServicesProps

MCOwners == MediaReqs \cup Dls \cup Uploaders \cup {"app"}
MCListings == { << >>, <<"file">>, <<"dir">>, <<"file", "file">>, <<"dir", "file">> }
MCScenarios == { {"crashml", "flight_log"}, {"pud", "mediadelete"},
                 {"updater", "mediaget"}, {"ephemeris", "medialist"},
                 {"put", "list"}, {"get", "delete", "rename"}, {"mux", "mediaget"} }

\* Three lines of different names, one of which may be a line that is not read.
MCStems == {[date |-> "d1", run |-> "A"], [date |-> "d1", run |-> "B"],
            [date |-> "d1", run |-> ""], [date |-> "", run |-> "A"]}
MCFiles == [read : {TRUE}, ext : {"jpg", "dng", "mp4", "txt"}, stem : MCStems]
             \cup [read : {FALSE}, ext : {"jpg"}, stem : {[date |-> "d1", run |-> "A"]}]
MCDirectories ==
    {d \in MCFiles \X MCFiles \X MCFiles : d[1] # d[2] /\ d[1] # d[3] /\ d[2] # d[3]}
=============================================================================
