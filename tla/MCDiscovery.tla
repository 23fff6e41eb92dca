---------------------------- MODULE MCDiscovery ----------------------------
(* Small instance of the controller: two devices of the same name. *)
EXTENDS DiscoveryProps

MCDevs == { [name |-> "drone", id |-> "i1"], [name |-> "drone", id |-> "i2"] }
MCDiscs == {"mux", "net", "avahi"}
MCHandles == {1, 2, 3}
MCScenarios == { {"mux", "app"}, {"net", "app"}, {"avahi"} }
=============================================================================
