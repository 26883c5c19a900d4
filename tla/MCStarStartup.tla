---------------------------- MODULE MCStarStartup ----------------------------
(* The run of StarStartup: DriverDriver, the star's driver and one more. *)
EXTENDS StarStartup
=============================================================================
