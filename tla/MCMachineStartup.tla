-------------------------- MODULE MCMachineStartup --------------------------
(* The run of MachineStartup: stars that come up together, one of them frail. *)
EXTENDS MachineStartup
=============================================================================
