--------------------------- MODULE MCHyperClient ---------------------------
(* HyperClient with the constants of the cfg. *)
EXTENDS HyperClient

=============================================================================
