--------------------------- MODULE MCInterchange ---------------------------
(* Two connections for one surface. *)
EXTENDS Interchange

Reconnecting == [c \in Conns |-> "peer"]

=============================================================================
