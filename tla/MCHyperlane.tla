---------------------------- MODULE MCHyperlane ----------------------------
(* Constants for model checking Hyperlane that a cfg cannot write. *)
EXTENDS Hyperlane

OneTransform == <<"from">>
NoTransform  == <<>>

=============================================================================
