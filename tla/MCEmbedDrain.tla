----------------------------- MODULE MCEmbedDrain ----------------------------
(* An instance of EmbedDrain for TLC. *)
EXTENDS EmbedDrain, TLC

=============================================================================
