------------------------------ MODULE MCVoice -------------------------------
(* A voice connection of two utterances; the second may continue the first. *)
EXTENDS Voice

MCSids == Utterances
=============================================================================
