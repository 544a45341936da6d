-------------------------- MODULE MCRequestRouting --------------------------
(***************************************************************************)
(* Instances of RequestRouting for TLC.                                    *)
(***************************************************************************)
EXTENDS RequestRouting
=============================================================================
