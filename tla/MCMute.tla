------------------------------- MODULE MCMute -------------------------------
(* Mute for TLC: two indices and one process of each kind.                 *)
EXTENDS Mute
=============================================================================
