------------------------------- MODULE MCHold -------------------------------
(* Hold for TLC: two sender keys, windows of a few ticks.                  *)
EXTENDS Hold
=============================================================================
