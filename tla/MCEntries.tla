----------------------------- MODULE MCEntries -----------------------------
(* The launcher entries at the size that TLC explores.                     *)
EXTENDS Entries
=============================================================================
