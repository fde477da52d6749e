------------------------------ MODULE MCSetup ------------------------------
(* The life of an installation at the size that TLC explores.              *)
EXTENDS Setup
=============================================================================
