----------------------------- MODULE MCFeedback -----------------------------
(* Feedback for TLC: three threads over two slots of each kind.            *)
EXTENDS Feedback
=============================================================================
