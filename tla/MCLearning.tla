----------------------------- MODULE MCLearning -----------------------------
(* Small instances of Learning. *)
EXTENDS Learning
=============================================================================
