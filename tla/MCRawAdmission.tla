--------------------------- MODULE MCRawAdmission ---------------------------
(* Small instances of RawAdmission. *)
EXTENDS RawAdmission, TLC

Symmetry == Permutations(Requests)
=============================================================================
