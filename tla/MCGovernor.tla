----------------------------- MODULE MCGovernor -----------------------------
(* Small instances of Governor: loads of two units that want two more of       *)
(* headroom, or one on a first attempt, on a host of four units or six.        *)
EXTENDS Governor, TLC

MCBytes == [r \in Requests |-> 2]
Symmetry == Permutations(Requests)
=============================================================================
