---------------------------- MODULE MCAdmission -----------------------------
(* Small instances of Admission.  One request is wide, the others are narrow *)
(* and compete with it.                                                      *)
EXTENDS Admission, TLC

CONSTANTS wide, narrow, other

MCRequests == {wide, narrow, other}
MCCost     == wide :> 2 @@ narrow :> 1 @@ other :> 1
MCWeights  == 0 :> 2 @@ 1 :> 1 @@ 2 :> 1

\* A wide interactive request against a narrow one and a normal one.
MCWideFirst == wide :> 0 @@ narrow :> 0 @@ other :> 1

\* A normal request against two interactive ones, all of one unit, with the
\* weights of the source.
MCUnitCost      == [r \in MCRequests |-> 1]
MCOneNormal     == wide :> 1 @@ narrow :> 0 @@ other :> 0
MCSourceWeights == 0 :> 3 @@ 1 :> 2 @@ 2 :> 1
=============================================================================
