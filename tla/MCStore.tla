------------------------------ MODULE MCStore ------------------------------
(* Instances of Store for TLC.                                             *)
EXTENDS Store, TLC

\* Sensors are interchangeable.
Symmetry == Permutations(Sensors)
=============================================================================
