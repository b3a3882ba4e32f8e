--------------------------- MODULE MCRuntimePlane ---------------------------
(***************************************************************************)
(* Instances of RuntimePlane for TLC.                                      *)
(***************************************************************************)
EXTENDS RuntimePlane

\* Every key was issued for the same environment.
OneScope == [k \in Key |-> CHOOSE e \in Environment : TRUE]
=============================================================================
