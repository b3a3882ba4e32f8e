--------------------------- MODULE MCRuntimeStore ---------------------------
(***************************************************************************)
(* Instances of RuntimeStore for TLC.                                      *)
(***************************************************************************)
EXTENDS RuntimeStore

\* Every key opens the same scope, so that a scope can outlive one of its keys.
OneScope == [k \in Key |-> CHOOSE sc \in Scope : TRUE]
=============================================================================
