--------------------------- MODULE MCSingleSignOn ---------------------------
(* Two overlapping logins of two subjects, at two e-mail addresses. *)
EXTENDS SingleSignOn, TLC

Symmetry == Permutations(Email) \cup Permutations(Subject) \cup Permutations(Login)
=============================================================================
