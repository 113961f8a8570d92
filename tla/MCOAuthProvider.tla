-------------------------- MODULE MCOAuthProvider --------------------------
(* Instances of OAuthProvider: one process, and two that share a database. *)
EXTENDS OAuthProvider, TLC

Symmetry == Permutations(Workers) \cup Permutations(Clients) \cup Permutations(Apps)
=============================================================================
