------------------------ MODULE MCConnectionRegistry ------------------------
(* Instances of ConnectionRegistry: two slots for three database logins.   *)
EXTENDS ConnectionRegistry

Symmetry == Permutations(Callers) \cup Permutations(Keys) \cup Permutations(Managers)
=============================================================================
