--------------------------- MODULE MCClientRegistry ---------------------------
(* Small instances of ClientRegistry for TLC. *)
EXTENDS ClientRegistry, TLC

Symmetry == Permutations(Ids) \cup Permutations(Operators) \cup Permutations(Requests)
=============================================================================
