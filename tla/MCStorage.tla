----------------------------- MODULE MCStorage -----------------------------
(* Small instances of Storage for TLC. *)
EXTENDS Storage, TLC

\* Saves, ids and players are interchangeable.
Symmetry == Permutations(Saves) \cup Permutations(Ids) \cup Permutations(Players)

=============================================================================
