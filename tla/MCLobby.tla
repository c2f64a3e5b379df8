------------------------------ MODULE MCLobby ------------------------------
(* Small instances of Lobby for TLC. *)
EXTENDS Lobby, TLC

\* Connections, codes and room objects are interchangeable.
Symmetry == Permutations(Conns) \cup Permutations(Codes) \cup Permutations(Rooms)

=============================================================================
