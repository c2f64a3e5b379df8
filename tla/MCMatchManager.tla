--------------------------- MODULE MCMatchManager ---------------------------
(* A small instance of MatchManager for TLC. *)
EXTENDS MatchManager, TLC

\* No action and no invariant tells one connection, code or run from another.
Symmetry == Permutations(Conns) \cup Permutations(Codes) \cup Permutations(Runs)

\* Bound: match.reconnect is sent where there is one match, or two matches play
\* without it.
Bounded == asked = {} \/ Cardinality({r \in Runs : phase[r] # "free"}) <= 1

=============================================================================
