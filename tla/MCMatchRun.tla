---------------------------- MODULE MCMatchRun ----------------------------
(* Small instances of MatchRun for TLC.  The connections are a0 and a1, the *)
(* ones the two slots start with, and b1, a later connection of player 1.   *)
EXTENDS MatchRun, TLC

CONSTANTS a0, a1, b1

MCOriginal == 0 :> a0 @@ 1 :> a1
MCOwner == [c \in Conns |-> IF c = a0 THEN 0 ELSE 1]

Symmetry == Permutations(Gs)

\* Nobody has left before the match was stored: the runs that show what goes
\* wrong later begin here.
AllThere == \A c \in Conns : at[c] = "open"
SpecAllThere == Spec /\ AllThere

=============================================================================
