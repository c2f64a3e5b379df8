--------------------------- MODULE MatchContract ---------------------------
(***************************************************************************)
(* What a match promises its players: points one at a time until one has   *)
(* PointsToWin; one verdict, for the player who has them, or by forfeit    *)
(* while nobody has; a record once there is a verdict, and not before.     *)
(*                                                                         *)
(* It is the specification that MatchRun implements as long as no player   *)
(* sends match.reconnect.                                                  *)
(***************************************************************************)
EXTENDS Naturals

CONSTANTS PointsToWin, None

VARIABLES score, verdict, recorded

vars == <<score, verdict, recorded>>

Players == {0, 1}

HasWon(p) == score[p] = PointsToWin
NobodyHasWon == \A p \in Players : ~HasWon(p)

Init ==
    /\ score = [p \in Players |-> 0]
    /\ verdict = None
    /\ recorded = FALSE

Point(p) ==
    /\ verdict = None
    /\ NobodyHasWon
    /\ score' = [score EXCEPT ![p] = @ + 1]
    /\ UNCHANGED <<verdict, recorded>>

Win(p) ==
    /\ verdict = None
    /\ HasWon(p)
    /\ verdict' = p
    /\ UNCHANGED <<score, recorded>>

WinByForfeit(p) ==
    /\ verdict = None
    /\ NobodyHasWon
    /\ verdict' = p
    /\ UNCHANGED <<score, recorded>>

Record ==
    /\ verdict # None
    /\ recorded' = TRUE
    /\ UNCHANGED <<score, verdict>>

Next ==
    \/ \E p \in Players : Point(p) \/ Win(p) \/ WinByForfeit(p)
    \/ Record

Spec == Init /\ [][Next]_vars

=============================================================================
