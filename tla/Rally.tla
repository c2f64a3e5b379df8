-------------------------------- MODULE Rally --------------------------------
(***************************************************************************)
(* The ball and the paddles: Tick and RallyReset of backend/internal/match  *)
(* with the operators of backend/internal/physics they call, in the order   *)
(* they call them.                                                         *)
(*                                                                         *)
(* Positions are integers, in any unit small enough; a velocity is what the *)
(* ball moves in one tick (direction * BallSpeed * DT).  Slot 0 defends the  *)
(* bottom, where y is greatest.                                            *)
(*                                                                         *)
(* Abstracted: the cosine and the sine of the bounce angle, and the random  *)
(* direction of a new rally: the ball takes any of the Directions on the    *)
(* side the angle gives.  A player's target is anything at each tick        *)
(* (InputQueue); scores and the end of the match are in MatchRun.           *)
(***************************************************************************)
EXTENDS Integers

Slots == {0, 1}

CONSTANTS
    Court,          \* the length that is 1.0 in the code
    Radius,         \* BallRadius
    HalfWidth,      \* half of PaddleWidth
    HalfHeight,     \* half of PaddleHeight
    PaddleStep,     \* PaddleSpeed * DT
    Line,           \* Player2PaddleY, and the distance of Player1PaddleY from 1.0
    Speed,          \* BallSpeed * DT
    Directions,     \* the moves [x, y] of a tick, y away from the paddle hit
    Targets         \* what the players aim at

\* The paddles stand inside the court and leave room between them; a bounce of
\* at most 60 degrees and a serve always move the ball up or down.
ASSUME RallyAssumption ==
    /\ {Court, Radius, HalfWidth, HalfHeight, PaddleStep, Line, Speed} \subseteq Nat
    /\ 2 * Radius <= Court /\ 2 * HalfWidth <= Court
    /\ 2 * Line + 2 * HalfHeight + 2 * Radius < Court
    /\ HalfHeight <= Line
    /\ Directions \subseteq [x : Nat, y : 1 .. Speed]
    /\ Targets \subseteq 0 .. Court

\* In a tick the ball moves at most the height of a paddle and its own: so it
\* does at the default BallSpeed of 0.55 and up to 1.83.  room.create admits 2.0.
SlowEnough == Speed <= 2 * HalfHeight + 2 * Radius

VARIABLES
    ball,       \* [x, y, vx, vy]
    paddle,     \* PaddleX of each slot
    scored,     \* the slot that has scored, -1 during a rally
    missed,     \* history: since it was served or hit, the ball has been beside
                \* the paddle it flies to, level with it or past it, after a tick
    hitter,     \* history: the slot that hit the ball last, -1 after a serve
    twice       \* history: a paddle has hit the ball twice running

vars == <<ball, paddle, scored, missed, hitter, twice>>

\* NewMatchState: an odd Court has its middle on the unit below.
Middle == Court \div 2

Init ==
    /\ \E d \in Directions :
           d.x = 0 /\ ball = [x |-> Middle, y |-> Middle, vx |-> 0, vy |-> d.y]
    /\ paddle = [s \in Slots |-> Middle]
    /\ scored = -1
    /\ missed = FALSE /\ hitter = -1 /\ twice = FALSE

Least(a, b) == IF a <= b THEN a ELSE b
Greatest(a, b) == IF a >= b THEN a ELSE b
Abs(a) == IF a >= 0 THEN a ELSE -a

-----------------------------------------------------------------------------
(* physics.go *)

MoveBall(b) == [b EXCEPT !.x = @ + b.vx, !.y = @ + b.vy]

LeftWallOnly(b) ==
    IF b.x - Radius <= 0 THEN [b EXCEPT !.x = Radius, !.vx = Abs(@)] ELSE b

\* One wall, then the other.
WallCollide(b) ==
    LET left == IF b.x - Radius <= 0 THEN [b EXCEPT !.x = Radius, !.vx = Abs(@)] ELSE b
    IN  IF left.x + Radius >= Court
        THEN [left EXCEPT !.x = Court - Radius, !.vx = -Abs(@)] ELSE left

MovePaddle(x, target) ==
    LET moved == IF Abs(target - x) <= PaddleStep THEN target
                 ELSE IF target > x THEN x + PaddleStep ELSE x - PaddleStep
    IN  Greatest(HalfWidth, Least(Court - HalfWidth, moved))

PaddleY(s) == IF s = 0 THEN Court - Line ELSE Line

Approaching(b, s) == IF s = 0 THEN b.vy > 0 ELSE b.vy < 0

LevelAtCentre(b, s) ==
    /\ b.y >= PaddleY(s) - HalfHeight
    /\ b.y <= PaddleY(s) + HalfHeight

Level(b, s) ==
    /\ b.y + Radius >= PaddleY(s) - HalfHeight
    /\ b.y - Radius <= PaddleY(s) + HalfHeight

\* Level with the paddle of s or past it.
Reached(b, s) ==
    IF s = 0 THEN b.y + Radius >= PaddleY(0) - HalfHeight
             ELSE b.y - Radius <= PaddleY(1) + HalfHeight

Beside(b, p, s) ==
    b.x + Radius < p[s] - HalfWidth \/ b.x - Radius > p[s] + HalfWidth

FromEitherSide(b, p, s) == Level(b, s) /\ ~Beside(b, p, s)

Hits(b, p, s) == Approaching(b, s) /\ Level(b, s) /\ ~Beside(b, p, s)

\* The direction after the paddle of s is hit: to the side of its middle the
\* ball is on, and away from the player.
Bounces(b, p, s) ==
    {[b EXCEPT !.vx = IF b.x >= p[s] THEN d.x ELSE -d.x,
               !.vy = IF s = 0 THEN -d.y ELSE d.y] :
        d \in {e \in Directions : b.x = p[s] => e.x = 0}}

\* The ball after the paddle of s has been looked at.
PaddleCollide(b, p, s) == IF Hits(b, p, s) THEN Bounces(b, p, s) ELSE {b}

\* Out at the top slot 0 has scored, out at the bottom slot 1.
CheckScore(b) ==
    IF b.y + Radius < 0 THEN 0 ELSE IF b.y - Radius > Court THEN 1 ELSE -1

-----------------------------------------------------------------------------
(* simulation.go *)

Tick ==
    /\ scored = -1
    /\ paddle' \in {[s \in Slots |-> MovePaddle(paddle[s], IF s = 0 THEN t0 ELSE t1)] :
                        t0, t1 \in Targets}
    /\ LET flown == WallCollide(MoveBall(ball))
           slot == IF Hits(flown, paddle', 0) THEN 0
                   ELSE IF Hits(flown, paddle', 1) THEN 1 ELSE -1
       IN  /\ \E b \in PaddleCollide(flown, paddle', 0) :
                  ball' \in PaddleCollide(b, paddle', 1)
           /\ missed' = (slot = -1 /\ (missed \/
                            \E s \in Slots : /\ Approaching(flown, s) /\ Reached(flown, s)
                                            /\ Beside(flown, paddle', s)))
           /\ hitter' = IF slot = -1 THEN hitter ELSE slot
           /\ twice' = (twice \/ (slot # -1 /\ slot = hitter))
    /\ scored' = CheckScore(ball')

LaunchesLevel(d, s) == 0

\* Toward the player who was just scored on.
LaunchVY(d, s) == IF s = 0 THEN -d.y ELSE d.y

\* The rally reset, after the pause.
RallyReset ==
    /\ scored # -1
    /\ \E d \in Directions, left \in BOOLEAN :
           ball' = [x |-> Middle, y |-> Middle,
                    vx |-> IF left THEN -d.x ELSE d.x, vy |-> LaunchVY(d, scored)]
    /\ scored' = -1
    /\ missed' = FALSE /\ hitter' = -1
    /\ UNCHANGED <<paddle, twice>>

Next == Tick \/ RallyReset

Spec == Init /\ [][Next]_vars

\* The ticker goes on, and every pause ends.
FairSpec == Spec /\ WF_vars(Next)

-----------------------------------------------------------------------------
(* Properties *)

\* The ball is between the side walls and each paddle inside the court, and
\* the ball always moves up or down.
TypeOK ==
    /\ ball \in [x : Radius .. Court - Radius, y : Int, vx : Int, vy : Int \ {0}]
    /\ paddle \in [Slots -> HalfWidth .. Court - HalfWidth]
    /\ scored \in Slots \cup {-1}
    /\ missed \in BOOLEAN /\ hitter \in Slots \cup {-1} /\ twice \in BOOLEAN

\* "Slot 0 = P1 scored (ball exits top, P2 missed)": no point without a miss.
\* The ball has not passed, between two ticks, through a paddle that was in line
\* with it all the time.  It holds of a ball that is SlowEnough, and only of that.
ScoredAfterMiss == scored # -1 => missed

\* The paddles hit the ball in turn: a paddle that touches it for several ticks
\* hits it once, and the other player or a serve comes next.
HitsAlternate == ~twice

\* Every rally goes on: either side gets the ball again, or there is a point.
BallReturns ==
    \A s \in Slots : scored = -1 ~> (scored # -1 \/ Approaching(ball, s))

=============================================================================
