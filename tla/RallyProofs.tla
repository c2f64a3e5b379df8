----------------------------- MODULE RallyProofs -----------------------------
(***************************************************************************)
(* Proofs about Rally, for any court, paddles, directions and targets that  *)
(* satisfy RallyAssumption.                                                *)
(*                                                                         *)
(* The argument: a ball that has not been missed is still on the near side  *)
(* of the paddle it flies to (Before).  While a tick moves it by at most    *)
(* the height of the paddle and the ball together (SlowEnough, a premise of *)
(* that theorem alone) it cannot pass the paddle without having been level *)
(* with it at the end of some tick.                                         *)
(***************************************************************************)
EXTENDS Rally, TLAPS

\* The ball has not reached the paddle of s.
Before(b, s) ==
    IF s = 0 THEN b.y + Radius <= PaddleY(0) - HalfHeight
             ELSE b.y - Radius >= PaddleY(1) + HalfHeight

IInv ==
    /\ TypeOK
    /\ ball.vy >= -Speed /\ ball.vy <= Speed
    /\ scored = -1 => ball.y + Radius >= 0 /\ ball.y - Radius <= Court
    /\ SlowEnough /\ scored = -1 /\ ~missed =>
           \A s \in Slots : Approaching(ball, s) => Before(ball, s)
    /\ SlowEnough /\ scored # -1 => missed
    /\ hitter = 0 => ball.vy < 0
    /\ hitter = 1 => ball.vy > 0
    /\ ~twice

Balls == [x : Int, y : Int, vx : Int, vy : Int]

-----------------------------------------------------------------------------

LEMMA Constants ==
  /\ Court \in Nat /\ Radius \in Nat /\ HalfWidth \in Nat /\ HalfHeight \in Nat
  /\ PaddleStep \in Nat /\ Line \in Nat /\ Speed \in Nat
  /\ 2 * Radius <= Court /\ 2 * HalfWidth <= Court /\ HalfHeight <= Line
  /\ 2 * Line + 2 * HalfHeight + 2 * Radius < Court
  /\ \A d \in Directions : d.x \in Nat /\ d.y \in Nat /\ d.y >= 1 /\ d.y <= Speed
  /\ \A t \in Targets : t \in Int
<1>1. \A d \in Directions : d \in [x : Nat, y : 1 .. Speed]
  BY RallyAssumption
<1> QED
  BY <1>1, RallyAssumption

LEMMA MiddleInside ==
  /\ Middle \in Int /\ 2 * Middle <= Court /\ 2 * Middle >= Court - 1
  /\ Middle \in Radius .. Court - Radius /\ Middle \in HalfWidth .. Court - HalfWidth
  /\ Middle + Radius <= PaddleY(0) - HalfHeight
  /\ Middle - Radius >= PaddleY(1) + HalfHeight
<1>1. Middle \in Int /\ 2 * Middle <= Court /\ 2 * Middle >= Court - 1
  BY Constants DEF Middle
<1>2. Middle \in Radius .. Court - Radius /\ Middle \in HalfWidth .. Court - HalfWidth
  BY <1>1, Constants
<1>3. Middle + Radius <= Court - Line - HalfHeight /\ Middle - Radius >= Line + HalfHeight
  BY <1>1, Constants
<1> QED
  BY <1>1, <1>2, <1>3 DEF PaddleY

LEMMA MoveBallFields ==
  ASSUME NEW b \in Balls
  PROVE  MoveBall(b) = [x |-> b.x + b.vx, y |-> b.y + b.vy, vx |-> b.vx, vy |-> b.vy]
<1>1. MoveBall(b) = [[b EXCEPT !.x = b.x + b.vx] EXCEPT !.y = b.y + b.vy]
  BY DEF MoveBall, Balls
<1>2. [b EXCEPT !.x = b.x + b.vx] = [x |-> b.x + b.vx, y |-> b.y, vx |-> b.vx, vy |-> b.vy]
  BY DEF Balls
<1> QED
  BY <1>1, <1>2

\* After the walls the ball is between them, and flies up or down as before.
LEMMA WallCollideInside ==
  ASSUME NEW b \in Balls
  PROVE  /\ WallCollide(b).x \in Radius .. Court - Radius
         /\ WallCollide(b).y = b.y /\ WallCollide(b).vy = b.vy
         /\ WallCollide(b) \in Balls
<1> DEFINE left == IF b.x - Radius <= 0 THEN [b EXCEPT !.x = Radius, !.vx = Abs(@)] ELSE b
<1>1. \A v \in Int : Abs(v) \in Int /\ -Abs(v) \in Int
  BY DEF Abs
<1>2. left \in Balls /\ left.x >= Radius /\ left.y = b.y /\ left.vy = b.vy
  <2>1. CASE b.x - Radius <= 0
    <3>1. left = [x |-> Radius, y |-> b.y, vx |-> Abs(b.vx), vy |-> b.vy]
      BY <2>1 DEF Balls
    <3>2. Abs(b.vx) \in Int /\ b.y \in Int /\ b.vy \in Int
      BY <1>1 DEF Balls
    <3> HIDE DEF left
    <3> QED
      BY <3>1, <3>2, Constants DEF Balls
  <2>2. CASE ~(b.x - Radius <= 0)
    <3>1. left = b
      BY <2>2
    <3> HIDE DEF left
    <3>2. b.x \in Int /\ b.x >= Radius
      BY <2>2, Constants DEF Balls
    <3> QED
      BY <3>1, <3>2
  <2> QED
    BY <2>1, <2>2
<1>3. WallCollide(b) = IF left.x + Radius >= Court
                       THEN [left EXCEPT !.x = Court - Radius, !.vx = -Abs(@)] ELSE left
  BY DEF WallCollide
<1> HIDE DEF left
<1>4. CASE left.x + Radius >= Court
  <2>1. WallCollide(b) = [x |-> Court - Radius, y |-> left.y, vx |-> -Abs(left.vx), vy |-> left.vy]
    BY <1>2, <1>3, <1>4 DEF Balls
  <2>2. -Abs(left.vx) \in Int /\ left.y \in Int /\ left.vy \in Int
    BY <1>1, <1>2 DEF Balls
  <2>3. Court - Radius \in Radius .. Court - Radius
    BY Constants
  <2> QED
    BY <2>1, <2>2, <2>3, <1>2 DEF Balls
<1>5. CASE ~(left.x + Radius >= Court)
  <2>1. left.x \in Radius .. Court - Radius
    BY <1>2, <1>5, Constants DEF Balls
  <2> QED
    BY <2>1, <1>2, <1>3, <1>5
<1> QED
  BY <1>4, <1>5

LEMMA MovePaddleInside ==
  ASSUME NEW x \in Int, NEW t \in Int
  PROVE  MovePaddle(x, t) \in HalfWidth .. Court - HalfWidth
<1> DEFINE moved == IF Abs(t - x) <= PaddleStep THEN t
                    ELSE IF t > x THEN x + PaddleStep ELSE x - PaddleStep
<1>1. moved \in Int
  BY Constants
<1>2. MovePaddle(x, t) = Greatest(HalfWidth, Least(Court - HalfWidth, moved))
  BY DEF MovePaddle
<1> HIDE DEF moved
<1>3. Least(Court - HalfWidth, moved) \in Int /\ Least(Court - HalfWidth, moved) <= Court - HalfWidth
  BY <1>1, Constants DEF Least
<1> QED
  BY <1>2, <1>3, Constants DEF Greatest

\* A ball the paddle of s has hit flies away from it, at most at Speed.
LEMMA BounceAway ==
  ASSUME NEW b \in Balls, NEW p, NEW s \in Slots, NEW c \in Bounces(b, p, s)
  PROVE  /\ c \in Balls /\ c.x = b.x /\ c.y = b.y
         /\ c.vy >= -Speed /\ c.vy <= Speed /\ c.vy # 0
         /\ IF s = 0 THEN c.vy < 0 ELSE c.vy > 0
<1>1. PICK d \in Directions :
        c = [b EXCEPT !.vx = IF b.x >= p[s] THEN d.x ELSE -d.x,
                      !.vy = IF s = 0 THEN -d.y ELSE d.y]
  BY DEF Bounces
<1>2. d.x \in Nat /\ d.y \in Nat /\ d.y >= 1 /\ d.y <= Speed
  BY Constants
<1> DEFINE vx == IF b.x >= p[s] THEN d.x ELSE -d.x
           vy == IF s = 0 THEN -d.y ELSE d.y
<1>3. vx \in Int
  BY <1>2
<1>4. /\ vy \in Int /\ vy >= -Speed /\ vy <= Speed /\ vy # 0
      /\ IF s = 0 THEN vy < 0 ELSE vy > 0
  BY <1>2, Constants
<1>5. c = [x |-> b.x, y |-> b.y, vx |-> vx, vy |-> vy]
  BY <1>1 DEF Balls
<1>6. b.x \in Int /\ b.y \in Int
  BY DEF Balls
<1> HIDE DEF vx, vy
<1>7. c.x = b.x /\ c.y = b.y /\ c.vy = vy /\ c \in Balls
  BY <1>3, <1>4, <1>5, <1>6 DEF Balls
<1> QED
  BY <1>4, <1>7

\* One paddle at most has the ball: after a hit the other does not touch it.
LEMMA OneHit ==
  ASSUME NEW b \in Balls, NEW p, NEW c, \E e \in PaddleCollide(b, p, 0) : c \in PaddleCollide(e, p, 1)
  PROVE  /\ Hits(b, p, 0) => c \in Bounces(b, p, 0)
         /\ ~Hits(b, p, 0) /\ Hits(b, p, 1) => c \in Bounces(b, p, 1)
         /\ ~Hits(b, p, 0) /\ ~Hits(b, p, 1) => c = b
<1>1. PICK e \in PaddleCollide(b, p, 0) : c \in PaddleCollide(e, p, 1)
  OBVIOUS
<1>2. CASE Hits(b, p, 0)
  <2>1. e \in Bounces(b, p, 0) /\ e.y = b.y /\ b.y \in Int
    BY <1>1, <1>2, BounceAway DEF PaddleCollide, Slots, Balls
  <2>2. b.y + Radius >= Court - Line - HalfHeight
    BY <1>2 DEF Hits, Level, PaddleY
  <2>3. ~(e.y - Radius <= Line + HalfHeight)
    BY <2>1, <2>2, Constants
  <2>4. ~Hits(e, p, 1)
    BY <2>3 DEF Hits, Level, PaddleY
  <2> QED
    BY <2>1, <2>4, <1>1, <1>2 DEF PaddleCollide
<1>3. CASE ~Hits(b, p, 0)
  <2>1. e = b
    BY <1>1, <1>3 DEF PaddleCollide
  <2> QED
    BY <2>1, <1>1, <1>3 DEF PaddleCollide
<1> QED
  BY <1>2, <1>3


LEMMA InitIInv == Init => IInv
<1> SUFFICES ASSUME Init PROVE IInv
  OBVIOUS
<1>1. PICK d \in Directions : ball = [x |-> Middle, y |-> Middle, vx |-> 0, vy |-> d.y]
  BY DEF Init
<1>2. /\ ball.y = Middle /\ ball.vy = d.y /\ d.y \in Int /\ d.y >= 1 /\ d.y <= Speed
      /\ ball \in [x : Radius .. Court - Radius, y : Int, vx : Int, vy : Int \ {0}]
  BY <1>1, Constants, MiddleInside
<1>3. /\ paddle = [s \in Slots |-> Middle] /\ scored = -1 /\ missed = FALSE
      /\ hitter = -1 /\ twice = FALSE
  BY DEF Init
<1>4. TypeOK
  BY <1>2, <1>3, MiddleInside DEF TypeOK
<1>5. \A s \in Slots : Before(ball, s)
  BY <1>2, MiddleInside DEF Before, Slots
<1>6. ball.y + Radius >= 0 /\ ball.y - Radius <= Court
  BY <1>2, MiddleInside, Constants
<1> QED
  BY <1>2, <1>3, <1>4, <1>5, <1>6, Constants DEF IInv


\* A ball that is between the ends of the court and has not been missed is
\* before the paddle, level with it, or flies the other way, one tick later.
LEMMA CannotPass ==
  ASSUME SlowEnough, NEW b \in Balls, NEW c \in Balls, c.y = b.y + b.vy, c.vy = b.vy,
         b.vy >= -Speed, b.vy <= Speed, NEW s \in Slots,
         Approaching(b, s), Before(b, s), ~Level(c, s)
  PROVE  Before(c, s)
<1>1. b.y \in Int /\ b.vy \in Int /\ c.y \in Int
  BY DEF Balls
<1>2. CASE s = 0
  BY <1>1, <1>2, Constants DEF Before, Approaching, Level, PaddleY, SlowEnough
<1>3. CASE s = 1
  BY <1>1, <1>3, Constants DEF Before, Approaching, Level, PaddleY, SlowEnough
<1> QED
  BY <1>2, <1>3 DEF Slots

LEMMA TickKeeps == ASSUME IInv, Tick PROVE IInv'
<1> DEFINE flown == WallCollide(MoveBall(ball))
           slot == IF Hits(flown, paddle', 0) THEN 0
                   ELSE IF Hits(flown, paddle', 1) THEN 1 ELSE -1
<1>1. /\ scored = -1
      /\ \E e \in PaddleCollide(flown, paddle', 0) : ball' \in PaddleCollide(e, paddle', 1)
      /\ missed' = (slot = -1 /\ (missed \/
                        \E s \in Slots : /\ Approaching(flown, s) /\ Reached(flown, s)
                                        /\ Beside(flown, paddle', s)))
      /\ hitter' = (IF slot = -1 THEN hitter ELSE slot)
      /\ twice' = (twice \/ (slot # -1 /\ slot = hitter))
      /\ scored' = CheckScore(ball')
  BY DEF Tick
<1>2. paddle' \in [Slots -> HalfWidth .. Court - HalfWidth]
  <2>1. PICK t0 \in Targets, t1 \in Targets :
            paddle' = [s \in Slots |-> MovePaddle(paddle[s], IF s = 0 THEN t0 ELSE t1)]
    BY DEF Tick
  <2>2. ASSUME NEW s \in Slots
        PROVE  MovePaddle(paddle[s], IF s = 0 THEN t0 ELSE t1) \in HalfWidth .. Court - HalfWidth
    <3>1. paddle[s] \in Int /\ t0 \in Int /\ t1 \in Int
      BY Constants DEF IInv, TypeOK
    <3> QED
      BY <3>1, MovePaddleInside
  <2> QED
    BY <2>1, <2>2
<1>3. /\ ball \in Balls /\ ball.vy \in Int /\ ball.vy # 0 /\ ball.y \in Int
      /\ ball.x \in Int /\ ball.vx \in Int
  BY Constants DEF IInv, TypeOK, Balls
<1>4. /\ flown \in Balls /\ flown.y = ball.y + ball.vy /\ flown.vy = ball.vy
      /\ flown.x \in Radius .. Court - Radius
  <2>1. MoveBall(ball) = [x |-> ball.x + ball.vx, y |-> ball.y + ball.vy,
                          vx |-> ball.vx, vy |-> ball.vy]
    BY <1>3, MoveBallFields
  <2>2. MoveBall(ball) \in Balls
    BY <2>1, <1>3 DEF Balls
  <2> QED
    BY <2>1, <2>2, WallCollideInside
<1>5. /\ Hits(flown, paddle', 0) => ball' \in Bounces(flown, paddle', 0)
      /\ ~Hits(flown, paddle', 0) /\ Hits(flown, paddle', 1) => ball' \in Bounces(flown, paddle', 1)
      /\ ~Hits(flown, paddle', 0) /\ ~Hits(flown, paddle', 1) => ball' = flown
  BY <1>1, <1>4, OneHit
<1> HIDE DEF flown
<1>6. /\ ball.vy >= -Speed /\ ball.vy <= Speed
      /\ ball.y + Radius >= 0 /\ ball.y - Radius <= Court
      /\ SlowEnough /\ ~missed => \A s \in Slots : Approaching(ball, s) => Before(ball, s)
      /\ hitter = 0 => ball.vy < 0
      /\ hitter = 1 => ball.vy > 0
      /\ twice = FALSE /\ hitter \in {0, 1, -1}
  BY <1>1 DEF IInv, TypeOK, Slots
<1>7. flown.y \in Int /\ flown.vy \in Int
  BY <1>4 DEF Balls
<1>8. ASSUME NEW s \in Slots, slot = s, Hits(flown, paddle', s), ball' \in Bounces(flown, paddle', s)
      PROVE  IInv'
  <2>1. /\ ball' \in Balls /\ ball'.x = flown.x /\ ball'.y = flown.y
        /\ ball'.vy >= -Speed /\ ball'.vy <= Speed /\ ball'.vy # 0
        /\ IF s = 0 THEN ball'.vy < 0 ELSE ball'.vy > 0
    BY <1>8, <1>4, BounceAway
  <2>2. s # -1 /\ (s = 0 \/ s = 1)
    BY DEF Slots
  <2>3. /\ flown.y + Radius >= PaddleY(s) - HalfHeight
        /\ flown.y - Radius <= PaddleY(s) + HalfHeight
        /\ IF s = 0 THEN flown.vy > 0 ELSE flown.vy < 0
    BY <1>8 DEF Hits, Level, Approaching
  <2>4. ball'.y + Radius >= 0 /\ ball'.y - Radius <= Court
    <3>1. CASE s = 0
      BY <3>1, <2>1, <2>3, <1>7, Constants DEF PaddleY
    <3>2. CASE s = 1
      BY <3>2, <2>1, <2>3, <1>7, Constants DEF PaddleY
    <3> QED
      BY <3>1, <3>2, <2>2
  <2>5. scored' = -1
    BY <1>1, <2>1, <2>4, <1>7, Constants DEF CheckScore
  <2>6. \A t \in Slots : Approaching(ball', t) => Before(ball', t)
    <3>1. CASE s = 0
      <4>1. ball'.vy < 0 /\ ~(ball'.vy > 0)
        BY <3>1, <2>1 DEF Balls
      <4>2. ball'.y - Radius >= Line + HalfHeight
        BY <3>1, <2>1, <2>3, <1>7, Constants DEF PaddleY
      <4> QED
        BY <4>1, <4>2 DEF Approaching, Before, PaddleY, Slots
    <3>2. CASE s = 1
      <4>1. ball'.vy > 0 /\ ~(ball'.vy < 0)
        BY <3>2, <2>1, <2>2 DEF Balls
      <4>2. ball'.y + Radius <= Court - Line - HalfHeight
        BY <3>2, <2>1, <2>3, <1>7, Constants DEF PaddleY
      <4> QED
        BY <4>1, <4>2 DEF Approaching, Before, PaddleY, Slots
    <3> QED
      BY <3>1, <3>2, <2>2
  <2>7. hitter' = s /\ missed' = FALSE
    BY <1>1, <1>8, <2>2
  <2>8. twice' = FALSE
    <3>1. hitter # s
      BY <1>4, <1>6, <2>2, <2>3, <1>7
    <3> QED
      BY <3>1, <1>1, <1>6, <1>8
  <2>9. ball' \in [x : Radius .. Court - Radius, y : Int, vx : Int, vy : Int \ {0}]
    BY <2>1, <1>4 DEF Balls
  <2>10. TypeOK'
    BY <1>2, <2>2, <2>5, <2>7, <2>8, <2>9 DEF TypeOK, Slots
  <2> QED
    BY <2>1, <2>2, <2>4, <2>5, <2>6, <2>7, <2>8, <2>10
       DEF IInv, Approaching, Before, PaddleY
<1>9. ASSUME slot = -1, ball' = flown PROVE IInv'
  <2>1. ball' \in [x : Radius .. Court - Radius, y : Int, vx : Int, vy : Int \ {0}]
    BY <1>3, <1>4, <1>9 DEF Balls
  <2>2. hitter' = hitter /\ twice' = FALSE
    BY <1>1, <1>6, <1>9
  <2>3. missed' = (missed \/ \E s \in Slots : /\ Approaching(flown, s) /\ Reached(flown, s)
                                              /\ Beside(flown, paddle', s))
    BY <1>1, <1>9
  <2>4. missed' \in BOOLEAN
    BY <2>3
  <2>5. SlowEnough /\ ~missed' =>
            \A s \in Slots : Approaching(flown, s) => Before(flown, s)
    <3> SUFFICES ASSUME SlowEnough, ~missed', NEW s \in Slots, Approaching(flown, s)
                 PROVE  Before(flown, s)
      OBVIOUS
    <3>1. /\ Approaching(ball, s) /\ ~missed
          /\ ~Reached(flown, s) \/ ~Beside(flown, paddle', s)
      BY <2>3, <1>4 DEF Approaching
    <3>2. Before(ball, s)
      BY <3>1, <1>6
    <3>3. CASE ~Reached(flown, s)
      BY <3>3, <1>7, Constants DEF Reached, Before, PaddleY, Slots
    <3>4. CASE ~Beside(flown, paddle', s)
      <4>1. ~Hits(flown, paddle', s)
        BY <1>9 DEF Slots
      <4>2. ~Level(flown, s)
        BY <4>1, <3>4 DEF Hits
      <4> QED
        BY <4>2, <3>1, <3>2, <1>3, <1>4, <1>6, CannotPass
    <3> QED
      BY <3>1, <3>3, <3>4
  <2>6. scored' \in {0, 1, -1}
        /\ (scored' = -1 => flown.y + Radius >= 0 /\ flown.y - Radius <= Court)
        /\ (scored' = 0 => flown.y + Radius < 0)
        /\ (scored' = 1 => flown.y - Radius > Court)
    BY <1>1, <1>7, <1>9, Constants DEF CheckScore
  <2>7. SlowEnough /\ scored' # -1 => missed'
    <3> SUFFICES ASSUME SlowEnough, scored' # -1, ~missed' PROVE FALSE
      OBVIOUS
    <3>1. CASE scored' = 0
      <4>1. flown.vy < 0 /\ 1 \in Slots
        BY <3>1, <2>6, <1>3, <1>4, <1>6, <1>7, Constants DEF Slots
      <4>2. Before(flown, 1)
        BY <4>1, <2>5 DEF Approaching
      <4> QED
        BY <4>2, <3>1, <2>6, <1>7, Constants DEF Before, PaddleY
    <3>2. CASE scored' = 1
      <4>1. flown.vy > 0 /\ 0 \in Slots
        BY <3>2, <2>6, <1>3, <1>4, <1>6, <1>7, Constants DEF Slots
      <4>2. Before(flown, 0)
        BY <4>1, <2>5 DEF Approaching
      <4> QED
        BY <4>2, <3>2, <2>6, <1>7, Constants DEF Before, PaddleY
    <3> QED
      BY <3>1, <3>2, <2>6
  <2>8. TypeOK'
    BY <1>2, <1>6, <2>1, <2>2, <2>4, <2>6 DEF TypeOK, Slots
  <2> QED
    BY <1>4, <1>6, <1>9, <2>2, <2>5, <2>6, <2>7, <2>8
       DEF IInv, Approaching, Before, PaddleY
<1>10. CASE Hits(flown, paddle', 0)
  BY <1>5, <1>8, <1>10 DEF Slots
<1>11. CASE ~Hits(flown, paddle', 0) /\ Hits(flown, paddle', 1)
  BY <1>5, <1>8, <1>11 DEF Slots
<1>12. CASE ~Hits(flown, paddle', 0) /\ ~Hits(flown, paddle', 1)
  BY <1>5, <1>9, <1>12
<1> QED
  BY <1>10, <1>11, <1>12

LEMMA RallyResetKeeps == ASSUME IInv, RallyReset PROVE IInv'
<1>1. PICK d \in Directions, left \in BOOLEAN :
        ball' = [x |-> Middle, y |-> Middle,
                 vx |-> IF left THEN -d.x ELSE d.x, vy |-> LaunchVY(d, scored)]
  BY DEF RallyReset
<1>2. /\ scored' = -1 /\ missed' = FALSE /\ hitter' = -1 /\ UNCHANGED <<paddle, twice>>
  BY DEF RallyReset
<1>3. d.x \in Nat /\ d.y \in Nat /\ d.y >= 1 /\ d.y <= Speed
  BY Constants
<1>4. /\ LaunchVY(d, scored) \in Int \ {0}
      /\ LaunchVY(d, scored) >= -Speed /\ LaunchVY(d, scored) <= Speed
  BY <1>3, Constants DEF LaunchVY
<1>5. (IF left THEN -d.x ELSE d.x) \in Int
  BY <1>3
<1>6. /\ ball' \in [x : Radius .. Court - Radius, y : Int, vx : Int, vy : Int \ {0}]
      /\ ball'.y = Middle /\ ball'.vy >= -Speed /\ ball'.vy <= Speed
  BY <1>1, <1>4, <1>5, MiddleInside
<1>7. TypeOK'
  BY <1>2, <1>6 DEF IInv, TypeOK
<1>8. \A s \in Slots : Before(ball', s)
  BY <1>6, MiddleInside DEF Before, Slots
<1>9. ball'.y + Radius >= 0 /\ ball'.y - Radius <= Court
  BY <1>6, MiddleInside, Constants
<1> QED
  BY <1>2, <1>6, <1>7, <1>8, <1>9 DEF IInv, Approaching, Before, PaddleY

-----------------------------------------------------------------------------
(* The theorems *)

\* Where the ball is, and who has hit it, is an invariant.
THEOREM InductiveInvariant == Spec => []IInv
<1>1. IInv /\ [Next]_vars => IInv'
  <2> SUFFICES ASSUME IInv, [Next]_vars PROVE IInv'
    OBVIOUS
  <2>1. CASE Tick
    BY <2>1, TickKeeps
  <2>2. CASE RallyReset
    BY <2>2, RallyResetKeeps
  <2>3. CASE UNCHANGED vars
    BY <2>3 DEF vars, IInv, TypeOK, Approaching, Before, PaddleY
  <2> QED
    BY <2>1, <2>2, <2>3 DEF Next
<1> QED
  BY <1>1, InitIInv, PTL DEF Spec

\* The ball never leaves the sides of the court and never flies level, and
\* the paddles stay inside it.
THEOREM TypeCorrect == Spec => []TypeOK
<1>1. IInv => TypeOK
  BY DEF IInv
<1> QED
  BY <1>1, InductiveInvariant, PTL

\* No point without a miss, as CheckScore's comment has it, of a ball that is
\* SlowEnough for PaddleCollide, which looks at it once a tick: BallSpeed up to
\* 1.83 with the code's paddles.
THEOREM NoPointWithoutMiss == SlowEnough /\ Spec => []ScoredAfterMiss
<1>1. SlowEnough /\ IInv => ScoredAfterMiss
  BY DEF IInv, ScoredAfterMiss
<1>2. SlowEnough => [](IInv => ScoredAfterMiss)
  <2> SUFFICES ASSUME SlowEnough PROVE [](IInv => ScoredAfterMiss)
    OBVIOUS
  <2>1. IInv => ScoredAfterMiss
    BY <1>1
  <2> QED
    BY <2>1, PTL
<1> QED
  BY <1>2, InductiveInvariant, PTL

\* The paddles hit the ball in turn, however long it stays level with one.
THEOREM HitsInTurn == Spec => []HitsAlternate
<1>1. IInv => HitsAlternate
  BY DEF IInv, HitsAlternate
<1> QED
  BY <1>1, InductiveInvariant, PTL

=============================================================================
