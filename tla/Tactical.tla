------------------------------- MODULE Tactical -------------------------------
(***************************************************************************)
(* What is asked of a fast board beside its rules (src/src/tactical.c,     *)
(* src/src/cfg_helper.c): the shapes of eyes and of connections, and the   *)
(* life of groups of few liberties, read by playing out the attack.        *)
(*                                                                         *)
(* The code writes each test twice, for black and for white; here c is the *)
(* player whose stones are looked for.  Shapes are tested at their left    *)
(* top most point.                                                         *)
(*                                                                         *)
(* The reading itself is a parameter, so that what does not depend on what *)
(* is read can be said without it; Reading has that of the code.           *)
(***************************************************************************)
EXTENDS CfgBoard

CONSTANTS
  Killed2(_, _, _, _),  \* can_be_killed2: whether a group of the player to play dies
  Killed3(_, _, _, _)   \* can_be_killed3: whether he kills the group of the other

border_left(m)   == X(m) = 0
border_right(m)  == X(m) = BOARD_SIZ - 1
border_top(m)    == Y(m) = 0
border_bottom(m) == Y(m) = BOARD_SIZ - 1

LEFT   == -1
RIGHT  == 1
TOP    == -BOARD_SIZ
BOTTOM == BOARD_SIZ

\* Points of an edge count as stones of whoever surrounds the point.
Own4(cb, c, m) == cb.neighbors4[c][m] + out_neighbors4[m]
Own8(cb, c, m) == cb.neighbors8[c][m] + out_neighbors8[m]

FreeRight(cb, m)  == ~border_right(m) /\ cb.p[m + RIGHT] = EMPTY
FreeBottom(cb, m) == ~border_bottom(m) /\ cb.p[m + BOTTOM] = EMPTY

-----------------------------------------------------------------------------
(***************************************************************************)
(* Eyes of several points.                                                 *)
(***************************************************************************)
\* Any free point beside m.
SecondOnAnySide(cb, m) ==
  IF FreeBeside(cb, m) = {} THEN NONE ELSE CHOOSE n \in FreeBeside(cb, m) : TRUE

\* The other point of a pair, if m is the left or the top one.
SecondPoint(cb, m) == IF FreeRight(cb, m) THEN m + RIGHT
                      ELSE IF FreeBottom(cb, m) THEN m + BOTTOM ELSE NONE

\* The diagonals of a pair: one may be missing around each point in the open, none
\* when either point is at an edge.
EnoughDiagonals(cb, c, m, m2) ==
  LET least == IF out_neighbors4[m] + out_neighbors4[m2] > 0 THEN 7 ELSE 6
  IN Own8(cb, c, m) >= least /\ Own8(cb, c, m2) >= least

is_2pt_eye(cb, c, m) ==
  LET m2 == SecondPoint(cb, m) IN
  /\ cb.neighbors4[Opponent(c)][m] = 0
  /\ Own4(cb, c, m) = 3
  /\ m2 # NONE
  /\ Own4(cb, c, m2) = 3
  /\ EnoughDiagonals(cb, c, m, m2)

\* Open to attack: both diagonals missing, in the open.
Forcing2pt(cb, c, m) ==
  LET m2 == SecondPoint(cb, m) IN
  /\ out_neighbors4[m] + out_neighbors4[m2] = 0
  /\ Own8(cb, c, m) + Own8(cb, c, m2) = 12

Square(m) == {m, m + RIGHT, m + BOTTOM, m + BOTTOM + RIGHT}

FreeSquare(cb, m) ==
  ~border_right(m) /\ ~border_bottom(m) /\ \A n \in Square(m) \ {m} : cb.p[n] = EMPTY

InTheOpen(m) == out_neighbors4[m] = 0 /\ out_neighbors4[m + BOTTOM + RIGHT] = 0

StonesAround(cb, c, m) ==
  cb.neighbors8[c][m] + cb.neighbors8[c][m + RIGHT]
  + cb.neighbors8[c][m + BOTTOM] + cb.neighbors8[c][m + BOTTOM + RIGHT]

is_4pt_eye(cb, c, m) ==
  /\ FreeSquare(cb, m)
  /\ IF InTheOpen(m)
     THEN /\ \A n \in Square(m) : cb.neighbors4[c][n] = 2
          /\ StonesAround(cb, c, m) >= 18
     ELSE \A n \in Square(m) : Own8(cb, c, n) = 5

Forcing4pt(cb, c, m) == InTheOpen(m) /\ StonesAround(cb, c, m) = 18

\* A point of the inside of a nakade: at most a stone of the opponent around it,
\* and none at the edge.
FewForeign(cb, c, n) ==
  cb.neighbors8[Opponent(c)][n] <= IF out_neighbors4[n] = 0 THEN 1 ELSE 0

\* Whose stones are counted beside a point of a nakade of c that may be next to
\* its corner.  Above and below, those of black are.
CountedAt(c, m, n) == IF n \in {m + TOP, m + BOTTOM} THEN "black" ELSE c

\* Straight three, bent three, pyramid four or crossed five.
NakadeStar(cb, c, m) ==
  /\ Own4(cb, c, m) < 3
  /\ Own8(cb, c, m) = Own4(cb, c, m) + 4

StarMayLeak(cb, c, m) == \A n \in FreeBeside(cb, m) : FewForeign(cb, c, n)

StarIsClosed(cb, c, m) ==
  \A n \in FreeBeside(cb, m) : Own4(cb, c, n) = 3 /\ FewForeign(cb, c, n)

\* Bulky five or rabbity six.
NakadeCorner(cb, c, m) ==
  /\ Own4(cb, c, m) < 2
  /\ Own8(cb, c, m) = Own4(cb, c, m) + 3

CornerIsClosed(cb, c, m) ==
  LET n4(n)  == Own4(cb, CountedAt(c, m, n), n)
      corner == {n \in FreeBeside(cb, m) : n4(n) = 2}
  IN /\ Cardinality(corner) = 2
     /\ \A n \in corner : cb.neighbors8[Opponent(c)][n] = 0 /\ Own8(cb, c, n) = 4
     /\ \A n \in FreeBeside(cb, m) \ corner : n4(n) = 3 /\ FewForeign(cb, c, n)

\* The play at the middle of a nakade, by an estimate of its size; 0 if not one.
is_nakade(cb, m) ==
  LET around == {c \in Player : cb.neighbors8[c][m] > 0}
      c      == CHOOSE d \in around : TRUE
  IN IF Cardinality(around) # 1 THEN 0
     ELSE IF NakadeStar(cb, c, m)
     THEN IF StarIsClosed(cb, c, m) THEN (4 - Own4(cb, c, m)) * 4 + 4 ELSE 0
     ELSE IF NakadeCorner(cb, c, m) /\ CornerIsClosed(cb, c, m)
     THEN (5 - Own4(cb, c, m)) * 5 ELSE 0

-----------------------------------------------------------------------------
(***************************************************************************)
(* Other shapes.                                                           *)
(***************************************************************************)
sheltered_liberty(cb, m) == \E c \in Player : Own4(cb, c, m) = 4

is_corner_liberty(cb, c, m) ==
  cb.neighbors8[Opponent(c)][m] = 0 /\ Own4(cb, c, m) = 3 /\ Own8(cb, c, m) = 7

AllOfOne(cb, stones) == \E c \in Player : \A n \in stones : cb.p[n] = c

is_vertical_bamboo_joint(cb, m) ==
  /\ ~border_right(m) /\ ~border_top(m) /\ ~border_bottom(m)
  /\ cb.p[m] = EMPTY /\ cb.p[m + RIGHT] = EMPTY
  /\ AllOfOne(cb, {m + TOP, m + RIGHT + TOP, m + BOTTOM, m + RIGHT + BOTTOM})

is_horizontal_bamboo_joint(cb, m) ==
  /\ ~border_left(m) /\ ~border_right(m) /\ ~border_bottom(m)
  /\ cb.p[m] = EMPTY /\ cb.p[m + BOTTOM] = EMPTY
  /\ AllOfOne(cb, {m + LEFT, m + LEFT + BOTTOM, m + RIGHT, m + RIGHT + BOTTOM})

safe_tigers_mouth(cb, c, m) ==
  /\ out_neighbors4[m] = 0
  /\ cb.neighbors4[Opponent(c)][m] = 0 /\ cb.neighbors4[c][m] >= 3
  /\ cb.neighbors8[Opponent(c)][m] <= 1

\* m is free in both.
is_kosumi1(cb, m) ==
  /\ ~border_right(m) /\ ~border_bottom(m)
  /\ AllOfOne(cb, {m + RIGHT, m + BOTTOM}) /\ cb.p[m + RIGHT + BOTTOM] = EMPTY

is_kosumi2(cb, m) ==
  /\ ~border_left(m) /\ ~border_bottom(m)
  /\ AllOfOne(cb, {m + LEFT, m + BOTTOM}) /\ cb.p[m + LEFT + BOTTOM] = EMPTY

\* The order of the diagonal neighbours of a point.
FirstByColumn(S) ==
  CHOOSE m \in S : \A n \in S : X(m) < X(n) \/ (X(m) = X(n) /\ Y(m) <= Y(n))

\* Of the points around m those at its sides come first, by their number; those at its
\* corners follow, column by column.
get_closest_group(cb, m) ==
  LET stones(S) == {n \in S : cb.g[n] # NONE} IN
  IF stones(neighbors_side[m]) # {} THEN cb.g[Lowest(stones(neighbors_side[m]))]
  ELSE IF stones(neighbors_diag[m]) # {} THEN cb.g[FirstByColumn(stones(neighbors_diag[m]))]
  ELSE NONE

groups_share_liberties(g1, g2)  == g1.ls \cap g2.ls # {}
groups_shared_liberties(g1, g2) == Cardinality(g1.ls \cap g2.ls)

\* The play is not in mind yet: the neighbourhood and the liberties of the last.
mark_near_pos(cb, m) ==
  neighbors_3x3[m] \cup IF cb.g[m] # NONE THEN GroupAt(cb, m).ls ELSE {}

-----------------------------------------------------------------------------
(***************************************************************************)
(* Life of groups of at most three liberties.                              *)
(***************************************************************************)
Legal(cb, c, plays) == {m \in plays : can_play(cb, c, m)}

\* The boards after one of some plays.
After(cb, c, plays) == {just_play(cb, c, m) : m \in Legal(cb, c, plays)}

\* The attack of the group h begins at m; or its defence.
Dies(cb, h, m) ==
  LET c == cb.group[h].colour IN
  \E after \in After(cb, Opponent(c), {m}) : Killed2(after, h, c, 0)

Survives(cb, h, m) ==
  LET c == cb.group[h].colour IN
  \E after \in After(cb, c, {m}) : ~Killed3(after, h, Opponent(c), 0)

\* The plays that kill the group h: can_be_killed_all.
can_be_killed_all(cb, h) ==
  LET g == cb.group[h] IN
  IF g.liberties < 2 THEN {m \in {get_1st_liberty(g)} : ~ko_violation(cb, m)}
  ELSE IF g.liberties > 3 THEN {}
  ELSE {m \in g.ls : Dies(cb, h, m)}

FirstOf(plays) == IF plays = {} THEN NONE ELSE Lowest(plays)

\* It stops at the first play that kills.
get_killing_play(cb, h) == FirstOf(can_be_killed_all(cb, h))

\* The three lowest liberties.
ThreeLiberties(g) == {m \in g.ls : Cardinality({n \in g.ls : n < m}) < 3}

\* The plays that save the group h, each with what it is tried for: a group in
\* atari that is captured, or NONE for a liberty.  can_be_saved_all counts a play
\* that captures two groups twice.
SavingReasons(cb, h) ==
  LET g == cb.group[h]
      captures == {k \in g.neighbors : /\ cb.group[k].liberties = 1
                                       /\ ~groups_share_liberties(g, cb.group[k])}
      reasons == {<<get_1st_liberty(cb.group[k]), k>> : k \in captures}
                 \cup {<<m, NONE>> : m \in ThreeLiberties(g)}
  IN {r \in reasons : Survives(cb, h, r[1])}

can_be_saved_all(cb, h) ==
  IF cb.group[h].liberties > 3 THEN {} ELSE SavingReasons(cb, h)

\* A capture, or else the lowest liberty.
FirstFor(reasons) ==
  LET captures == {r[1] : r \in {s \in reasons : s[2] # NONE}}
  IN IF captures # {} THEN captures ELSE {FirstOf({r[1] : r \in reasons})}

\* The plays get_saving_play may return: the neighbours of a group are a set here,
\* whose order decides between captures.
get_saving_play(cb, h) == FirstFor(SavingReasons(cb, h))

can_be_saved(cb, h) == cb.group[h].liberties > 3 \/ NONE \notin get_saving_play(cb, h)

-----------------------------------------------------------------------------
(***************************************************************************)
(* A score by stones and eyes (src/src/scoring.c).                         *)
(***************************************************************************)
\* What the point m alone gives, positive for black.  The shapes are tried for
\* black before white, the largest first.
EyesScore(cb, m) ==
  LET sign(c) == IF c = "black" THEN 1 ELSE -1
      value(eye(_, _, _), n) == \* of the first player that has the shape
        IF eye(cb, "black", m) THEN n ELSE IF eye(cb, "white", m) THEN -n ELSE 0
  IN IF cb.p[m] # EMPTY THEN 2 * sign(cb.p[m])
     ELSE IF value(is_4pt_eye, 8) # 0 THEN value(is_4pt_eye, 8)
     ELSE IF value(is_2pt_eye, 4) # 0 THEN value(is_2pt_eye, 4)
     ELSE value(is_eye, 2)

\* The point after a four point eye is skipped.
score_stones_and_eyes2(cb, komi) ==
  LET Four(m)    == cb.p[m] = EMPTY /\ \E c \in Player : is_4pt_eye(cb, c, m)
      Skipped(m) == m - 1 \in Point /\ Four(m - 1)
  IN FoldSet(LAMBDA m, r : IF Skipped(m) THEN r ELSE r + EyesScore(cb, m), -komi, Point)

score_stones_only(p, komi) ==
  2 * (Cardinality({m \in Point : p[m] = "black"}) - Cardinality({m \in Point : p[m] = "white"}))
  - komi
=============================================================================
