-------------------------------- MODULE GoBoard --------------------------------
(***************************************************************************)
(* The rules of Go as matilda's slow board has them                        *)
(* (src/src/state_changes.c, src/src/board.c): placing a stone, captures,  *)
(* suicide and the ko.  The fast board of the playouts, and the record of  *)
(* a match, are both bound by these.                                       *)
(*                                                                         *)
(* A board is any finite graph of points in one piece: only who neighbours *)
(* whom matters to the rules.  The code floods a chain of stones from one  *)
(* of them, and looks at the neighbours of a play left, right, top and     *)
(* bottom; the chains it captures do not touch, so that they are captured  *)
(* at once here.                                                           *)
(***************************************************************************)
EXTENDS Integers, FiniteSets

CONSTANTS
  Point,      \* 0..TOTAL_BOARD_SIZ-1
  Adjacent,   \* the points left, right, above and below each point
  EMPTY, PASS, NONE

ASSUME BoardAssumption ==
  /\ IsFiniteSet(Point) /\ Point # {}
  /\ Adjacent \in [Point -> SUBSET Point]
  /\ \A m, n \in Point : n \in Adjacent[m] => m \in Adjacent[n] /\ m # n
  /\ \A A \in (SUBSET Point) \ {{}, Point} : \E m \in A : ~(Adjacent[m] \subseteq A)
  /\ PASS \notin Point /\ NONE \notin Point /\ PASS # NONE
  /\ EMPTY \notin {"black", "white"}

Player == {"black", "white"}

Opponent(c) == IF c = "black" THEN "white" ELSE "black"

Board ==
  [p : [Point -> Player \cup {EMPTY}],
   last_played : Point \cup {PASS, NONE},
   last_eaten : Point \cup {NONE}]

clear_board ==
  [p |-> [m \in Point |-> EMPTY], last_played |-> NONE, last_eaten |-> NONE]

-----------------------------------------------------------------------------
\* The stones connected to the stone m.
Chain(p, m) ==
  LET same == {n \in Point : p[n] = p[m]} IN
  {n \in same : \A S \in SUBSET same :
      (m \in S /\ \A s \in S : Adjacent[s] \cap same \subseteq S) => n \in S}

is_alive(p, m) == \E n \in Chain(p, m) : \E a \in Adjacent[n] : p[a] = EMPTY

surrounded_stone(p, m) ==
  \A a \in Adjacent[m] : p[a] = (IF p[m] = "black" THEN "white" ELSE "black")

\* The stones that the stone just placed at m captures.
Captured(p, m) ==
  UNION {Chain(p, n) :
           n \in {a \in Adjacent[m] : p[a] = Opponent(p[m]) /\ ~is_alive(p, a)}}

Placed(b, c, m) == [b.p EXCEPT ![m] = c]

\* just_play_slow2, and its count of stones captured.
captured(b, c, m) == Cardinality(Captured(Placed(b, c, m), m))

just_play_slow2(b, c, m) ==
  LET p     == Placed(b, c, m)
      eaten == Captured(p, m)
  IN [p |-> [n \in Point |-> IF n \in eaten THEN EMPTY ELSE p[n]],
      last_played |-> m,
      last_eaten |-> IF Cardinality(eaten) = 1 THEN CHOOSE n \in eaten : TRUE
                                               ELSE NONE]

pass(b) == [b EXCEPT !.last_played = PASS, !.last_eaten = NONE]

NoKo(b, c, m) == FALSE

\* One stone captured one stone, and m would capture it back.
test_ko(b, c, m) ==
  m = b.last_eaten /\ surrounded_stone(Placed(b, c, m), b.last_played)

SuicideOfManyAllowed(b, c, m) ==
  /\ b.p[m] = EMPTY
  /\ ~test_ko(b, c, m)
  /\ captured(b, c, m) > 0 \/ ~surrounded_stone(Placed(b, c, m), m)

\* Legal but for superko: group suicides are prohibited.
can_play_slow(b, c, m) ==
  /\ b.p[m] = EMPTY
  /\ ~test_ko(b, c, m)
  /\ captured(b, c, m) > 0 \/ is_alive(Placed(b, c, m), m)

-----------------------------------------------------------------------------
(***************************************************************************)
(* What a search may rely on of the board it starts from.                  *)
(***************************************************************************)
\* The last stone played is on the board.
LastStands(b) == b.last_played \in Point => b.p[b.last_played] # EMPTY

\* The ko is where the last play took a stone, and against the player c.
KoAgainst(b, c) ==
  b.last_eaten \in Point =>
    /\ b.last_played \in Adjacent[b.last_eaten]
    /\ b.p[b.last_eaten] = EMPTY
    /\ \A a \in Adjacent[b.last_eaten] : b.p[a] = Opponent(c)

\* A board of a match, c to play.
OfMatch(b, c) ==
  /\ b \in Board
  /\ \A m \in Point : b.p[m] # EMPTY => is_alive(b.p, m)
  /\ LastStands(b) /\ KoAgainst(b, c)
=============================================================================
