------------------------------ MODULE MCPlayout ------------------------------
(***************************************************************************)
(* Playout on a board of 3x3 points, from boards with few points free.     *)
(***************************************************************************)
EXTENDS Playout

CONSTANT Free      \* how many points are free

At(x, y) == x + BOARD_SIZ * y

Symmetries ==
  LET far(i) == BOARD_SIZ - 1 - i IN
  {[m \in Point |-> At(X(m), Y(m))], [m \in Point |-> At(far(X(m)), Y(m))],
   [m \in Point |-> At(X(m), far(Y(m)))], [m \in Point |-> At(far(X(m)), far(Y(m)))],
   [m \in Point |-> At(Y(m), X(m))], [m \in Point |-> At(far(Y(m)), X(m))],
   [m \in Point |-> At(Y(m), far(X(m)))], [m \in Point |-> At(far(Y(m)), far(X(m)))]}

Digit(v) == IF v = EMPTY THEN 0 ELSE Value(v)

Code(p) == FoldLeft(LAMBDA n, m : 3 * n + Digit(p[m]), 0, [i \in 1..TOTAL_BOARD_SIZ |-> i - 1])

\* One board of each class of symmetric ones, on which every chain lives, as any
\* sequence of plays leaves them.
LateBoards ==
  {p \in [Point -> Player \cup {EMPTY}] :
     /\ Cardinality({m \in Point : p[m] = EMPTY}) \in Free
     /\ \A s \in Symmetries : Code(p) <= Code([m \in Point |-> p[s[m]]])
     /\ \A m \in Point : p[m] # EMPTY => is_alive(p, m)}

\* Black to play, after a pass of white or on a board that was set up.
LateStarts ==
  {[board |-> [p |-> p, last_played |-> last, last_eaten |-> NONE], colour |-> "black"] :
     p \in LateBoards, last \in {NONE, PASS}}
=============================================================================
