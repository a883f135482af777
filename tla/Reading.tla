------------------------------- MODULE Reading --------------------------------
(***************************************************************************)
(* The reading of attacks and defences (src/src/tactical.c): one player    *)
(* attacks a group of the other, who saves it as he can, until it is dead, *)
(* or has room, or the reading is too deep.                                *)
(***************************************************************************)
EXTENDS Tactical

\* Superko is not detected: reading is given up instead.
MaxDepth == BOARD_SIZ * 4

NoneAvenged(cb, om) == {}

\* Plays that capture a neighbour of the group of om, in atari, and not at a liberty
\* of both.
Avenging(cb, om) ==
  LET g == GroupAt(cb, om) IN
  {get_1st_liberty(cb.group[h]) :
     h \in {k \in g.neighbors : /\ cb.group[k].liberties = 1
                                /\ ~groups_share_liberties(g, cb.group[k])}}

RECURSIVE can_be_killed2(_, _, _, _)

\* Whether c can kill the group of om, of the opponent, and is to play.
can_be_killed3(cb, om, c, depth) ==
  LET g == GroupAt(cb, om) IN
  IF g.liberties < 2 THEN TRUE
  ELSE IF g.liberties > 2 \/ depth >= MaxDepth THEN FALSE
  ELSE \E after \in After(cb, c, g.ls) : can_be_killed2(after, om, Opponent(c), depth + 1)

\* Whether the group of om, of c, dies whatever c plays: a capture, a liberty, or
\* nothing there.
can_be_killed2(cb, om, c, depth) ==
  LET g == GroupAt(cb, om) IN
  /\ g.liberties <= 2
  /\ depth < MaxDepth
  /\ \A after \in After(cb, c, Avenging(cb, om) \cup g.ls) \cup {just_pass(cb)} :
       can_be_killed3(after, om, Opponent(c), depth + 1)
=============================================================================
