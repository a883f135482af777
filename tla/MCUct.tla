-------------------------------- MODULE MCUct --------------------------------
(***************************************************************************)
(* Instances of Uct.  The graph Ko is a game with a superko: white plays    *)
(* from w6 to b7, where two stones can be sent, black to w8; there white   *)
(* passes to b9, and black plays to w6 again, or ends the game.            *)
(***************************************************************************)
EXTENDS Uct, TLC

KoSucc ==
  [w6 |-> [x |-> "b7"],
   b7 |-> [x |-> "w8"],
   w8 |-> [pass |-> "b9"],
   b9 |-> [x |-> "w6", pass |-> "b9"]]

\* The end of a game: each player passes, or black plays on first.
EndSucc ==
  [b1 |-> [x |-> "w2", pass |-> "w3"],
   w2 |-> [pass |-> "b4"],
   w3 |-> [pass |-> "w3"],
   b4 |-> [pass |-> "b4"]]

EndOrKoSucc == EndSucc @@ KoSucc

WhiteWins == {-1}

AnyOutcome == {-1, 0, 1}

Symmetry == Permutations(Node)
=============================================================================
