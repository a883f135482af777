----------------------------- MODULE MCGameRecord -----------------------------
(***************************************************************************)
(* Instances of GameRecord: boards of 2x2 and 3x3 points, numbered from    *)
(* left to right and from top to bottom.                                   *)
(***************************************************************************)
EXTENDS GameRecord

CONSTANT Size

Grid == 0..(Size * Size - 1)

GridAdjacent ==
  [m \in Grid |->
    {n \in Grid : \/ n \div Size = m \div Size /\ n - m \in {-1, 1}
                  \/ n - m \in {-Size, Size}}]

\* A corner ko: white takes at 0 the stone at 1, after black has passed.
\*   . B W        W . W
\*   B W .   to   B W .
\*   . . .        . . .
KoGame ==
  [handicap |-> <<>>, result |-> "Void",
   plays |-> <<<<"black", 3>>, <<"white", 2>>, <<"black", 1>>, <<"white", 4>>,
               <<"black", PASS>>, <<"white", 0>>>>]

\* The ko played on, every fight of it with passes: white may not take again.
PassedKoGame ==
  [KoGame EXCEPT !.result = "Resign",
                 !.plays = @ \o <<<<"black", PASS>>, <<"white", PASS>>, <<"black", 1>>,
                                  <<"white", PASS>>, <<"black", PASS>>>>]

\* The same with handicap stones, and the plays of white in a row, resigned.
HandicapGame ==
  [handicap |-> <<1, 3>>, result |-> "Resign",
   plays |-> <<<<"white", 2>>, <<"white", 4>>, <<"white", 0>>>>]

KoGames == {KoGame, PassedKoGame, HandicapGame}

SmallGame ==
  [handicap |-> <<>>, result |-> "Resign",
   plays |-> <<<<"black", 0>>, <<"white", 1>>, <<"white", 2>>>>]

SmallGames == {SmallGame}

PairsOfVertices == {<<0, 3>>, <<1, 1>>, <<2, PASS>>}

\* Pairs of stones, refused in the middle or not, and as many as there may be.
VerticesGiven ==
  {<<0, 3>>, <<1, 1>>, <<8, PASS>>, <<0, 1, 2, 3, 4, 5, 6, 7>>}

NoVertices == {}

NoGames == {}

Order == <<0>>
=============================================================================
