----------------------------- MODULE MCExpansion ------------------------------
(***************************************************************************)
(* Expansion on boards of 5x5 points: eyes of one, two and four points,    *)
(* nakade, groups in a ladder, in danger and in a ko.                      *)
(***************************************************************************)
EXTENDS Expansion, Reading

x == "black"
o == "white"
e == EMPTY

Picture(rows) == [m \in Point |-> rows[Y(m) + 1][X(m) + 1]]

State(rows, last_played, last_eaten, c) ==
  [board |-> [p |-> Picture(rows), last_played |-> last_played, last_eaten |-> last_eaten],
   colour |-> c]

\* Two groups of each player joined by a sheltered point, with an eye each.
Sheltered ==
  << <<e, x, o, o, e>>,
     <<x, x, e, x, o>>,
     <<o, x, x, e, o>>,
     <<e, o, x, x, x>>,
     <<o, o, o, x, e>> >>

\* A stone that runs along the edge.
Ladder ==
  << <<e, e, e, e, e>>,
     <<e, o, o, e, e>>,
     <<e, o, x, e, e>>,
     <<e, e, o, e, e>>,
     <<e, e, e, e, e>> >>

\* Eyes of two points and of four.
Big ==
  << <<e, e, x, o, e>>,
     <<e, e, x, o, e>>,
     <<x, x, x, o, o>>,
     <<x, o, o, o, e>>,
     <<e, x, x, o, e>> >>

\* A bent three to be killed or to live.
Nakade ==
  << <<e, e, x, o, e>>,
     <<e, x, x, o, e>>,
     <<x, x, o, o, o>>,
     <<o, o, o, e, e>>,
     <<e, e, e, e, e>> >>

\* A pyramid of four between three groups.
Pyramid ==
  << <<x, x, e, x, x>>,
     <<x, e, e, e, x>>,
     <<o, x, x, x, o>>,
     <<o, o, o, o, o>>,
     <<e, o, e, o, e>> >>

\* Three groups with two joints.
Joints ==
  << <<x, x, o, e, e>>,
     <<e, e, o, o, e>>,
     <<x, x, o, o, o>>,
     <<e, e, o, o, e>>,
     <<x, x, o, e, o>> >>

\* White has just captured at 7.
Ko ==
  << <<e, x, o, e, e>>,
     <<x, o, e, o, e>>,
     <<e, x, o, e, x>>,
     <<e, e, e, x, e>>,
     <<e, e, e, e, e>> >>

\* At the right edge, above an eye at the left one, a pair.
Wrapped ==
  << <<x, x, x, x, e>>,
     <<e, x, x, x, e>>,
     <<x, x, x, x, x>>,
     <<x, o, o, o, o>>,
     <<o, o, e, o, e>> >>

\* No point is left to either player.
Checkers ==
  << <<e, x, e, x, e>>,
     <<x, e, x, e, x>>,
     <<e, x, e, x, e>>,
     <<x, e, x, e, x>>,
     <<e, x, e, x, e>> >>

Races ==
  << <<e, x, o, e, e>>,
     <<x, x, o, o, o>>,
     <<o, x, x, x, o>>,
     <<o, o, o, x, x>>,
     <<e, o, e, o, x>> >>

Empty == [i \in 1..5 |-> <<e, e, e, e, e>>]

Boards ==
  {State(rows, NONE, NONE, c) : rows \in {Sheltered, Ladder, Big, Nakade, Pyramid, Joints, Races, Checkers}, c \in Player}
  \cup {State(Ko, 6, 7, "black"), State(Empty, NONE, NONE, "black")}

WrappedBoard == {State(Wrapped, NONE, NONE, "black")}

\* The points in order, or mixed: 25 shares no factor with 7.  Addresses are up or down in
\* it; of the list only the first point stays when it is turned round.
Mixed(k) == [m \in Point |-> (k * m) % TOTAL_BOARD_SIZ]
MCAddresses == UNION {{Mixed(k), [m \in Point |-> -Mixed(k)[m]]} : k \in {1, 7}}
MCOrders    == {[i \in 1..TOTAL_BOARD_SIZ |-> Mixed(k)[i - 1]] : k \in {1, 7, 24}}

\* n to the power of 1.28755, rounded down; no stake on these boards is higher than 60.
Powers ==
  LET power ==
        <<1, 2, 4, 5, 7, 10, 12, 14, 16, 19, 21, 24, 27, 29, 32, 35, 38, 41, 44,
        47, 50, 53, 56, 59, 63, 66, 69, 72, 76, 79, 83, 86, 90, 93, 97, 100, 104,
        108, 111, 115, 119, 123, 126, 130, 134, 138, 142, 146, 150, 153, 157, 161,
        165, 170, 174, 178, 182, 186, 190, 194>>
  IN [n \in 1..(U16 - 1) |-> IF n \in DOMAIN power THEN power[n] ELSE 0]
=============================================================================
