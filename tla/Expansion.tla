------------------------------- MODULE Expansion -------------------------------
(***************************************************************************)
(* The expansion of a state of the tree (src/src/mcts/uct_priors.c): which *)
(* plays are considered from then on, each with the wins and visits it     *)
(* starts from, by the eyes estimated, the groups that can be killed or    *)
(* saved and the place of the play.  A simulation expands a state, or many,*)
(* and plays one of the plays of each.                                     *)
(*                                                                         *)
(* A play that expansion leaves out is never considered by the search.     *)
(* Which play the statistics favour is a choice.                           *)
(***************************************************************************)
EXTENDS Dragons

CONSTANTS
  Starts,           \* the states of a match a search starts from: a board and
                    \* the player to play
  Starting,         \* is_starting: the points of a file of opening points
  Scaled,           \* n to the power of PRIOR_STONE_SCALE_FACTOR, 1.28755, as a u16
  Orders,           \* the orders of the points the list of free ones may follow
  Addresses,        \* where the groups may be in memory, each by its first stone
  MaxPlays          \* bound: plays down the tree

\* Values of a u16.
U16 == 65536

\* config.h refuses smaller boards.
ASSUME ExpansionAssumption ==
  /\ \A s \in Starts : s.colour \in Player /\ OfMatch(s.board, s.colour)
  /\ BOARD_SIZ >= 5
  /\ Starting \subseteq Point
  /\ Scaled \in [1..(U16 - 1) -> 0..(U16 - 1)]
  /\ MaxPlays \in Nat

\* What the board does not tell of the estimate of eyes.  The list of free points is in
\* the order their coming and going left; groups are where malloc found room, each at
\* an address of its own.
ASSUME MemoryAssumption ==
  /\ \A order \in Orders : order \in [1..TOTAL_BOARD_SIZ -> Point] /\ IsInjective(order)
  /\ \A address \in Addresses : address \in [Point -> Int] /\ IsInjective(address)

VARIABLES
  cb,
  colour,           \* is_black
  phase,            \* "new": not expanded yet; "expanded"; "over"
  estimate,         \* the eyes of the groups and what is marked of the points
  saving_play,      \* the stones and liberties a play at each point saves,
  capturable,       \* or captures
  stats,            \* the plays offered: wins mc_w of visits mc_v
  plays             \* bound

tables == <<estimate, saving_play, capturable, stats>>
vars == <<cb, colour, phase, tables, plays>>

PRIOR_EVEN       == 15
PRIOR_NAKADE     == 70
PRIOR_SELF_ATARI == 18
PRIOR_ATTACK     == 28
PRIOR_DEFEND     == 19
PRIOR_PAT3       == 23
PRIOR_NEAR_LAST  == 11
PRIOR_LINE2      == 45
PRIOR_LINE3      == 29
PRIOR_EMPTY      == 40
PRIOR_CORNER     == 44
PRIOR_BAD_PLAY   == 95
PRIOR_PASS       == 130
PRIOR_STARTING   == 76

\* UCT_RESIGN_WINRATE, in percents.
UCT_RESIGN_WINRATE == 20

Distance(i, j) == IF i < j THEN j - i ELSE i - j

nei_dst_3 ==
  [m \in Point |-> {n \in Point : n # m /\ Distance(X(m), X(n)) + Distance(Y(m), Y(n)) <= 3}]

distances_to_border ==
  [m \in Point |-> Lowest({X(m), Y(m), BOARD_SIZ - 1 - X(m), BOARD_SIZ - 1 - Y(m)})]

stones_in_manhattan_dst3(b, m) == Cardinality({n \in nei_dst_3[m] : b.p[n] # EMPTY})

When(test, n) == IF test THEN n ELSE 0

-----------------------------------------------------------------------------
(***************************************************************************)
(* Tactical analysis of the groups with less than two eyes.                *)
(***************************************************************************)
\* For each group of c in danger, the plays that save it, with their reasons.
Saves(b, c, eyes) ==
  UNION {{<<h, r[1], r[2]>> : r \in can_be_saved_all(b, h)} :
           h \in {k \in DOMAIN b.group : /\ b.group[k].colour = c /\ eyes[k] < 2
                                         /\ get_killing_play(b, k) # NONE}}

\* For each group of the opponent that may live or die, the plays that kill it.
Kills(b, c, eyes) ==
  UNION {{<<h, m>> : m \in can_be_killed_all(b, h)} :
           h \in {k \in DOMAIN b.group : /\ b.group[k].colour # c /\ eyes[k] < 2
                                         /\ can_be_saved(b, k)}}

Stakes(g) == Cardinality(g.stones) + g.liberties

\* saving_play and capturable: the stakes of each play read, once for each reason.
AtStake(b, reads) ==
  [m \in Point |-> FoldSet(LAMBDA r, n : (n + Stakes(b.group[r[1]])) % U16, 0,
                           {r \in reads : r[2] = m})]

-----------------------------------------------------------------------------
(***************************************************************************)
(* The plays offered.                                                      *)
(***************************************************************************)
\* A group in atari, or that can be killed, after the play.
lib2_self_atari(b, c, m) ==
  \E after \in {just_play(b, c, m)} : get_killing_play(after, after.g[m]) # NONE

\* What tells c not to play at m: it adds to the visits alone.  Of the plays that
\* capture, only those at the first point of the board excuse a self-atari.
Penalty(b, c, m, e, captures) ==
  LET alone == stones_in_manhattan_dst3(b, m) = 0 IN
  When(m \notin e.okay \/ safe_tigers_mouth(b, c, m), PRIOR_BAD_PLAY)
  + When(out_neighbors4[m] = 2 /\ b.neighbors8[Opponent(c)][m] = 0, PRIOR_BAD_PLAY)
  + When(/\ captures[0] = 0
         /\ libs_after_play(b, c, m).libs < 2 /\ lib2_self_atari(b, c, m), PRIOR_SELF_ATARI)
  + When(alone /\ distances_to_border[m] = 1, PRIOR_LINE2)
  + When(out_neighbors4[m] = 2, PRIOR_CORNER)

\* What tells c to play at m: it adds to both wins and visits.
Bonus(b, c, m, e, eyes, saves, captures, patterns) ==
  LET alone == stones_in_manhattan_dst3(b, m) = 0
      near  == IF b.last_played \in Point THEN mark_near_pos(b, b.last_played) ELSE {}
      dst   == distances_to_border[m]
  IN When(e.nakade[m] > 0 /\ eyes[get_closest_group(b, m)] < 2,
          PRIOR_NAKADE + Scaled[e.nakade[m]])
     + When(saves[m] > 0, PRIOR_DEFEND + Scaled[saves[m]])
     + When(captures[m] > 0, PRIOR_ATTACK + Scaled[captures[m]])
     + When(libs_after_play(b, c, m).libs > 1 /\ m \in patterns, PRIOR_PAT3)
     + When(m \in near, PRIOR_NEAR_LAST)
     + When(alone /\ dst = 2, PRIOR_LINE3)
     + When(alone /\ dst > 2, PRIOR_EMPTY)
     + When(alone /\ m \in Starting, PRIOR_STARTING)

CandidatesAndKo(b, e) == b.empty \cap e.viable

\* Points whose liberties after a play are counted: not viable ones, nor the ko.
Candidates(b, e) == {m \in b.empty : m \in e.viable /\ m # get_ko_play(b)}

\* No play at the edge with no stone around.
Offered(b, c, e) ==
  {m \in Candidates(b, e) :
     /\ libs_after_play(b, c, m).libs > 0
     /\ stones_in_manhattan_dst3(b, m) > 0 \/ distances_to_border[m] > 0}

PassOffered(b, offered) ==
  \/ Cardinality(b.empty) < TOTAL_BOARD_SIZ \div 2
  \/ Cardinality(offered) < TOTAL_BOARD_SIZ \div 8

VisitsOfPenalty(bonus, penalty) == 2 * PRIOR_EVEN + penalty

Visits(bonus, penalty) == 2 * PRIOR_EVEN + bonus + penalty

\* The statistics of the state: the quality of a play is mc_w / mc_v.
Priors(b, c, e, saves, captures, patterns) ==
  LET offered == Offered(b, c, e)
      prior(m) ==
        LET bonus == Bonus(b, c, m, e, e.eyes, saves, captures, patterns)
        IN [mc_w |-> PRIOR_EVEN + bonus,
            mc_v |-> Visits(bonus, Penalty(b, c, m, e, captures))]
      giving_up == [mc_w |-> (PRIOR_PASS * UCT_RESIGN_WINRATE) \div 100, mc_v |-> PRIOR_PASS]
  IN [m \in offered \cup {n \in {PASS} : PassOffered(b, offered)} |->
        IF m = PASS THEN giving_up ELSE prior(m)]

-----------------------------------------------------------------------------
NoTables ==
  /\ estimate' = NONE /\ saving_play' = NONE /\ capturable' = NONE
  /\ stats' = NONE

Init ==
  /\ \E s \in Starts : cb = cfg_from_board(s.board) /\ colour = s.colour
  /\ phase = "new"
  /\ estimate = NONE /\ saving_play = NONE /\ capturable = NONE
  /\ stats = NONE
  /\ plays = 0

\* init_new_state.  The 3x3 patterns, weights of a file, match nowhere or anywhere.
Expand ==
  /\ phase = "new"
  /\ \E e \in {estimate_eyes(cb, colour, order, address) :
                  order \in Orders, address \in Addresses} :
     \E saves \in {AtStake(cb, Saves(cb, colour, e.eyes))},
        captures \in {AtStake(cb, Kills(cb, colour, e.eyes))},
        patterns \in {{}, Point} :
       /\ estimate' = e
       /\ saving_play' = saves
       /\ capturable' = captures
       /\ stats' = Priors(cb, colour, e, saves, captures, patterns)
       /\ cb' = Examined(cb, colour, Candidates(cb, e))
  /\ phase' = "expanded"
  /\ UNCHANGED <<colour, plays>>

\* A play of the tree, which leads to a state that is not expanded.
Select(m) ==
  /\ phase = "expanded" /\ plays < MaxPlays
  /\ m \in DOMAIN stats
  /\ plays' = plays + 1
  /\ IF m = PASS /\ cb.last_played = PASS
     THEN /\ phase' = "over"
          /\ UNCHANGED <<cb, colour>>
     ELSE /\ cb' = IF m = PASS THEN just_pass(cb) ELSE just_play(cb, colour, m)
          /\ phase' = "new"
          /\ colour' = Opponent(colour)
  /\ NoTables

Next == Expand \/ \E m \in Point \cup {PASS} : Select(m)

Spec == Init /\ [][Next]_vars

-----------------------------------------------------------------------------
(***************************************************************************)
(* Properties.                                                             *)
(***************************************************************************)
\* The types of what an expansion finds; no play starts with more wins than visits.
TypeOK ==
  /\ colour \in Player /\ phase \in {"new", "expanded", "over"} /\ plays \in 0..MaxPlays
  /\ phase = "expanded" =>
       /\ estimate.eyes \in [DOMAIN cb.group -> Nat]
       /\ estimate.viable \subseteq Point /\ estimate.okay \subseteq Point
       /\ saving_play \in [Point -> Nat] /\ capturable \in [Point -> Nat]
       /\ DOMAIN stats \subseteq cb.empty \cup {PASS}
       /\ \A m \in DOMAIN stats : stats[m].mc_v > 0 /\ stats[m].mc_w \in 0..stats[m].mc_v

\* Every play offered is legal, and every legal play is offered but those in an own
\* eye and those at the edge with no stone around: whatever the estimate of eyes
\* marks, the search is denied nothing else.  There is always a play, if only to pass.
OffersComplete ==
  phase = "expanded" =>
    /\ DOMAIN stats # {}
    /\ \A m \in DOMAIN stats \ {PASS} : can_play(cb, colour, m)
    /\ \A m \in Point \ DOMAIN stats :
         \/ ~can_play(cb, colour, m)
         \/ is_eye(cb, colour, m)
         \/ out_neighbors4[m] > 0 /\ \A n \in nei_dst_3[m] : cb.p[n] = EMPTY

\* A region of so many free points whose border is all of stones of c.
EnclosedBy(p, c, region, size) ==
  /\ Cardinality(region) = size
  /\ \A m \in region : /\ p[m] = EMPTY
                       /\ \A n \in neighbors_side[m] \ region : p[n] = c

Eyes(b, c)  == {m \in b.empty : is_eye(b, c, m)}
Pairs(b, c) == {m \in b.empty : is_2pt_eye(b, c, m)}
Fours(b, c) == {m \in b.empty : is_4pt_eye(b, c, m)}

Pair(b, m) == {m, SecondPoint(b, m)}

\* A nakade of three to five points around its middle.
Stars(b, c) ==
  {m \in b.empty : b.neighbors8[c][m] > 0 /\ NakadeStar(b, c, m) /\ is_nakade(b, m) > 0}

\* What is taken for an eye of a player is a region of one, two or four points, all of
\* it enclosed by his stones; so is a nakade around its middle, of the size estimated.
ShapesEnclose ==
  \A c \in Player :
    /\ \A m \in Eyes(cb, c)  : EnclosedBy(cb.p, c, {m}, 1)
    /\ \A m \in Pairs(cb, c) : EnclosedBy(cb.p, c, Pair(cb, m), 2)
    /\ \A m \in Fours(cb, c) : EnclosedBy(cb.p, c, Square(m), 4)
    /\ \A m \in Stars(cb, c) :
         EnclosedBy(cb.p, c, {m} \cup FreeBeside(cb, m), is_nakade(cb, m) \div 4)

\* The points in the eyes of c.
EyePoints(b, c) ==
  Eyes(b, c) \cup UNION ({Pair(b, m) : m \in Pairs(b, c)} \cup {Square(m) : m \in Fours(b, c)})

\* The score by stones and eyes is that by stones, and each point of an eye once.
ScoresEyesOnce ==
  score_stones_and_eyes2(cb, 0) =
    score_stones_only(cb.p, 0)
    + 2 * (Cardinality(EyePoints(cb, "black")) - Cardinality(EyePoints(cb, "white")))

\* Eyes are regions enclosed, and scored as such.
EyesEnclose == ShapesEnclose /\ ScoresEyesOnce

\* Whether a group has two eyes does not depend on where in memory the groups are,
\* which decides the heads of the dragons and whose eyes are lost or counted twice:
\* any two of the Addresses agree, whichever of the Orders the points are in.
VerdictOfAnyAddress ==
  phase = "expanded" =>
    \A order \in Orders :
      \A e, f \in {estimate_eyes(cb, colour, order, address) : address \in Addresses} :
        \A h \in DOMAIN cb.group : (e.eyes[h] > 1) = (f.eyes[h] > 1)

\* Two routines read, one an attack and one a defence, and they agree: once the play
\* that kills a group is made no play saves it; once a play that saves it is made, it
\* has three liberties or no play kills it.
ReadingAgrees ==
  phase = "new" =>
    \A h \in DOMAIN cb.group :
      LET c == cb.group[h].colour IN
      /\ cb.group[h].liberties > 1 =>
           \A after \in After(cb, Opponent(c), can_be_killed_all(cb, h)) :
             get_saving_play(after, after.g[h]) = {NONE}
      /\ \A after \in After(cb, c, get_saving_play(cb, h) \ {NONE}) :
           GroupAt(after, h).liberties > 2 \/ get_killing_play(after, after.g[h]) = NONE

\* "Excluding playing in own eyes": no play offered is in an own eye.
OwnEyesSpared ==
  phase = "expanded" => \A m \in DOMAIN stats \ {PASS} : ~is_eye(cb, colour, m)
=============================================================================
