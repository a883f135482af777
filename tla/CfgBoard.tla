------------------------------- MODULE CfgBoard -------------------------------
(***************************************************************************)
(* The board of the search and the playouts (src/src/cfg_board.c): beside  *)
(* the stones it keeps their groups, with liberties and neighbours, counts *)
(* of stones around each point and the pattern of its 3x3 neighbourhood,   *)
(* each updated by the plays and none computed again.                      *)
(*                                                                         *)
(* A group is a block of memory that the points of its stones refer to; it *)
(* stands here for its first stone, which the code names it by and which   *)
(* never changes.  The lists of stones, of neighbours and of free points   *)
(* are sets; unique_groups, whose indices the groups keep, is a sequence.  *)
(***************************************************************************)
EXTENDS Integers, Sequences, FiniteSets, SequencesExt

CONSTANTS BOARD_SIZ, EMPTY, PASS, NONE

ASSUME SizeAssumption == BOARD_SIZ \in Nat \ {0, 1}

TOTAL_BOARD_SIZ == BOARD_SIZ * BOARD_SIZ

Point == 0..(TOTAL_BOARD_SIZ - 1)

ASSUME MarkAssumption ==
  /\ PASS \notin Point /\ NONE \notin Point /\ PASS # NONE
  /\ EMPTY \notin {"black", "white"}

X(m) == m % BOARD_SIZ
Y(m) == m \div BOARD_SIZ

\* The points at the left, right, top and bottom of a point, in this order.
Sides ==
  [m \in Point |->
     (IF X(m) > 0             THEN <<m - 1>>         ELSE <<>>) \o
     (IF X(m) < BOARD_SIZ - 1 THEN <<m + 1>>         ELSE <<>>) \o
     (IF Y(m) > 0             THEN <<m - BOARD_SIZ>> ELSE <<>>) \o
     (IF Y(m) < BOARD_SIZ - 1 THEN <<m + BOARD_SIZ>> ELSE <<>>)]

neighbors_side == [m \in Point |-> ToSet(Sides[m])]

neighbors_diag ==
  [m \in Point |-> {n \in Point : X(m) - X(n) \in {-1, 1} /\ Y(m) - Y(n) \in {-1, 1}}]

neighbors_3x3 == [m \in Point |-> neighbors_side[m] \cup neighbors_diag[m]]

out_neighbors4 == [m \in Point |-> 4 - Cardinality(neighbors_side[m])]
out_neighbors8 == [m \in Point |-> 8 - Cardinality(neighbors_3x3[m])]

\* The rules, on the board the program has.
INSTANCE GoBoard WITH Adjacent <- neighbors_side

-----------------------------------------------------------------------------
(***************************************************************************)
(* Groups.                                                                 *)
(***************************************************************************)
Value(c) == IF c = "black" THEN 1 ELSE 2

NewGroup(c, m, idx) ==
  [colour |-> c, liberties |-> 0, ls |-> {}, liberties_min_coord |-> TOTAL_BOARD_SIZ,
   stones |-> {m}, neighbors |-> {}, unique_groups_idx |-> idx]

Lower(m, n) == IF m < n THEN m ELSE n

Lowest(S) == CHOOSE m \in S : \A n \in S : m <= n

\* The lowest liberty is left as it was.
AddLibertyNoMin(g, S) ==
  [g EXCEPT !.ls = @ \cup S, !.liberties = @ + Cardinality(S \ g.ls)]

\* The points of S become liberties, but for those that are already.
add_liberty(g, S) ==
  LET new == S \ g.ls IN
  IF new = {} THEN g
  ELSE [g EXCEPT !.ls = @ \cup new, !.liberties = @ + Cardinality(new),
                 !.liberties_min_coord = Lower(Lowest(new), @)]

rem_liberty_unchecked(g, m) == [g EXCEPT !.ls = @ \ {m}, !.liberties = @ - 1]

\* FoldLeft, each value computed before the next.
FoldSteps(op(_, _), base, seq) ==
  FoldLeft(LAMBDA v, n : CHOOSE w \in {op(u, n) : u \in {v}} : TRUE, base, seq)

\* Makes neighbours of the groups a and b, unless a has b already.
add_neighbor(groups, a, b) ==
  IF b \in groups[a].neighbors THEN groups
  ELSE [groups EXCEPT ![a].neighbors = @ \cup {b}, ![b].neighbors = @ \cup {a}]

\* The group id, leaving, is no longer a neighbour of those it touches.
rem_neighbor(groups, id) ==
  [h \in DOMAIN groups |->
     IF h \in groups[id].neighbors THEN [groups[h] EXCEPT !.neighbors = @ \ {id}]
                                   ELSE groups[h]]

\* The neighbours of the group to_replace are made neighbours of to_keep in its
\* place, unless to_keep has them already.
HandOverNeighbors(groups, to_keep, to_replace) ==
  LET had   == groups[to_keep].neighbors
      given == groups[to_replace].neighbors
  IN [h \in DOMAIN groups |->
        IF h = to_keep THEN [groups[h] EXCEPT !.neighbors = @ \cup given]
        ELSE IF h \in given
        THEN [groups[h] EXCEPT !.neighbors =
                (@ \ {to_replace}) \cup (IF h \in had THEN {} ELSE {to_keep})]
        ELSE groups[h]]

\* The group moved is not told its new index.
DellocLeavesIndex(cb, id) ==
  LET count == Len(cb.unique_groups) - 1
      idx   == cb.group[id].unique_groups_idx
  IN [cb EXCEPT
        !.unique_groups = [i \in 1..count |->
                             IF i = idx THEN cb.unique_groups[count + 1] ELSE @[i]],
        !.group = [h \in DOMAIN @ \ {id} |-> @[h]]]

\* The last of the unique groups takes the place of the one removed.
delloc_group(cb, id) ==
  LET count == Len(cb.unique_groups) - 1
      idx   == cb.group[id].unique_groups_idx
      last  == cb.unique_groups[count + 1]
  IN [cb EXCEPT
        !.unique_groups = [i \in 1..count |-> IF i = idx THEN last ELSE @[i]],
        !.group = [h \in DOMAIN @ \ {id} |->
                     IF h = last THEN [@[h] EXCEPT !.unique_groups_idx = idx] ELSE @[h]]]

\* The counts added: a liberty of both counts twice.
UniteLibertiesTwice(keep, replace) ==
  [keep EXCEPT !.ls = @ \cup replace.ls, !.liberties = @ + replace.liberties,
               !.liberties_min_coord = Lower(@, replace.liberties_min_coord)]

\* Liberties of the group to_replace go to to_keep.
UniteLiberties(keep, replace) ==
  IF replace.liberties = 0 THEN keep
  ELSE [keep EXCEPT !.ls = @ \cup replace.ls,
                    !.liberties = Cardinality(keep.ls \cup replace.ls),
                    !.liberties_min_coord = Lower(@, replace.liberties_min_coord)]

unite_groups(cb, to_keep, to_replace) ==
  LET replaced == cb.group[to_replace]
      groups   == HandOverNeighbors(cb.group, to_keep, to_replace)
  IN delloc_group(
       [cb EXCEPT !.g = [m \in Point |-> IF m \in replaced.stones THEN to_keep ELSE @[m]],
                  !.group = [groups EXCEPT
                    ![to_keep] = [UniteLiberties(groups[to_keep], replaced) EXCEPT
                                    !.stones = @ \cup replaced.stones]]],
       to_replace)

\* A stone of colour c at m, in the counts and the patterns around it.
pos_set_occupied(cb, c, m) ==
  [cb EXCEPT
     !.neighbors4[c] = [n \in Point |-> IF n \in neighbors_side[m] THEN @[n] + 1 ELSE @[n]],
     !.neighbors8[c] = [n \in Point |-> IF n \in neighbors_3x3[m] THEN @[n] + 1 ELSE @[n]],
     !.hash = [n \in Point |-> IF n \in neighbors_3x3[m]
                               THEN [cb.hash[n] EXCEPT ![m] = @ + Value(c)]
                               ELSE cb.hash[n]]]

\* The neighbour n of a new stone at m; met are the groups met before.
Meet(s, c, m, n) ==
  LET h   == s.cb.g[n]
      own == s.cb.g[m]
      cb  == [s.cb EXCEPT !.group[h] = rem_liberty_unchecked(@, m)]
  IN IF h = NONE THEN [s EXCEPT !.cb.group[own] = add_liberty(@, {n})]
     ELSE IF h \in s.met THEN s
     ELSE [cb  |-> IF cb.group[h].colour = c THEN unite_groups(cb, h, own)
                   ELSE [cb EXCEPT !.group = add_neighbor(@, own, h)],
           met |-> s.met \cup {h}]

\* The neighbours of a new stone of colour c at m, in turn.
MeetNeighbors(cb, c, m) ==
  FoldSteps(LAMBDA s, n : Meet(s, c, m, n), [cb |-> cb, met |-> {}], Sides[m]).cb

\* Captures nothing.  A group of the new stone is united to those it meets.
add_stone(cb, c, m) ==
  LET idx   == Len(cb.unique_groups) + 1
      alone == [cb EXCEPT !.g[m] = m,
                          !.group = [h \in DOMAIN @ \cup {m} |->
                                       IF h = m THEN NewGroup(c, m, idx) ELSE @[h]],
                          !.unique_groups = Append(@, m)]
  IN MeetNeighbors(pos_set_occupied(alone, c, m), c, m)

cfg_init_board ==
  [p |-> [m \in Point |-> EMPTY], last_played |-> NONE, last_eaten |-> NONE,
   hash |-> [m \in Point |-> [n \in neighbors_3x3[m] |-> 0]],
   empty |-> Point,
   neighbors4 |-> [c \in Player |-> [m \in Point |-> 0]],
   neighbors8 |-> [c \in Player |-> [m \in Point |-> 0]],
   unique_groups |-> <<>>,
   g |-> [m \in Point |-> NONE],
   group |-> [h \in {} |-> NewGroup("black", h, 1)]]

cfg_from_board(b) ==
  FoldSteps(LAMBDA cb, m : IF b.p[m] = EMPTY THEN cb ELSE add_stone(cb, b.p[m], m),
           [cfg_init_board EXCEPT
              !.p = b.p, !.last_played = b.last_played, !.last_eaten = b.last_eaten,
              !.empty = {m \in Point : b.p[m] = EMPTY}],
           [i \in 1..TOTAL_BOARD_SIZ |-> i - 1])

-----------------------------------------------------------------------------
(***************************************************************************)
(* Plays.                                                                  *)
(***************************************************************************)
\* Fields of two bits.
Xor(v, w) == IF v = w THEN 0 ELSE IF v = 0 THEN w ELSE IF w = 0 THEN v ELSE 6 - v - w

\* The counts of eight neighbours lose those of four.
SetFreeSidesOnly(cb, stones, c) ==
  [cb EXCEPT
     !.neighbors4[c] = [n \in Point |-> @[n] - Cardinality(neighbors_side[n] \cap stones)],
     !.neighbors8[c] = [n \in Point |-> @[n] - Cardinality(neighbors_side[n] \cap stones)],
     !.hash = [n \in Point |-> [m \in neighbors_3x3[n] |->
                 IF m \in stones THEN Xor(@[n][m], Value(c)) ELSE @[n][m]]]]

\* The stones of a group killed leave the counts and the patterns around them.
pos_set_free(cb, stones, c) ==
  [cb EXCEPT
     !.neighbors4[c] = [n \in Point |-> @[n] - Cardinality(neighbors_side[n] \cap stones)],
     !.neighbors8[c] = [n \in Point |-> @[n] - Cardinality(neighbors_3x3[n] \cap stones)],
     !.hash = [n \in Point |-> [m \in neighbors_3x3[n] |->
                 IF m \in stones THEN Xor(@[n][m], Value(c)) ELSE @[n][m]]]]

\* The points of stones become liberties of the groups of colour own beside them.
add_liberties_to_neighbors(cb, stones, own) ==
  [h \in DOMAIN cb.group |->
     add_liberty(cb.group[h],
       {m \in stones : \E n \in neighbors_side[m] : cb.p[n] = own /\ cb.g[n] = h})]

\* A group with no liberties is removed.  What the three variants of the code
\* keep besides: the stones removed, the liberties its neighbours then have.
cfg_board_kill_group(s, id, own) ==
  LET dead   == s.cb.group[id]
      freed  == pos_set_free(s.cb, dead.stones, dead.colour)
      empty  == [freed EXCEPT !.p = [m \in Point |-> IF m \in dead.stones THEN EMPTY ELSE @[m]],
                              !.g = [m \in Point |-> IF m \in dead.stones THEN NONE ELSE @[m]],
                              !.empty = @ \cup dead.stones]
      groups == add_liberties_to_neighbors(empty, dead.stones, own)
  IN [cb       |-> delloc_group([empty EXCEPT !.group = rem_neighbor(groups, id)], id),
      captures |-> s.captures + Cardinality(dead.stones),
      removed  |-> s.removed \cup {<<m, s.cb.p[m]>> : m \in dead.stones},
      libs     |-> s.libs \cup UNION {groups[h].ls : h \in dead.neighbors},
      one_stone_captured |-> s.one_stone_captured]

\* The neighbour n of the stone of colour c just placed at m.
Capture(s, c, n) ==
  LET h == s.cb.g[n] IN
  IF h # NONE /\ s.cb.group[h].colour # c /\ s.cb.group[h].liberties = 0
  THEN [cfg_board_kill_group(s, h, c) EXCEPT !.one_stone_captured = n]
  ELSE s

Captures(placed, c, m) ==
  FoldSteps(LAMBDA t, n : Capture(t, c, n),
           [cb |-> placed, captures |-> 0, removed |-> {}, libs |-> {},
            one_stone_captured |-> NONE],
           IF placed.neighbors4[Opponent(c)][m] > 0 THEN Sides[m] ELSE <<>>)

Finished(s, m) ==
  [s EXCEPT !.cb.last_eaten = IF s.captures = 1 THEN s.one_stone_captured ELSE NONE,
            !.cb.last_played = m,
            !.cb.empty = @ \ {m}]

\* What just_play, just_play2 and just_play3 have in common.
Play(cb, c, m) == Finished(Captures(add_stone([cb EXCEPT !.p[m] = c], c, m), c, m), m)

just_play(cb, c, m) == Play(cb, c, m).cb

\* Codes are only added.
ZobristAdds(hash, codes) == hash \cup codes

\* The Zobrist hash is the set of the codes combined in it.
zobrist_update_hash(hash, codes) == (hash \ codes) \cup (codes \ hash)

just_play2(cb, c, m, hash) ==
  LET s == Play(cb, c, m) IN
  [cb |-> s.cb, hash |-> zobrist_update_hash(zobrist_update_hash(hash, {<<m, c>>}), s.removed)]

just_play3(cb, c, m, diff) ==
  LET s      == Play(cb, c, m)
      stones == 1 + s.captures
  IN [cb |-> s.cb, diff |-> IF c = "black" THEN diff + stones ELSE diff - stones,
      stones_removed |-> {e[1] : e \in s.removed}, rem_nei_libs |-> s.libs]

\* The ko outlives a pass.
PassKeepsKo(cb) == [cb EXCEPT !.last_played = PASS]

just_pass(cb) == [cb EXCEPT !.last_played = PASS, !.last_eaten = NONE]

-----------------------------------------------------------------------------
(***************************************************************************)
(* What is asked of a point before a play.                                 *)
(***************************************************************************)
GroupAt(cb, m) == cb.group[cb.g[m]]

\* A snapback is taken for a ko.
KoOfAnyStones(cb, m) ==
  /\ cb.last_eaten = m
  /\ GroupAt(cb, cb.last_played).liberties = 1

ko_violation(cb, m) ==
  /\ cb.last_eaten = m
  /\ GroupAt(cb, cb.last_played).stones = {cb.last_played}
  /\ GroupAt(cb, cb.last_played).liberties = 1

get_ko_play(cb) ==
  IF cb.last_eaten \in Point /\ ko_violation(cb, cb.last_eaten) THEN cb.last_eaten ELSE NONE

\* The groups of colour c beside m.
Beside(cb, c, m) ==
  {h \in {cb.g[n] : n \in neighbors_side[m]} \ {NONE} : cb.group[h].colour = c}

InAtari(cb, c, m) == {h \in Beside(cb, c, m) : cb.group[h].liberties = 1}

FreeBeside(cb, m) == {n \in neighbors_side[m] : cb.g[n] = NONE}

\* The groups united by a play at m are given the liberties of its captures,
\* which are taken back after they are counted, but for their lowest liberty.
libs_after_play(cb, c, m) ==
  LET own    == Beside(cb, c, m)
      dead   == InAtari(cb, Opponent(c), m)
      stones == UNION {cb.group[h].stones : h \in dead}
      given  == add_liberties_to_neighbors(cb, stones, c)
      ls     == {m} \cup FreeBeside(cb, m) \cup (stones \cap neighbors_side[m])
                \cup UNION {given[h].ls : h \in own}
  IN IF cb.neighbors4["black"][m] + cb.neighbors4["white"][m] = 0
     THEN [libs |-> 4 - out_neighbors4[m], caps |-> 0, cb |-> cb]
     ELSE [libs |-> Cardinality(ls) - 1, caps |-> Cardinality(stones),
           cb |-> [cb EXCEPT !.group = [h \in DOMAIN @ |->
                     IF h \in own
                     THEN [@[h] EXCEPT !.liberties_min_coord = given[h].liberties_min_coord]
                     ELSE @[h]]]]

\* libs_after_play of each of points: the lowest liberties recorded are only lowered.
Examined(cb, c, points) ==
  LET given == {libs_after_play(cb, c, m).cb.group : m \in points}
      lowest(h) == Lowest({gr[h].liberties_min_coord : gr \in given \cup {cb.group}})
  IN [cb EXCEPT !.group = [h \in DOMAIN cb.group |->
                             [cb.group[h] EXCEPT !.liberties_min_coord = lowest(h)]]]

\* One more liberty for a stone captured alone too, counted already.
ProbableLibsOfOne(cb, c, m) ==
  LET own  == Beside(cb, c, m)
      dead == InAtari(cb, Opponent(c), m)
      ls   == {m} \cup FreeBeside(cb, m) \cup {n \in neighbors_side[m] : cb.g[n] \in dead}
              \cup UNION {cb.group[h].ls : h \in own}
      more == {h \in dead : cb.group[h].neighbors \cap own # {}}
  IN IF Cardinality(ls) > 2 THEN 2 ELSE Lower(Cardinality(more) + Cardinality(ls) - 1, 2)

\* An approximation by the groups beside m: a group of several stones captured
\* is taken to leave one more liberty if it is a neighbour of those united.
ProbableLibs(cb, c, m) ==
  LET own  == Beside(cb, c, m)
      dead == InAtari(cb, Opponent(c), m)
      ls   == {m} \cup FreeBeside(cb, m) \cup {n \in neighbors_side[m] : cb.g[n] \in dead}
              \cup UNION {cb.group[h].ls : h \in own}
      more == {h \in dead : Cardinality(cb.group[h].stones) > 1
                            /\ cb.group[h].neighbors \cap own # {}}
  IN IF Cardinality(ls) > 2 THEN 2 ELSE Lower(Cardinality(more) + Cardinality(ls) - 1, 2)

safe_to_play(cb, c, m) ==
  IF cb.neighbors4["white"][m] + cb.neighbors4["black"][m] + out_neighbors4[m] < 3
  THEN 2 ELSE ProbableLibs(cb, c, m)

safe_to_play2(cb, c, m) ==
  IF cb.neighbors8["white"][m] + cb.neighbors8["black"][m] + out_neighbors8[m] < 3
  THEN [libs |-> 2, caps |-> FALSE]
  ELSE [libs |-> ProbableLibs(cb, c, m), caps |-> InAtari(cb, Opponent(c), m) # {}]

caps_after_play(cb, c, m) ==
  cb.neighbors4[Opponent(c)][m] # 0 /\ InAtari(cb, Opponent(c), m) # {}

can_play_ignoring_ko(cb, c, m) ==
  /\ cb.p[m] = EMPTY
  /\ \/ cb.neighbors4["black"][m] + cb.neighbors4["white"][m] + out_neighbors4[m] < 4
     \/ FreeBeside(cb, m) # {}
     \/ \E h \in Beside(cb, c, m) : cb.group[h].liberties # 1
     \/ InAtari(cb, Opponent(c), m) # {}

can_play(cb, c, m) ==
  /\ can_play_ignoring_ko(cb, c, m)
  /\ \/ cb.neighbors4["black"][m] + cb.neighbors4["white"][m] + out_neighbors4[m] < 4
     \/ ~ko_violation(cb, m)

get_1st_liberty(g) == Lowest(g.ls)

\* The table of the patterns of eyes (constants.c), at the pattern of m.
is_eye(cb, c, m) ==
  LET stones(d, S) == Cardinality({n \in S : cb.hash[m][n] = Value(d)})
      against      == stones(Opponent(c), neighbors_3x3[m])
  IN /\ stones(c, neighbors_side[m]) + out_neighbors4[m] = 4
     /\ IF out_neighbors4[m] = 0 THEN against < 2 ELSE against = 0

-----------------------------------------------------------------------------
\* The liberties of a chain on a board of stones, which the properties compare with what
\* the groups keep.
Liberties(p, chain) == {n \in Point : p[n] = EMPTY /\ neighbors_side[n] \cap chain # {}}
=============================================================================
