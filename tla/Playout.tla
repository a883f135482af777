-------------------------------- MODULE Playout --------------------------------
(***************************************************************************)
(* One simulation on a fast board: the plays down the tree                 *)
(* (src/src/mcts/uct.c), each of a state's plays, and the playout that     *)
(* ends it (src/src/mcts/playout.c), which keeps for each player and point *)
(* whether a play is legal and safe, and computes again only what the last *)
(* plays made dirty.  The board belongs to one thread.                     *)
(*                                                                         *)
(* Random numbers and the weights of plays and patterns are choices: any   *)
(* stage of the selection may be skipped, any candidate chosen.  The       *)
(* matrix traversed, statistics for the tree, is left out.                 *)
(***************************************************************************)
EXTENDS CfgBoard

CONSTANTS
  Starts,           \* the states of a match a simulation starts from: a board
                    \* and the player to play
  Komi,             \* doubled, as in the code
  MERCY_THRESHOLD,
  MaxTreePlays      \* bound: plays down the tree

ASSUME PlayoutAssumption ==
  /\ \A s \in Starts : s.colour \in Player /\ OfMatch(s.board, s.colour)
  /\ NONE \notin Int
  /\ Komi \in Nat /\ MERCY_THRESHOLD \in Nat /\ MaxTreePlays \in Nat

VARIABLES
  cb,
  colour,           \* is_black
  zobrist_hash,
  phase,            \* "tree", "playout" or "over"
  cache,            \* b_cache and w_cache: what is known of each point
  diff,
  depth_max,        \* without the random bit the code adds
  outcome,
  tree_plays        \* bound

playoutVars == <<cache, diff, depth_max>>
vars == <<cb, colour, zobrist_hash, phase, playoutVars, outcome, tree_plays>>

MAX_PLAYOUT_DEPTH_OVER_EMPTY == TOTAL_BOARD_SIZ \div 3

StonesOf(c, p) == {m \in Point : p[m] = c}

stone_diff(p) == Cardinality(StonesOf("black", p)) - Cardinality(StonesOf("white", p))

zobrist_new_hash(b) == {<<m, b.p[m]>> : m \in {n \in Point : b.p[n] # EMPTY}}

\* Stones, and the empty regions that touch one colour only.
score_stones_and_area(p) ==
  LET Touches(m, c) == \E n \in Chain(p, m) : \E a \in neighbors_side[n] : p[a] = c
      Area(c) == {m \in Point : \/ p[m] = c
                                \/ p[m] = EMPTY /\ Touches(m, c) /\ ~Touches(m, Opponent(c))}
  IN 2 * (Cardinality(Area("black")) - Cardinality(Area("white"))) - Komi

Dirty == {"dirty"}

AllDirty == [m \in Point |-> Dirty]

-----------------------------------------------------------------------------
(***************************************************************************)
(* The selection of a play.                                                *)
(***************************************************************************)
\* The ko is not looked at.
UnplayableButKo(b, c, m) == is_eye(b, c, m) \/ safe_to_play(b, c, m) = 0

Unplayable(b, c, m) ==
  is_eye(b, c, m) \/ get_ko_play(b) = m \/ safe_to_play(b, c, m) = 0

\* A throw-in is left out too.
AnySelfAtari(b, c, m) == ~Unplayable(b, c, m) /\ safe_to_play(b, c, m) = 1

\* Put in atari, with a stone beside: left out by chance.  A throw-in is not.
SelfAtari(b, c, m) ==
  /\ ~Unplayable(b, c, m)
  /\ safe_to_play(b, c, m) = 1
  /\ b.neighbors4[c][m] > 0

\* What heavy_select_play finds of a dirty point.
Status(b, c, m) ==
  IF Unplayable(b, c, m) THEN {}
  ELSE IF safe_to_play(b, c, m) > 1 THEN {"legal", "safe"} ELSE {"legal"}

\* The caches that may come of known, by which self-ataris are left out.
Refreshed(b, c, known) ==
  LET stale  == {m \in b.empty : "dirty" \in known[m]}
      ataris == {m \in stale : SelfAtari(b, c, m)}
  IN {[m \in Point |-> IF m \in banned THEN {}
                       ELSE IF m \in stale THEN Status(b, c, m) ELSE known[m]] :
        banned \in SUBSET ataris}

\* Groups in atari beside the last play, saved or avenged.
Saving(b, known) ==
  IF b.last_played \notin Point THEN {}
  ELSE LET weak  == {h \in GroupAt(b, b.last_played).neighbors : b.group[h].liberties = 1}
           saves == {get_1st_liberty(b.group[h]) : h \in weak}
           kills == {get_1st_liberty(b.group[h]) :
                       h \in {k \in UNION {b.group[w].neighbors : w \in weak} :
                                b.group[k].liberties = 1}}
       IN {m \in saves : "safe" \in known[m]} \cup {m \in kills : "legal" \in known[m]}

Capturing(b, c, known) ==
  {m \in {get_1st_liberty(b.group[h]) :
            h \in {k \in ToSet(b.unique_groups) :
                     GroupAt(b, k).colour # c /\ GroupAt(b, k).liberties = 1}} :
     "legal" \in known[m]}

Patterns(b, known) ==
  IF b.last_played \notin Point THEN {}
  ELSE {m \in neighbors_3x3[b.last_played] : "safe" \in known[m]}

Selected(b, c, known) ==
  LET legal == {m \in b.empty : "legal" \in known[m]} IN
  Saving(b, known) \cup Capturing(b, c, known) \cup Patterns(b, known)
  \cup (IF legal = {} THEN {PASS} ELSE legal)

invalidate_cache_of_the_past(b, caches) ==
  IF b.last_eaten \in Point
  THEN [c \in Player |-> [caches[c] EXCEPT ![b.last_eaten] = Dirty]]
  ELSE caches

\* All but the liberties of the neighbours of the groups captured.
InvalidateWithoutCaptures(b, caches, removed, libs) ==
  LET m     == b.last_played
      own   == GroupAt(b, m)
      dirty == removed \cup own.ls \cup (UNION {b.group[h].ls : h \in own.neighbors})
               \cup neighbors_diag[m]
  IN [c \in Player |-> [n \in Point |->
        IF n \in dirty THEN Dirty ELSE IF n = m THEN {} ELSE caches[c][n]]]

invalidate_cache_after_play(b, caches, removed, libs) ==
  LET m     == b.last_played
      own   == GroupAt(b, m)
      dirty == removed \cup libs \cup own.ls \cup (UNION {b.group[h].ls : h \in own.neighbors})
               \cup neighbors_diag[m]
  IN [c \in Player |-> [n \in Point |->
        IF n \in dirty THEN Dirty ELSE IF n = m THEN {} ELSE caches[c][n]]]

-----------------------------------------------------------------------------
Init ==
  \E s \in Starts :
    /\ cb = cfg_from_board(s.board)
    /\ zobrist_hash = zobrist_new_hash(s.board)
    /\ colour = s.colour
    /\ phase = "tree"
    /\ cache = [c \in Player |-> AllDirty]
    /\ diff = 0
    /\ depth_max = 0
    /\ outcome = NONE
    /\ tree_plays = 0

\* A play of a state of the tree: not a ko, nor a suicide.
TreePlay(m) ==
  /\ phase = "tree" /\ tree_plays < MaxTreePlays
  /\ m \in cb.empty
  /\ get_ko_play(cb) # m
  /\ libs_after_play(cb, colour, m).libs > 0
  /\ \E after \in {just_play2(cb, colour, m, zobrist_hash)} :
       /\ cb' = after.cb
       /\ zobrist_hash' = after.hash
  /\ colour' = Opponent(colour)
  /\ tree_plays' = tree_plays + 1
  /\ UNCHANGED <<phase, playoutVars, outcome>>

TreePass ==
  /\ phase = "tree" /\ tree_plays < MaxTreePlays
  /\ IF cb.last_played = PASS
     THEN /\ outcome' = score_stones_and_area(cb.p)
          /\ phase' = "over"
          /\ UNCHANGED <<cb, colour, tree_plays>>
     ELSE /\ cb' = just_pass(cb)
          /\ colour' = Opponent(colour)
          /\ tree_plays' = tree_plays + 1
          /\ UNCHANGED <<phase, outcome>>
  /\ UNCHANGED <<zobrist_hash, playoutVars>>

\* A state is expanded, its points examined for their priors, or has none yet, or there
\* is no memory for it.
StartPlayout ==
  /\ phase = "tree"
  /\ \E points \in {{}, cb.empty \ {get_ko_play(cb)}} : cb' = Examined(cb, colour, points)
  /\ depth_max' = MAX_PLAYOUT_DEPTH_OVER_EMPTY + Cardinality(cb.empty)
  /\ diff' = stone_diff(cb.p) - Komi \div 2
  /\ cache' = [c \in Player |-> AllDirty]
  /\ phase' = "playout"
  /\ UNCHANGED <<colour, zobrist_hash, outcome, tree_plays>>

\* A turn of playout_heavy_amaf, once the depth is decremented.
HeavyPass(known) ==
  /\ PASS \in Selected(cb, colour, known)
  /\ IF cb.last_played = PASS
     THEN /\ outcome' = score_stones_and_area(cb.p)
          /\ phase' = "over"
          /\ cache' = [cache EXCEPT ![colour] = known]
          /\ UNCHANGED <<cb, colour>>
     ELSE /\ cache' = invalidate_cache_of_the_past(cb, [cache EXCEPT ![colour] = known])
          /\ cb' = just_pass(cb)
          /\ colour' = Opponent(colour)
          /\ UNCHANGED <<phase, outcome>>
  /\ UNCHANGED diff

HeavyPlay(known, m) ==
  LET past     == invalidate_cache_of_the_past(cb, [cache EXCEPT ![colour] = known])
      mercy(d) == d > MERCY_THRESHOLD \/ d < -MERCY_THRESHOLD
  IN /\ m \in Selected(cb, colour, known) \ {PASS}
     /\ \E after \in {just_play3(cb, colour, m, diff)} :
          /\ cb' = after.cb
          /\ diff' = after.diff
          /\ IF mercy(after.diff)
             THEN /\ outcome' = after.diff
                  /\ phase' = "over"
                  /\ cache' = past
                  /\ UNCHANGED colour
             ELSE /\ cache' = invalidate_cache_after_play(after.cb, past,
                                after.stones_removed, after.rem_nei_libs)
                  /\ colour' = Opponent(colour)
                  /\ UNCHANGED <<phase, outcome>>

HeavyTurn ==
  /\ phase = "playout" /\ depth_max > 0
  /\ depth_max' = depth_max - 1
  /\ \E known \in Refreshed(cb, colour, cache[colour]) :
       HeavyPass(known) \/ \E m \in Point : HeavyPlay(known, m)
  /\ UNCHANGED <<zobrist_hash, tree_plays>>

\* The random bit is drawn here: the last turn is played, or not.
OutOfDepth ==
  /\ phase = "playout" /\ depth_max \in {0, 1}
  /\ outcome' = score_stones_and_area(cb.p)
  /\ phase' = "over"
  /\ UNCHANGED <<cb, colour, zobrist_hash, playoutVars, tree_plays>>

Next ==
  \/ \E m \in Point : TreePlay(m)
  \/ TreePass
  \/ StartPlayout
  \/ HeavyTurn
  \/ OutOfDepth

Spec == Init /\ [][Next]_vars

-----------------------------------------------------------------------------
(***************************************************************************)
(* Properties.                                                             *)
(***************************************************************************)
\* The board as the rules have it, and the state of a match it stands for.
SlowBoard ==
  [p |-> cb.p, last_played |-> cb.last_played, last_eaten |-> cb.last_eaten]

Empties == {m \in Point : cb.p[m] = EMPTY}

\* verify_cfg_board, the test of integrity that the code asserts around every
\* operation, and the types of what a simulation keeps.
TypeOK ==
  /\ \A m \in Point : (cb.p[m] = EMPTY) = (cb.g[m] = NONE)
  /\ \A m \in Point \ Empties :
       LET g == GroupAt(cb, m) IN
       /\ g.colour = cb.p[m]
       /\ g.liberties > 0 /\ g.liberties_min_coord \in Point
       /\ cb.unique_groups[g.unique_groups_idx] = cb.g[m]
       /\ \A s \in g.stones : cb.g[s] = cb.g[m]
  /\ \A c \in Player : cb.neighbors4[c] \in [Point -> 0..4] /\ cb.neighbors8[c] \in [Point -> 0..8]
  /\ cb.last_eaten \in Point \cup {NONE} /\ cb.last_played \in Point \cup {NONE, PASS}
  /\ cb.empty \subseteq Point
  /\ cache \in [Player -> [Point -> SUBSET {"dirty", "legal", "safe"}]]
  /\ colour \in Player /\ phase \in {"tree", "playout", "over"}
  /\ diff \in Int /\ depth_max \in Nat /\ tree_plays \in 0..MaxTreePlays
  /\ (outcome # NONE) = (phase = "over")

\* The groups are the chains of stones of the board, each once in unique_groups, at
\* the index it keeps.
GroupsAreChains ==
  /\ DOMAIN cb.group = {cb.g[m] : m \in Point \ Empties}
  /\ \A h \in DOMAIN cb.group :
       cb.group[h].stones = Chain(cb.p, h) /\ cb.group[h].stones = {m \in Point : cb.g[m] = h}
  /\ ToSet(cb.unique_groups) = DOMAIN cb.group
  /\ \A i \in DOMAIN cb.unique_groups : cb.group[cb.unique_groups[i]].unique_groups_idx = i

\* After any plays and captures the groups are those of the board.  The liberties of
\* each are the free points around it, none counted twice and none below the lowest
\* recorded; its neighbours are the groups it touches.
GroupsAreExact ==
  /\ GroupsAreChains
  /\ \A h \in DOMAIN cb.group :
    LET g == cb.group[h] IN
    /\ g.ls = Liberties(cb.p, g.stones)
    /\ g.liberties = Cardinality(g.ls)
    /\ \A m \in g.ls : g.liberties_min_coord <= m
    /\ g.neighbors = {cb.g[n] : n \in {n \in Point : /\ cb.p[n] = Opponent(g.colour)
                                                     /\ neighbors_side[n] \cap g.stones # {}}}

\* The counts of stones around each point, its pattern and the list of free points
\* are those of the board, though a capture only subtracts what the plays added.
NeighborhoodsAreExact ==
  /\ cb.empty = Empties
  /\ \A m \in Point, c \in Player :
       /\ cb.neighbors4[c][m] = Cardinality({n \in neighbors_side[m] : cb.p[n] = c})
       /\ cb.neighbors8[c][m] = Cardinality({n \in neighbors_3x3[m] : cb.p[n] = c})
       /\ \A n \in neighbors_3x3[m] : (cb.hash[m][n] = Value(c)) = (cb.p[n] = c)

\* Every play of the fast board leaves the board, the ko and the last play that
\* the slow board does; a pass too.
SameAsSlowBoard ==
  [][LET m == cb'.last_played IN
     (cb'.p # cb.p \/ cb'.last_played # cb.last_played) =>
       SlowBoard' = IF m = PASS THEN pass(SlowBoard) ELSE just_play_slow2(SlowBoard, colour, m)]_vars

\* A play is legal for the fast board when it is for the slow one, by the
\* player whose turn it is.
LegalityAgrees ==
  phase # "over" =>
    \A m \in Point : can_play(cb, colour, m) = can_play_slow(SlowBoard, colour, m)

\* What the three approximations say of a play is what the play would leave: its
\* liberties, up to two for those that only count so many, and its captures.
SafetyExact ==
  \A m \in Empties, c \in Player :
    LET after == just_play_slow2(SlowBoard, c, m).p
        libs  == Cardinality(Liberties(after, Chain(after, m)))
        caps  == Cardinality(StonesOf(Opponent(c), cb.p)) - Cardinality(StonesOf(Opponent(c), after))
        exact == libs_after_play(cb, c, m)
    IN /\ exact.libs = libs /\ exact.caps = caps
       /\ safe_to_play(cb, c, m) = Lower(libs, 2)
       /\ safe_to_play2(cb, c, m) = [libs |-> Lower(libs, 2), caps |-> caps > 0]
       /\ caps_after_play(cb, c, m) = (caps > 0)

\* What the fast board tells of a play before it is made is what the slow one makes
\* of it.
PlaysForetold == LegalityAgrees /\ SafetyExact

\* What is handed from play to play, captures and all, is what the board would give:
\* the hash, which finds the states of the tree, and in a playout the difference of
\* stones, which decides mercy.
HandedDownExact ==
  /\ phase = "tree" => zobrist_hash = zobrist_new_hash(SlowBoard)
  /\ phase = "playout" => diff = stone_diff(cb.p) - Komi \div 2

\* What is updated at each play, and never computed again, is what the board gives.
UpdatesAreExact == NeighborhoodsAreExact /\ HandedDownExact

\* What the cache of the player to play holds and is not marked dirty is what would
\* be found again: no play, however far, changed it without marking it.
CacheFresh ==
  phase = "playout" =>
    \A m \in Point : LET known == cache[colour][m] IN
      "dirty" \notin known =>
        IF m \notin Empties THEN known = {}
        ELSE known = Status(cb, colour, m) \/ (known = {} /\ SelfAtari(cb, colour, m))

\* A playout plays legally and not in its own eyes, from a cache.
PlayoutPlaysLegal ==
  [][phase = "playout" /\ cb'.p # cb.p =>
       LET m == cb'.last_played IN
       can_play_slow(SlowBoard, colour, m) /\ ~is_eye(cb, colour, m)]_vars

\* "Only passes when there are no more plays": those left are illegal, in an own
\* eye, or self-ataris that are not throw-ins.
PassesWhenStuck ==
  [][phase = "playout" /\ phase' = "playout" /\ cb'.last_played = PASS =>
       \A m \in Empties :
         \/ ~can_play_slow(SlowBoard, colour, m)
         \/ is_eye(cb, colour, m)
         \/ LET after == just_play_slow2(SlowBoard, colour, m).p IN
            /\ Cardinality(Liberties(after, Chain(after, m))) = 1
            /\ \E n \in neighbors_side[m] : cb.p[n] = colour]_vars

\* A playout plays by the rules, and passes only when it must.
PlayoutPlays == PlayoutPlaysLegal /\ PassesWhenStuck
=============================================================================
