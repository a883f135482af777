--------------------------- MODULE GameRecordProofs ---------------------------
(***************************************************************************)
(* Lemmas about the rules of Go of GoBoard, for every board: what a chain  *)
(* of stones is, what a play captures and leaves, and what the test of the *)
(* ko tests.  Then proofs about GameRecord, for any board, handicaps,      *)
(* games and commands.                                                     *)
(***************************************************************************)
EXTENDS GameRecord, FoldLemmas, SequenceTheorems, FiniteSetTheorems

Stones == Player \cup {EMPTY}

\* No stone is without a liberty.
AllAlive(p) == \A m \in Point : p[m] # EMPTY => is_alive(p, m)

LEMMA Colours ==
  /\ EMPTY \notin Player
  /\ \A c \in Player : Opponent(c) \in Player /\ Opponent(c) # c /\ Opponent(Opponent(c)) = c
  /\ \A c \in Player : \A e \in Player \ {c} : e = Opponent(c)
BY BoardAssumption DEF Player, Opponent

LEMMA NeighboursArePoints ==
  \A m \in Point : \A n \in Adjacent[m] : n \in Point /\ m \in Adjacent[n] /\ m # n
BY BoardAssumption

-----------------------------------------------------------------------------
(***************************************************************************)
(* Chains.                                                                 *)
(***************************************************************************)
\* A chain is of stones of one colour and holds their neighbours of that colour.
LEMMA ChainClosed ==
  ASSUME NEW p, NEW m \in Point
  PROVE  /\ Chain(p, m) \subseteq Point /\ m \in Chain(p, m)
         /\ \A n \in Chain(p, m) : p[n] = p[m]
         /\ \A n \in Chain(p, m) : \A a \in Adjacent[n] : p[a] = p[m] => a \in Chain(p, m)
<1> DEFINE same == {n \in Point : p[n] = p[m]}
           closed(S) == m \in S /\ \A s \in S : Adjacent[s] \cap same \subseteq S
<1>1. Chain(p, m) = {n \in same : \A S \in SUBSET same : closed(S) => n \in S}
  BY DEF Chain
<1>2. ASSUME NEW n \in Chain(p, m), NEW a \in Adjacent[n], p[a] = p[m]
      PROVE  a \in Chain(p, m)
  <2>1. a \in same
    BY <1>1, <1>2, NeighboursArePoints
  <2>2. ASSUME NEW S \in SUBSET same, closed(S) PROVE a \in S
    BY <1>1, <1>2, <2>1, <2>2
  <2> QED
    BY <1>1, <2>1, <2>2
<1> QED
  BY <1>1, <1>2

\* It is the least such set.
LEMMA ChainLeast ==
  ASSUME NEW p, NEW m \in Point, NEW S, m \in S,
         \A s \in S : s \in Point /\ p[s] = p[m] =>
                        \A a \in Adjacent[s] : p[a] = p[m] => a \in S
  PROVE  Chain(p, m) \subseteq S
<1> DEFINE same == {n \in Point : p[n] = p[m]}
           T == S \cap same
<1>1. T \in SUBSET same /\ m \in T
  OBVIOUS
<1>2. \A s \in T : Adjacent[s] \cap same \subseteq T
  OBVIOUS
<1>3. Chain(p, m) \subseteq T
  BY <1>1, <1>2 DEF Chain
<1> QED
  BY <1>3

\* It is the chain of each of its stones.
LEMMA ChainOfAny ==
  ASSUME NEW p, NEW m \in Point, NEW n \in Chain(p, m)
  PROVE  Chain(p, n) = Chain(p, m)
<1>1. n \in Point /\ p[n] = p[m]
  BY ChainClosed
<1>2. Chain(p, n) \subseteq Chain(p, m)
  <2> DEFINE S == Chain(p, m)
  <2>1. n \in S /\ \A s \in S : \A a \in Adjacent[s] : p[a] = p[n] => a \in S
    BY <1>1, ChainClosed
  <2> HIDE DEF S
  <2>2. Chain(p, n) \subseteq S
    BY <1>1, <2>1, ChainLeast
  <2> QED
    BY <2>2 DEF S
<1>3. m \in Chain(p, n)
  <2> DEFINE S == Point \ Chain(p, n)
  <2>1. SUFFICES ASSUME m \in S PROVE FALSE
    OBVIOUS
  <2>2. ASSUME NEW s \in S, s \in Point, p[s] = p[m],
               NEW a \in Adjacent[s], p[a] = p[m]
        PROVE  a \in S
    <3>1. a \in Point /\ s \in Adjacent[a]
      BY <2>2, NeighboursArePoints
    <3>2. a \in Chain(p, n) => s \in Chain(p, n)
      BY <1>1, <2>2, <3>1, ChainClosed
    <3> QED
      BY <3>1, <3>2
  <2> HIDE DEF S
  <2>3. Chain(p, m) \subseteq S
    BY <2>1, <2>2, ChainLeast
  <2>4. n \in Chain(p, n)
    BY <1>1, ChainClosed
  <2> QED
    BY <2>3, <2>4 DEF S
<1>4. Chain(p, m) \subseteq Chain(p, n)
  <2> DEFINE S == Chain(p, n)
  <2>1. m \in S /\ \A s \in S : \A a \in Adjacent[s] : p[a] = p[m] => a \in S
    BY <1>1, <1>3, ChainClosed
  <2> HIDE DEF S
  <2>2. Chain(p, m) \subseteq S
    BY <2>1, ChainLeast
  <2> QED
    BY <2>2 DEF S
<1> QED
  BY <1>2, <1>4

\* What a chain is depends on its stones and its border only.
LEMMA ChainUnchanged ==
  ASSUME NEW p, NEW q, NEW m \in Point,
         \A n \in Chain(p, m) : q[n] = p[n],
         \A n \in Chain(p, m) : \A a \in Adjacent[n] \ Chain(p, m) : q[a] # p[m]
  PROVE  Chain(q, m) = Chain(p, m)
<1>1. q[m] = p[m]
  BY ChainClosed
<1>2. Chain(q, m) \subseteq Chain(p, m)
  <2> DEFINE S == Chain(p, m)
  <2>1. m \in S /\ \A s \in S : \A a \in Adjacent[s] : q[a] = q[m] => a \in S
    BY <1>1, ChainClosed
  <2> HIDE DEF S
  <2>2. Chain(q, m) \subseteq S
    BY <2>1, ChainLeast
  <2> QED
    BY <2>2 DEF S
<1>3. Chain(p, m) \subseteq Chain(q, m)
  <2> DEFINE S == Chain(q, m)
  <2>1. m \in S
    BY ChainClosed
  <2>2. ASSUME NEW s \in S, NEW a \in Adjacent[s], p[a] = p[m] PROVE a \in S
    <3>1. a \in Chain(p, m)
      BY <1>2, <2>2, ChainClosed
    <3>2. q[a] = q[m]
      BY <1>1, <2>2, <3>1
    <3> QED
      BY <2>2, <3>2, ChainClosed
  <2> HIDE DEF S
  <2>3. Chain(p, m) \subseteq S
    BY <2>1, <2>2, ChainLeast
  <2> QED
    BY <2>3 DEF S
<1> QED
  BY <1>2, <1>3

LEMMA AliveByLiberty ==
  ASSUME NEW p, NEW m \in Point, NEW n \in Chain(p, m), NEW a \in Adjacent[n], p[a] = EMPTY
  PROVE  is_alive(p, m)
BY DEF is_alive

-----------------------------------------------------------------------------
(***************************************************************************)
(* Plays.                                                                  *)
(***************************************************************************)
LEMMA PlacedStones ==
  ASSUME NEW b \in Board, NEW c \in Player, NEW m \in Point
  PROVE  /\ Placed(b, c, m) \in [Point -> Stones]
         /\ Placed(b, c, m)[m] = c
         /\ \A n \in Point \ {m} : Placed(b, c, m)[n] = b.p[n]
BY DEF Placed, Board, Stones

\* What is captured are whole chains of the opponent next to the play, without a liberty.
LEMMA CapturedChains ==
  ASSUME NEW p, NEW m \in Point, p[m] \in Player
  PROVE  /\ Captured(p, m) \subseteq Point
         /\ \A x \in Captured(p, m) : /\ p[x] = Opponent(p[m]) /\ Chain(p, x) \subseteq Captured(p, m)
                                      /\ ~is_alive(p, x)
                                      /\ \E a \in Adjacent[m] : a \in Chain(p, x)
         /\ \A a \in Adjacent[m] : p[a] = Opponent(p[m]) /\ ~is_alive(p, a) => a \in Captured(p, m)
<1>1. ASSUME NEW x \in Captured(p, m)
      PROVE  /\ x \in Point /\ p[x] = Opponent(p[m]) /\ Chain(p, x) \subseteq Captured(p, m)
             /\ ~is_alive(p, x) /\ \E a \in Adjacent[m] : a \in Chain(p, x)
  <2>1. PICK a \in Adjacent[m] : p[a] = Opponent(p[m]) /\ ~is_alive(p, a) /\ x \in Chain(p, a)
    BY DEF Captured
  <2>2. a \in Point
    BY NeighboursArePoints
  <2>3. x \in Point /\ p[x] = p[a] /\ Chain(p, x) = Chain(p, a)
    BY <2>1, <2>2, ChainClosed, ChainOfAny
  <2>4. Chain(p, a) \subseteq Captured(p, m)
    BY <2>1 DEF Captured
  <2>5. ~is_alive(p, x)
    BY <2>1, <2>3 DEF is_alive
  <2> QED
    BY <2>1, <2>2, <2>3, <2>4, <2>5, ChainClosed
<1>2. ASSUME NEW a \in Adjacent[m], p[a] = Opponent(p[m]), ~is_alive(p, a)
      PROVE  a \in Captured(p, m)
  <2>1. a \in Point /\ a \in Chain(p, a)
    BY NeighboursArePoints, ChainClosed
  <2> QED
    BY <1>2, <2>1 DEF Captured
<1> QED
  BY <1>1, <1>2

LEMMA CapturedNone ==
  ASSUME NEW p, NEW m \in Point, p[m] \in Player
  PROVE  Cardinality(Captured(p, m)) > 0 => Captured(p, m) # {}
BY FS_EmptySet

\* The board after a play: what was there, the stone, and not what it captured.
LEMMA StonesAfterPlay ==
  ASSUME NEW b \in Board, NEW c \in Player, NEW m \in Point,
         NEW q, q = just_play_slow2(b, c, m).p,
         NEW E, E = Captured(Placed(b, c, m), m)
  PROVE  /\ q \in [Point -> Stones]
         /\ E \subseteq Point /\ m \notin E
         /\ q[m] = c
         /\ \A n \in E : q[n] = EMPTY /\ b.p[n] = Opponent(c)
         /\ \A n \in Point \ E : n # m => q[n] = b.p[n]
<1> DEFINE p == Placed(b, c, m)
<1>1. /\ p \in [Point -> Stones] /\ p[m] = c /\ \A n \in Point \ {m} : p[n] = b.p[n]
  BY PlacedStones
<1>2. E \subseteq Point /\ \A n \in E : p[n] = Opponent(c)
  BY <1>1, CapturedChains
<1>3. m \notin E
  BY <1>1, <1>2, Colours
<1>4. q = [n \in Point |-> IF n \in E THEN EMPTY ELSE p[n]]
  BY DEF just_play_slow2
<1> QED
  BY <1>1, <1>2, <1>3, <1>4 DEF Stones

\* The ko is the point of the one stone captured, next to the play.
LEMMA KoAfterPlay ==
  ASSUME NEW b \in Board, NEW c \in Player, NEW m \in Point,
         NEW d, d = just_play_slow2(b, c, m),
         NEW E, E = Captured(Placed(b, c, m), m)
  PROVE  /\ d.last_played = m
         /\ d.last_eaten \in Point \cup {NONE}
         /\ d.last_eaten \in Point => E = {d.last_eaten} /\ d.last_eaten \in Adjacent[m]
         /\ \A x : E = {x} => d.last_eaten = x
<1> DEFINE p == Placed(b, c, m)
<1>1. E \subseteq Point /\ IsFiniteSet(E)
  BY StonesAfterPlay, BoardAssumption, FS_Subset
<1>2. /\ d.last_played = m
      /\ d.last_eaten = IF Cardinality(E) = 1 THEN CHOOSE n \in E : TRUE ELSE NONE
  BY DEF just_play_slow2
<1>3. ASSUME NEW x, E = {x} PROVE d.last_eaten = x
  BY <1>1, <1>2, <1>3, FS_Singleton
<1>4. ASSUME d.last_eaten \in Point
      PROVE  E = {d.last_eaten} /\ d.last_eaten \in Adjacent[m]
  <2>1. Cardinality(E) = 1
    BY <1>2, <1>4, BoardAssumption
  <2>2. PICK x : E = {x}
    BY <1>1, <2>1, FS_Singleton
  <2>3. d.last_eaten = x
    BY <1>3, <2>2
  <2>4. \E a \in Adjacent[m] : a \in E
    <3>1. p[m] \in Player /\ x \in Captured(p, m)
      BY <2>2, PlacedStones
    <3>2. Chain(p, x) \subseteq Captured(p, m) /\ \E a \in Adjacent[m] : a \in Chain(p, x)
      BY <3>1, CapturedChains
    <3> QED
      BY <3>2
  <2> QED
    BY <2>2, <2>3, <2>4
<1>5. d.last_eaten \in Point \cup {NONE}
  <2>1. Cardinality(E) = 1 => \E x : E = {x}
    BY <1>1, FS_Singleton
  <2> QED
    BY <1>1, <1>2, <1>3, <2>1
<1> QED
  BY <1>2, <1>3, <1>4, <1>5

LEMMA PlayGivesBoard ==
  ASSUME NEW b \in Board, NEW c \in Player, NEW m \in Point
  PROVE  just_play_slow2(b, c, m) \in Board
<1> DEFINE d == just_play_slow2(b, c, m)
<1>1. d.p \in [Point -> Stones]
  BY StonesAfterPlay
<1>2. d.last_played = m /\ d.last_eaten \in Point \cup {NONE}
  BY KoAfterPlay
<1>3. d = [p |-> d.p, last_played |-> d.last_played, last_eaten |-> d.last_eaten]
  BY DEF just_play_slow2
<1>4. d.p \in [Point -> Player \cup {EMPTY}] /\ d.last_played \in Point \cup {PASS, NONE}
  BY <1>1, <1>2 DEF Stones
<1>5. d \in Board
  <2> HIDE DEF d
  <2> QED
    BY <1>2, <1>3, <1>4 DEF Board
<1> QED
  BY <1>5

LEMMA PassGivesBoard ==
  ASSUME NEW b \in Board
  PROVE  pass(b) \in Board /\ pass(b).p = b.p /\ pass(b).last_eaten = NONE
BY DEF pass, Board

LEMMA ClearBoardIsBoard ==
  clear_board \in Board /\ clear_board.last_eaten = NONE /\ \A m \in Point : clear_board.p[m] = EMPTY
BY DEF clear_board, Board

-----------------------------------------------------------------------------
(***************************************************************************)
(* What a legal play leaves.                                               *)
(***************************************************************************)
\* No dead stone: neither of the player's, though the play may join chains and take their
\* liberties, nor of the opponent's.
LEMMA PlayLeavesNoDeadStone ==
  ASSUME NEW b \in Board, NEW c \in Player, NEW m \in Point,
         AllAlive(b.p), can_play_slow(b, c, m)
  PROVE  AllAlive(just_play_slow2(b, c, m).p)
<1> DEFINE p == Placed(b, c, m)
           E == Captured(p, m)
           q == just_play_slow2(b, c, m).p
<1>1. /\ p \in [Point -> Stones] /\ p[m] = c /\ \A n \in Point \ {m} : p[n] = b.p[n]
  BY PlacedStones
<1>2. /\ E \subseteq Point /\ m \notin E /\ q[m] = c
      /\ \A n \in E : q[n] = EMPTY /\ p[n] = Opponent(c)
      /\ \A n \in Point \ E : q[n] = p[n]
  BY <1>1, StonesAfterPlay, CapturedChains
<1>3. /\ \A x \in E : Chain(p, x) \subseteq E
      /\ \A x \in E : \E a \in Adjacent[m] : a \in Chain(p, x)
      /\ \A a \in Adjacent[m] : p[a] = Opponent(c) /\ ~is_alive(p, a) => a \in E
  BY <1>1, CapturedChains
<1>4. b.p[m] = EMPTY /\ (E # {} \/ is_alive(p, m))
  BY <1>1, CapturedNone DEF can_play_slow, captured
<1>5. SUFFICES ASSUME NEW n \in Point, q[n] # EMPTY PROVE is_alive(q, n)
  BY DEF AllAlive
<1>6. n \notin E /\ q[n] = p[n] /\ p[n] \in Player
  BY <1>1, <1>2, <1>5 DEF Stones
<1> HIDE DEF p, E, q
\* The chain of a stone left on the board loses no stone.
<1>7. Chain(q, n) = Chain(p, n)
  <2>1. ASSUME NEW x \in Chain(p, n) PROVE q[x] = p[x]
    <3>1. x \in Point /\ n \in Chain(p, x)
      BY ChainClosed, ChainOfAny
    <3>2. x \notin E
      BY <1>3, <1>6, <3>1
    <3> QED
      BY <1>2, <3>1, <3>2
  <2>2. ASSUME NEW x \in Chain(p, n), NEW a \in Adjacent[x] \ Chain(p, n) PROVE q[a] # p[n]
    <3>1. x \in Point /\ a \in Point
      BY ChainClosed, NeighboursArePoints
    <3>2. p[a] # p[n]
      BY <2>2, ChainClosed
    <3> QED
      BY <1>2, <1>6, <3>1, <3>2, Colours
  <2> QED
    BY <2>1, <2>2, ChainUnchanged
\* Any liberty but the play's point stays.
<1>8. ASSUME NEW x \in Chain(p, n), NEW a \in Adjacent[x], p[a] = EMPTY PROVE is_alive(q, n)
  <2>1. x \in Point /\ a \in Point
    BY ChainClosed, NeighboursArePoints
  <2>2. a \notin E
    BY <1>2, <1>8, Colours
  <2>3. q[a] = EMPTY
    BY <1>2, <1>8, <2>1, <2>2
  <2> QED
    BY <1>7, <2>3, AliveByLiberty
\* A chain without the play was there before it.
<1>9. ASSUME m \notin Chain(p, n)
      PROVE  /\ Chain(b.p, n) = Chain(p, n)
             /\ \E x \in Chain(p, n) : \E a \in Adjacent[x] : b.p[a] = EMPTY
  <2>1. \A x \in Chain(p, n) : x \in Point \ {m}
    BY <1>9, ChainClosed
  <2>2. ASSUME NEW x \in Chain(p, n), NEW a \in Adjacent[x] \ Chain(p, n) PROVE b.p[a] # p[n]
    <3>1. x \in Point /\ a \in Point
      BY ChainClosed, NeighboursArePoints
    <3>2. p[a] # p[n]
      BY <2>2, ChainClosed
    <3> QED
      BY <1>1, <1>4, <1>6, <3>1, <3>2, Colours
  <2>3. \A x \in Chain(p, n) : b.p[x] = p[x]
    BY <1>1, <2>1
  <2>4. Chain(b.p, n) = Chain(p, n)
    BY <2>2, <2>3, ChainUnchanged
  <2>5. n \in Chain(p, n)
    BY ChainClosed
  <2>6. b.p[n] # EMPTY
    BY <1>6, <2>3, <2>5, Colours
  <2>7. is_alive(b.p, n)
    BY <2>6 DEF AllAlive
  <2> QED
    BY <2>4, <2>7 DEF is_alive
<1>10. CASE p[n] = c
  <2>1. CASE m \in Chain(p, n)
    <3>1. CASE E # {}
      <4>1. PICK a \in Adjacent[m] : a \in E
        BY <1>3, <3>1
      <4>2. q[a] = EMPTY /\ m \in Chain(q, n)
        BY <1>2, <1>7, <2>1, <4>1
      <4> QED
        BY <4>2, AliveByLiberty
    <3>2. CASE is_alive(p, m)
      <4>1. Chain(p, m) = Chain(p, n)
        BY <2>1, ChainOfAny
      <4>2. \E x \in Chain(p, n) : \E a \in Adjacent[x] : p[a] = EMPTY
        BY <3>2, <4>1 DEF is_alive
      <4> QED
        BY <1>8, <4>2
    <3> QED
      BY <1>4, <3>1, <3>2
  <2>2. CASE m \notin Chain(p, n)
    <3>1. PICK x \in Chain(p, n) : \E a \in Adjacent[x] : b.p[a] = EMPTY
      BY <1>9, <2>2
    <3>2. PICK a \in Adjacent[x] : b.p[a] = EMPTY
      BY <3>1
    <3>3. x \in Point /\ a \in Point
      BY ChainClosed, NeighboursArePoints
    <3>4. a # m
      BY <1>1, <1>10, <2>2, ChainClosed
    <3>5. p[a] = EMPTY
      BY <1>1, <3>2, <3>3, <3>4
    <3> QED
      BY <1>8, <3>5
  <2> QED
    BY <2>1, <2>2
<1>11. CASE p[n] # c
  <2>1. p[n] = Opponent(c) /\ m \notin Chain(p, n)
    BY <1>1, <1>6, <1>11, ChainClosed, Colours
  <2>2. PICK x \in Chain(p, n) : \E a \in Adjacent[x] : b.p[a] = EMPTY
    BY <1>9, <2>1
  <2>3. PICK a \in Adjacent[x] : b.p[a] = EMPTY
    BY <2>2
  <2>4. x \in Point /\ a \in Point /\ p[x] = p[n] /\ Chain(p, x) = Chain(p, n)
    BY ChainClosed, ChainOfAny, NeighboursArePoints
  <2>5. CASE a # m
    BY <1>1, <1>8, <2>3, <2>4, <2>5
  <2>6. CASE a = m
    <3>1. x \in Adjacent[m] /\ p[x] = Opponent(c)
      BY <2>1, <2>4, <2>6, NeighboursArePoints
    <3>2. x \notin E
      <4>1. n \in Chain(p, x)
        BY <2>4, ChainClosed
      <4> QED
        BY <1>3, <1>6, <4>1
    <3>3. is_alive(p, x)
      BY <1>3, <3>1, <3>2
    <3>4. \E y \in Chain(p, n) : \E l \in Adjacent[y] : p[l] = EMPTY
      BY <2>4, <3>3 DEF is_alive
    <3> QED
      BY <1>8, <3>4
  <2> QED
    BY <2>5, <2>6
<1> QED
  BY <1>10, <1>11 DEF q

\* The ko: a play that restores the board before the one its opponent just made is not
\* legal, though the ko is a test of two points.
LEMMA KoForbidsRepeat ==
  ASSUME NEW b \in Board, NEW e \in Player, NEW l \in Point, b.p[l] = EMPTY,
         NEW d, d = just_play_slow2(b, e, l),
         NEW m \in Point, can_play_slow(d, Opponent(e), m)
  PROVE  just_play_slow2(d, Opponent(e), m).p # b.p
<1> DEFINE c == Opponent(e)
           E1 == Captured(Placed(b, e, l), l)
           p == Placed(d, c, m)
           E2 == Captured(p, m)
           r == just_play_slow2(d, c, m).p
<1>1. SUFFICES ASSUME r = b.p PROVE test_ko(d, c, m)
  BY DEF can_play_slow
<1>2. c \in Player /\ c # e /\ Opponent(c) = e /\ d \in Board
  BY Colours, PlayGivesBoard
<1>3. /\ E1 \subseteq Point /\ l \notin E1 /\ d.p[l] = e
      /\ \A n \in E1 : d.p[n] = EMPTY /\ b.p[n] = c
      /\ \A n \in Point \ E1 : n # l => d.p[n] = b.p[n]
  BY <1>2, StonesAfterPlay
<1>4. /\ E2 \subseteq Point /\ m \notin E2 /\ r[m] = c
      /\ \A n \in E2 : r[n] = EMPTY /\ d.p[n] = e
      /\ \A n \in Point \ E2 : n # m => r[n] = d.p[n]
  BY <1>2, StonesAfterPlay
<1>5. p[m] = c /\ \A n \in Point \ {m} : p[n] = d.p[n]
  BY <1>2, PlacedStones
<1>6. d.p[m] = EMPTY /\ m # l
  BY <1>3, Colours DEF can_play_slow
\* The stone of the first play is the one captured by the second.
<1>7. E2 = {l}
  <2>1. l \in E2
    BY <1>1, <1>3, <1>4, <1>6, Colours
  <2>2. ASSUME NEW x \in E2, x # l PROVE FALSE
    <3>1. r[x] = EMPTY /\ d.p[x] = e /\ x \in Point
      BY <1>4, <2>2
    <3>2. x \notin E1
      BY <1>3, <3>1, Colours
    <3>3. b.p[x] = e
      BY <1>3, <2>2, <3>1, <3>2
    <3> QED
      BY <1>1, <3>1, <3>3, Colours
  <2> QED
    BY <2>1, <2>2
\* The first play captured one stone, where the second is.
<1>8. E1 = {m}
  <2>1. b.p[m] = c
    BY <1>1, <1>4
  <2>2. m \in E1
    BY <1>2, <1>3, <1>6, <2>1, Colours
  <2>3. ASSUME NEW x \in E1, x # m PROVE FALSE
    <3>1. d.p[x] = EMPTY /\ b.p[x] = c /\ x \in Point
      BY <1>3, <2>3
    <3>2. x \notin E2
      BY <1>2, <1>4, <3>1, Colours
    <3>3. r[x] = EMPTY
      BY <1>4, <2>3, <3>1, <3>2
    <3> QED
      BY <1>1, <1>2, <3>1, <3>3, Colours
  <2> QED
    BY <2>2, <2>3
<1>9. d.last_played = l /\ d.last_eaten = m
  BY <1>8, KoAfterPlay
<1>10. surrounded_stone(p, l)
  <2>1. p[l] = e
    BY <1>3, <1>5, <1>6
  <2>2. Chain(p, l) \subseteq {l} /\ ~is_alive(p, l)
    <3>1. p[m] \in Player /\ l \in Captured(p, m)
      BY <1>2, <1>5, <1>7
    <3> HIDE DEF p
    <3>2. Chain(p, l) \subseteq Captured(p, m) /\ ~is_alive(p, l)
      BY <3>1, CapturedChains
    <3> QED
      BY <1>7, <3>2
  <2>3. ASSUME NEW a \in Adjacent[l] PROVE p[a] = c
    <3>1. a \in Point /\ a # l
      BY NeighboursArePoints
    <3>2. p \in [Point -> Stones]
      BY <1>2, PlacedStones
    <3> HIDE DEF p
    <3>3. p[a] # EMPTY
      BY <2>2, ChainClosed, AliveByLiberty
    <3>4. p[a] # e
      BY <2>1, <2>2, <3>1, ChainClosed
    <3> QED
      BY <3>1, <3>2, <3>3, <3>4, Colours DEF Stones
  <2>4. c = IF p[l] = "black" THEN "white" ELSE "black"
    BY <2>1 DEF Opponent
  <2> QED
    BY <2>3, <2>4 DEF surrounded_stone
<1> QED
  BY <1>9, <1>10 DEF test_ko

\* A ko is one for the opponent of the player who made the last play.
LEMMA KoIsOfOpponent ==
  ASSUME NEW b \in Board, NEW e \in Player, NEW l \in Point, b.last_played = l, b.p[l] = e,
         NEW c \in Player, NEW m \in Adjacent[l], test_ko(b, c, m)
  PROVE  c = Opponent(e)
<1> DEFINE p == Placed(b, c, m)
<1>1. m \in Point /\ m # l
  BY NeighboursArePoints
<1>2. p[m] = c /\ p[l] = e
  BY <1>1, PlacedStones
<1>3. p[m] = IF p[l] = "black" THEN "white" ELSE "black"
  BY DEF test_ko, surrounded_stone
<1> QED
  BY <1>2, <1>3 DEF Opponent

\* Stones of one player capture none of theirs.
LEMMA NoneToCapture ==
  ASSUME NEW b \in Board, NEW c \in Player, NEW m \in Point,
         \A n \in Point : b.p[n] # Opponent(c),
         NEW d, d = just_play_slow2(b, c, m)
  PROVE  d.last_eaten = NONE /\ d.p = [b.p EXCEPT ![m] = c]
<1> DEFINE E == Captured(Placed(b, c, m), m)
<1>1. E = {}
  BY StonesAfterPlay
<1>2. d.last_eaten = NONE
  BY <1>1, KoAfterPlay
<1>3. d.p = Placed(b, c, m)
  BY <1>1, PlacedStones DEF just_play_slow2
<1> QED
  BY <1>2, <1>3 DEF Placed

\* Nor is any dead, if a point is left: the board is in one piece.
LEMMA OneColourIsAlive ==
  ASSUME NEW p \in [Point -> Stones], NEW c \in Player,
         \A n \in Point : p[n] \in {c, EMPTY}, \E n \in Point : p[n] = EMPTY
  PROVE  AllAlive(p)
<1> SUFFICES ASSUME NEW m \in Point, p[m] # EMPTY PROVE is_alive(p, m)
  BY DEF AllAlive
<1>1. /\ Chain(p, m) \in SUBSET Point /\ m \in Chain(p, m) /\ p[m] = c
      /\ \A n \in Chain(p, m) : p[n] = c
  BY ChainClosed
<1>2. Chain(p, m) \in (SUBSET Point) \ {{}, Point}
  BY <1>1, Colours
<1>3. PICK n \in Chain(p, m) : \E a \in Adjacent[n] : a \notin Chain(p, m)
  BY <1>2, BoardAssumption
<1>4. PICK a \in Adjacent[n] : a \notin Chain(p, m)
  BY <1>3
<1>5. a \in Point /\ p[a] # c
  BY <1>1, <1>4, ChainClosed, NeighboursArePoints
<1> QED
  BY <1>5, AliveByLiberty

\* A play leaves its stone, and a ko against the opponent.
LEMMA KoLeftByPlay ==
  ASSUME NEW b \in Board, NEW c \in Player, NEW m \in Point,
         NEW d, d = just_play_slow2(b, c, m)
  PROVE  LastStands(d) /\ KoAgainst(d, Opponent(c))
<1> DEFINE p == Placed(b, c, m)
           E == Captured(p, m)
           x == d.last_eaten
<1>1. /\ d.p \in [Point -> Stones] /\ d.p[m] = c /\ m \notin E
      /\ \A n \in E : d.p[n] = EMPTY
      /\ \A n \in Point \ E : n # m => d.p[n] = b.p[n]
  BY StonesAfterPlay
<1>2. d.last_played = m /\ (x \in Point => E = {x} /\ x \in Adjacent[m])
  BY KoAfterPlay
<1>3. p[m] = c /\ \A n \in Point \ {m} : p[n] = b.p[n]
  BY PlacedStones
<1>4. LastStands(d)
  BY <1>1, <1>2, Colours DEF LastStands
<1>5. ASSUME x \in Point, NEW a \in Adjacent[x] PROVE d.p[a] = c
  <2>1. /\ p[x] = Opponent(c) /\ Chain(p, x) \subseteq {x} /\ ~is_alive(p, x)
    BY <1>2, <1>3, <1>5, CapturedChains
  <2>2. a \in Point /\ a # x
    BY <1>5, NeighboursArePoints
  <2>3. x \in Chain(p, x) /\ p[a] # p[x]
    BY <1>5, <2>1, <2>2, ChainClosed
  <2>4. p[a] # EMPTY
    BY <1>5, <2>1, <2>3, AliveByLiberty
  <2>5. p[a] \in Stones
    BY <2>2, PlacedStones
  <2>6. p[a] = c
    BY <2>1, <2>3, <2>4, <2>5, Colours DEF Stones
  <2>7. a \notin E
    BY <1>2, <1>5, <2>2
  <2> QED
    BY <1>1, <1>3, <2>2, <2>6, <2>7
<1>6. x \in Point => /\ m \in Adjacent[x] /\ d.p[x] = EMPTY
                     /\ \A a \in Adjacent[x] : d.p[a] = c
  BY <1>1, <1>2, <1>5, NeighboursArePoints
<1> HIDE DEF x
<1> QED
  BY <1>2, <1>4, <1>6, Colours DEF KoAgainst, x

-----------------------------------------------------------------------------
(***************************************************************************)
(* The record of a match.                                                  *)
(***************************************************************************)
Entry == Point \cup {PASS, NONE}

\* ss are the states of a replay of ms after the handicap stones hs.
IsReplay(hs, ms, ss) ==
  /\ ss \in Seq(Board) /\ Len(ss) = Len(ms) + 1
  /\ ss[1] = first_game_state(hs)
  /\ \A i \in 1..Len(ms) : ss[i + 1] = Replayed(ss[i], ColourAt(hs, i - 1), ms[i])

\* A record that could have been played.
IsRecord(hs, ms, ss) ==
  /\ hs \in HandicapStones /\ ms \in Seq(Entry)
  /\ IsReplay(hs, ms, ss)
  /\ PlaysCanBePlayed(hs, ms, ss)
  /\ PlaysKeepSuperko(hs, ms, ss)

RecordInv ==
  /\ TypeOK
  /\ CacheIsCurrent
  /\ IsRecord(handicap_stones, moves, states)

-----------------------------------------------------------------------------
(***************************************************************************)
(* What the folds of the record give.                                      *)
(***************************************************************************)
\* The states of the handicap stones, one after the other.
LEMMA HandicapFold ==
  ASSUME NEW hs \in Seq(Point)
  PROVE  \E a \in [0..Len(hs) -> Board] :
           /\ a[0] = clear_board
           /\ \A k \in 1..Len(hs) : a[k] = just_play_slow2(a[k - 1], "black", hs[k])
           /\ first_game_state(hs) = a[Len(hs)]
<1> DEFINE n == Len(hs)
           V == Board
           F == [k \in 1..n |-> [b \in V |-> just_play_slow2(b, "black", hs[k])]]
           h == CHOOSE g : g = [S \in SUBSET (DOMAIN hs) |->
                  IF S = {} THEN clear_board ELSE just_play_slow2(g[S \ {Max(S)}], "black", hs[Max(S)])]
           a == [k \in 0..n |-> h[1..k]]
<1>1. n \in Nat /\ DOMAIN hs = 1..n /\ clear_board \in V
  BY ClearBoardIsBoard
<1>2. ASSUME NEW b \in V, NEW k \in 1..n PROVE just_play_slow2(b, "black", hs[k]) \in V
  <2>1. b \in Board /\ hs[k] \in Point /\ "black" \in Player
    BY DEF Player
  <2> QED
    BY <2>1, PlayGivesBoard
<1>3. F \in [1..n -> [V -> V]]
  BY <1>2
<1>4. PICK g : IsFold(V, n, clear_board, F, g)
  <2> HIDE DEF F, n, V
  <2> QED
    BY <1>1, <1>3, FoldExists
<1>5. h = [S \in SUBSET (DOMAIN hs) |->
             IF S = {} THEN clear_board ELSE just_play_slow2(h[S \ {Max(S)}], "black", hs[Max(S)])]
  <2>1. ASSUME NEW S \in SUBSET (1..n), S # {}
        PROVE  g[S] = just_play_slow2(g[S \ {Max(S)}], "black", hs[Max(S)])
    <3>1. Max(S) \in 1..n
      BY <1>1, <2>1, MaxOfRange
    <3>2. g[S \ {Max(S)}] \in V
      BY <1>4, <3>1 DEF IsFold
    <3>3. g[S] = F[Max(S)][g[S \ {Max(S)}]]
      BY <1>4, <2>1 DEF IsFold
    <3> QED
      BY <3>1, <3>2, <3>3
  <2>2. g = [S \in SUBSET (DOMAIN hs) |->
               IF S = {} THEN clear_board ELSE just_play_slow2(g[S \ {Max(S)}], "black", hs[Max(S)])]
    BY <1>1, <1>4, <2>1 DEF IsFold
  <2> QED
    BY <2>2, Zenon
<1>6. first_game_state(hs) = h[DOMAIN hs]
  BY DEF first_game_state, FoldLeft, MapThenFoldSet
<1> HIDE DEF h, F, V
<1>7. h[{}] = clear_board
  BY <1>5
<1>8. ASSUME NEW k \in 1..n PROVE h[1..k] = just_play_slow2(h[1..(k - 1)], "black", hs[k])
  <2>1. /\ 1..k # {} /\ 1..k \in SUBSET (1..n)
        /\ Max(1..k) = k /\ (1..k) \ {k} = 1..(k - 1)
    BY <1>1, MaxOfInitial
  <2> HIDE DEF n
  <2> QED
    BY <1>1, <1>5, <2>1
<1>9. \A k \in 0..n : h[1..k] \in V
  <2>1. \A k \in 1..n : h[1..(k - 1)] \in V => h[1..k] \in V
    BY <1>2, <1>8
  <2> HIDE DEF n
  <2> QED
    BY <1>1, <1>7, <2>1, FoldValues
<1>10. a \in [0..n -> V] /\ a[0] = clear_board /\ first_game_state(hs) = a[n]
  BY <1>1, <1>6, <1>7, <1>9
<1>11. \A k \in 1..n : a[k] = just_play_slow2(a[k - 1], "black", hs[k])
  BY <1>1, <1>8
<1> QED
  BY <1>10, <1>11 DEF V

\* The records of the replay, one entry longer each.
Replayable == Seq(Board) \ {<<>>}

LEMMA ColourAtIsPlayer == \A hs, turns : ColourAt(hs, turns) \in Player
BY Colours DEF ColourAt, first_player_color, Player

LEMMA ReplayedIsBoard ==
  ASSUME NEW b \in Board, NEW c \in Player, NEW m \in Entry
  PROVE  Replayed(b, c, m) \in Board
BY PlayGivesBoard, PassGivesBoard DEF Replayed

LEMMA ReplayFold ==
  ASSUME NEW hs, NEW ss \in Replayable, NEW ms \in Seq(Entry)
  PROVE  \E a \in [0..Len(ms) -> Replayable] :
           /\ a[0] = ss
           /\ \A k \in 1..Len(ms) :
                a[k] = Append(a[k - 1], Replayed(Last(a[k - 1]), ColourAt(hs, Len(a[k - 1]) - 1), ms[k]))
           /\ Replay(hs, ss, ms) = a[Len(ms)]
<1> DEFINE n == Len(ms)
           V == Replayable
           With(s, m) == Append(s, Replayed(Last(s), ColourAt(hs, Len(s) - 1), m))
           F == [k \in 1..n |-> [b \in V |-> With(b, ms[k])]]
           h == CHOOSE g : g = [S \in SUBSET (DOMAIN ms) |->
                  IF S = {} THEN ss ELSE With(g[S \ {Max(S)}], ms[Max(S)])]
           a == [k \in 0..n |-> h[1..k]]
<1>1. n \in Nat /\ DOMAIN ms = 1..n /\ ss \in V
  OBVIOUS
<1>2. ASSUME NEW b \in V, NEW k \in 1..n PROVE With(b, ms[k]) \in V
  <2>1. b \in Seq(Board) /\ Len(b) \in Nat \ {0} /\ Last(b) \in Board /\ ms[k] \in Entry
    BY DEF Replayable, Last
  <2>2. Replayed(Last(b), ColourAt(hs, Len(b) - 1), ms[k]) \in Board
    BY <2>1, ColourAtIsPlayer, ReplayedIsBoard
  <2> QED
    BY <2>1, <2>2 DEF Replayable
<1>3. F \in [1..n -> [V -> V]]
  BY <1>2
<1>4. PICK g : IsFold(V, n, ss, F, g)
  <2> HIDE DEF F, n, V
  <2> QED
    BY <1>1, <1>3, FoldExists
<1>5. h = [S \in SUBSET (DOMAIN ms) |->
             IF S = {} THEN ss ELSE With(h[S \ {Max(S)}], ms[Max(S)])]
  <2>1. ASSUME NEW S \in SUBSET (1..n), S # {}
        PROVE  g[S] = With(g[S \ {Max(S)}], ms[Max(S)])
    <3>1. Max(S) \in 1..n
      BY <1>1, <2>1, MaxOfRange
    <3>2. g[S \ {Max(S)}] \in V
      BY <1>4, <3>1 DEF IsFold
    <3>3. g[S] = F[Max(S)][g[S \ {Max(S)}]]
      BY <1>4, <2>1 DEF IsFold
    <3> QED
      BY <3>1, <3>2, <3>3
  <2>2. g = [S \in SUBSET (DOMAIN ms) |->
               IF S = {} THEN ss ELSE With(g[S \ {Max(S)}], ms[Max(S)])]
    BY <1>1, <1>4, <2>1 DEF IsFold
  <2> QED
    BY <2>2, Zenon
<1>6. Replay(hs, ss, ms) = h[DOMAIN ms]
  BY DEF Replay, FoldLeft, MapThenFoldSet
<1> HIDE DEF h, F, V, With
<1>7. h[{}] = ss
  BY <1>5
<1>8. ASSUME NEW k \in 1..n PROVE h[1..k] = With(h[1..(k - 1)], ms[k])
  <2>1. /\ 1..k # {} /\ 1..k \in SUBSET (1..n)
        /\ Max(1..k) = k /\ (1..k) \ {k} = 1..(k - 1)
    BY <1>1, MaxOfInitial
  <2> HIDE DEF n
  <2> QED
    BY <1>1, <1>5, <2>1
<1>9. \A k \in 0..n : h[1..k] \in V
  <2>1. \A k \in 1..n : h[1..(k - 1)] \in V => h[1..k] \in V
    BY <1>2, <1>8
  <2> HIDE DEF n
  <2> QED
    BY <1>1, <1>7, <2>1, FoldValues
<1>10. a \in [0..n -> V] /\ a[0] = ss /\ Replay(hs, ss, ms) = a[n]
  BY <1>1, <1>6, <1>7, <1>9
<1>11. \A k \in 1..n : a[k] = With(a[k - 1], ms[k])
  BY <1>1, <1>8
<1> QED
  BY <1>10, <1>11 DEF V, With

\* The entries of a game imported.
LEMMA ImportedIsEntries ==
  ASSUME NEW hs, NEW plays \in Seq(Player \X (Point \cup {PASS}))
  PROVE  Imported(hs, plays) \in Seq(Entry)
<1> DEFINE n == Len(plays)
           V == Seq(Entry)
           With(s, e) == s \o (IF ColourAt(hs, Len(s)) = e[1] THEN <<e[2]>> ELSE <<NONE, e[2]>>)
           F == [k \in 1..n |-> [b \in V |-> With(b, plays[k])]]
           h == CHOOSE g : g = [S \in SUBSET (DOMAIN plays) |->
                  IF S = {} THEN <<>> ELSE With(g[S \ {Max(S)}], plays[Max(S)])]
           a == [k \in 0..n |-> h[1..k]]
<1>1. n \in Nat /\ DOMAIN plays = 1..n /\ <<>> \in V
  OBVIOUS
<1>2. ASSUME NEW b \in V, NEW k \in 1..n PROVE With(b, plays[k]) \in V
  <2>1. /\ b \in Seq(Entry) /\ plays[k][2] \in Entry
        /\ <<plays[k][2]>> \in Seq(Entry) /\ <<NONE, plays[k][2]>> \in Seq(Entry)
    BY DEF Entry
  <2> QED
    BY <2>1
<1>3. F \in [1..n -> [V -> V]]
  BY <1>2
<1>4. PICK g : IsFold(V, n, <<>>, F, g)
  <2> HIDE DEF F, n, V
  <2> QED
    BY <1>1, <1>3, FoldExists
<1>5. h = [S \in SUBSET (DOMAIN plays) |->
             IF S = {} THEN <<>> ELSE With(h[S \ {Max(S)}], plays[Max(S)])]
  <2>1. ASSUME NEW S \in SUBSET (1..n), S # {}
        PROVE  g[S] = With(g[S \ {Max(S)}], plays[Max(S)])
    <3>1. Max(S) \in 1..n
      BY <1>1, <2>1, MaxOfRange
    <3>2. g[S \ {Max(S)}] \in V
      BY <1>4, <3>1 DEF IsFold
    <3>3. g[S] = F[Max(S)][g[S \ {Max(S)}]]
      BY <1>4, <2>1 DEF IsFold
    <3> QED
      BY <3>1, <3>2, <3>3
  <2>2. g = [S \in SUBSET (DOMAIN plays) |->
               IF S = {} THEN <<>> ELSE With(g[S \ {Max(S)}], plays[Max(S)])]
    BY <1>1, <1>4, <2>1 DEF IsFold
  <2> QED
    BY <2>2, Zenon
<1>6. Imported(hs, plays) = h[DOMAIN plays]
  BY DEF Imported, FoldLeft, MapThenFoldSet
<1> HIDE DEF h, F, V, With
<1>7. h[{}] = <<>>
  BY <1>5
<1>8. ASSUME NEW k \in 1..n PROVE h[1..k] = With(h[1..(k - 1)], plays[k])
  <2>1. /\ 1..k # {} /\ 1..k \in SUBSET (1..n)
        /\ Max(1..k) = k /\ (1..k) \ {k} = 1..(k - 1)
    BY <1>1, MaxOfInitial
  <2> HIDE DEF n
  <2> QED
    BY <1>1, <1>5, <2>1
<1>9. \A k \in 0..n : h[1..k] \in V
  <2>1. \A k \in 1..n : h[1..(k - 1)] \in V => h[1..k] \in V
    BY <1>2, <1>8
  <2> HIDE DEF n
  <2> QED
    BY <1>1, <1>7, <2>1, FoldValues
<1> QED
  BY <1>1, <1>6, <1>9 DEF V

\* The handicap stones that are added leave a point, and none is added twice.
LEMMA PointsAreFinite == IsFiniteSet(Point) /\ Cardinality(Point) \in Nat
BY BoardAssumption, FS_CardinalityType

LEMMA AddedAreHandicap ==
  ASSUME NEW hs \in HandicapStones, NEW ms, NEW X, ms \in Seq(X)
  PROVE  Added(hs, ms) \in [hs : HandicapStones, ok : BOOLEAN]
<1> DEFINE n == Len(ms)
           V == [hs : HandicapStones, ok : BOOLEAN]
           With(r, m) == IF r.ok /\ CanAdd(r.hs, m) THEN [hs |-> Append(r.hs, m), ok |-> TRUE]
                                                 ELSE [hs |-> r.hs, ok |-> FALSE]
           F == [k \in 1..n |-> [b \in V |-> With(b, ms[k])]]
           h == CHOOSE g : g = [S \in SUBSET (DOMAIN ms) |->
                  IF S = {} THEN [hs |-> hs, ok |-> TRUE] ELSE With(g[S \ {Max(S)}], ms[Max(S)])]
           a == [k \in 0..n |-> h[1..k]]
<1>1. n \in Nat /\ DOMAIN ms = 1..n /\ [hs |-> hs, ok |-> TRUE] \in V
  OBVIOUS
<1>2. ASSUME NEW b \in V, NEW k \in 1..n PROVE With(b, ms[k]) \in V
  <2>1. CASE b.ok /\ CanAdd(b.hs, ms[k])
    <3>1. /\ b.hs \in Seq(Point) /\ ms[k] \in Point /\ Len(b.hs) + 1 < Cardinality(Point)
          /\ \A i \in 1..Len(b.hs) : b.hs[i] # ms[k]
          /\ \A i, j \in 1..Len(b.hs) : b.hs[i] = b.hs[j] => i = j
      BY <2>1, PointsAreFinite DEF CanAdd, TooMany, HandicapStones, IsInjective
    <3>2. Append(b.hs, ms[k]) \in Seq(Point) /\ Len(Append(b.hs, ms[k])) = Len(b.hs) + 1
      BY <3>1
    <3>3. IsInjective(Append(b.hs, ms[k]))
      BY <3>1 DEF IsInjective
    <3> QED
      BY <2>1, <3>1, <3>2, <3>3 DEF HandicapStones
  <2>2. CASE ~(b.ok /\ CanAdd(b.hs, ms[k]))
    BY <2>2
  <2> QED
    BY <2>1, <2>2
<1>3. F \in [1..n -> [V -> V]]
  BY <1>2
<1>4. PICK g : IsFold(V, n, [hs |-> hs, ok |-> TRUE], F, g)
  <2> HIDE DEF F, n, V
  <2> QED
    BY <1>1, <1>3, FoldExists
<1>5. h = [S \in SUBSET (DOMAIN ms) |->
             IF S = {} THEN [hs |-> hs, ok |-> TRUE] ELSE With(h[S \ {Max(S)}], ms[Max(S)])]
  <2>1. ASSUME NEW S \in SUBSET (1..n), S # {}
        PROVE  g[S] = With(g[S \ {Max(S)}], ms[Max(S)])
    <3>1. Max(S) \in 1..n
      BY <1>1, <2>1, MaxOfRange
    <3>2. g[S \ {Max(S)}] \in V
      BY <1>4, <3>1 DEF IsFold
    <3>3. g[S] = F[Max(S)][g[S \ {Max(S)}]]
      BY <1>4, <2>1 DEF IsFold
    <3> QED
      BY <3>1, <3>2, <3>3
  <2>2. g = [S \in SUBSET (DOMAIN ms) |->
               IF S = {} THEN [hs |-> hs, ok |-> TRUE] ELSE With(g[S \ {Max(S)}], ms[Max(S)])]
    BY <1>1, <1>4, <2>1 DEF IsFold
  <2> QED
    BY <2>2, Zenon
<1>6. Added(hs, ms) = h[DOMAIN ms]
  BY DEF Added, FoldLeft, MapThenFoldSet
<1> HIDE DEF h, F, V, With
<1>7. h[{}] = [hs |-> hs, ok |-> TRUE]
  BY <1>5
<1>8. ASSUME NEW k \in 1..n PROVE h[1..k] = With(h[1..(k - 1)], ms[k])
  <2>1. /\ 1..k # {} /\ 1..k \in SUBSET (1..n)
        /\ Max(1..k) = k /\ (1..k) \ {k} = 1..(k - 1)
    BY <1>1, MaxOfInitial
  <2> HIDE DEF n
  <2> QED
    BY <1>1, <1>5, <2>1
<1>9. \A k \in 0..n : h[1..k] \in V
  <2>1. \A k \in 1..n : h[1..(k - 1)] \in V => h[1..k] \in V
    BY <1>2, <1>8
  <2> HIDE DEF n
  <2> QED
    BY <1>1, <1>7, <2>1, FoldValues
<1> QED
  BY <1>1, <1>6, <1>9 DEF V

-----------------------------------------------------------------------------
(***************************************************************************)
(* Replays.                                                                *)
(***************************************************************************)
\* The first state has the handicap stones, black, and a point that is empty.
LEMMA FirstState ==
  ASSUME NEW hs \in HandicapStones
  PROVE  /\ first_game_state(hs) \in Board
         /\ first_game_state(hs).last_eaten = NONE
         /\ AllAlive(first_game_state(hs).p) /\ LastStands(first_game_state(hs))
<1>1. hs \in Seq(Point) /\ Len(hs) \in Nat /\ Len(hs) < Cardinality(Point)
  BY DEF HandicapStones
<1>2. PICK a \in [0..Len(hs) -> Board] :
        /\ a[0] = clear_board
        /\ \A k \in 1..Len(hs) : a[k] = just_play_slow2(a[k - 1], "black", hs[k])
        /\ first_game_state(hs) = a[Len(hs)]
  BY <1>1, HandicapFold
<1> DEFINE Good(k) == /\ a[k].last_eaten = NONE /\ LastStands(a[k])
                      /\ \A m \in Point : a[k].p[m] \in {"black", EMPTY}
                      /\ \A m \in Point : (\A i \in 1..k : hs[i] # m) => a[k].p[m] = EMPTY
           T == {k \in 0..Len(hs) : Good(k)}
<1>3. 0 \in T
  <2>1. LastStands(clear_board)
    BY BoardAssumption DEF LastStands, clear_board
  <2> QED
    BY <1>1, <1>2, <2>1, ClearBoardIsBoard
<1>4. ASSUME NEW k \in 0..(Len(hs) - 1), k \in T PROVE k + 1 \in T
  <2>1. /\ k + 1 \in 1..Len(hs) /\ (k + 1) - 1 = k /\ k \in 0..Len(hs) /\ hs[k + 1] \in Point
        /\ k + 1 \in 0..Len(hs)
    BY <1>1
  <2>2. a[k + 1] = just_play_slow2(a[k], "black", hs[k + 1]) /\ a[k] \in Board
    BY <1>2, <2>1
  <2>3. "black" \in Player /\ \A m \in Point : a[k].p[m] # Opponent("black")
    BY <1>4, BoardAssumption DEF Opponent, Player
  <2>4. a[k + 1].last_eaten = NONE /\ a[k + 1].p = [a[k].p EXCEPT ![hs[k + 1]] = "black"]
    BY <2>1, <2>2, <2>3, NoneToCapture
  <2>5. a[k].p \in [Point -> Stones]
    BY <2>2 DEF Board, Stones
  <2>6. Good(k + 1)
    <3>1. ASSUME NEW m \in Point PROVE a[k + 1].p[m] \in {"black", EMPTY}
      BY <1>4, <2>4, <2>5
    <3>2. ASSUME NEW m \in Point, \A i \in 1..(k + 1) : hs[i] # m PROVE a[k + 1].p[m] = EMPTY
      <4>1. hs[k + 1] # m /\ \A i \in 1..k : hs[i] # m
        BY <3>2
      <4> QED
        BY <1>4, <2>4, <2>5, <4>1
    <3>3. LastStands(a[k + 1])
      BY <2>1, <2>2, <2>3, KoLeftByPlay
    <3> QED
      BY <2>4, <3>1, <3>2, <3>3
  <2> QED
    BY <2>1, <2>6
<1>5. Len(hs) \in T
  <2>1. \A k \in 0..(Len(hs) - 1) : k \in T => k + 1 \in T
    BY <1>4
  <2> HIDE DEF T
  <2>2. \A k \in 0..Len(hs) : k \in T
    BY <1>1, <1>3, <2>1, InductionUpTo
  <2> QED
    BY <1>1, <2>2
<1>6. \E m \in Point : \A i \in 1..Len(hs) : hs[i] # m
  <2>1. SUFFICES ASSUME \A m \in Point : \E i \in 1..Len(hs) : hs[i] = m PROVE FALSE
    OBVIOUS
  <2>2. hs \in Surjection(1..Len(hs), Point)
    BY <1>1, <2>1 DEF Surjection
  <2>3. ExistsSurjection(1..Len(hs), Point)
    BY <2>2 DEF ExistsSurjection
  <2>4. Cardinality(Point) <= Len(hs)
    BY <1>1, <2>3, FS_SurjCardinalityBound
  <2> QED
    BY <1>1, <2>4, PointsAreFinite
<1>7. first_game_state(hs) = a[Len(hs)] /\ a[Len(hs)] \in Board
  BY <1>1, <1>2
<1>8. AllAlive(a[Len(hs)].p)
  <2> DEFINE p == a[Len(hs)].p
  <2>1. p \in [Point -> Stones] /\ "black" \in Player
    BY <1>7 DEF Board, Stones, Player
  <2>2. (\A n \in Point : p[n] \in {"black", EMPTY}) /\ \E n \in Point : p[n] = EMPTY
    BY <1>5, <1>6
  <2> HIDE DEF p
  <2>3. AllAlive(p)
    BY <2>1, <2>2, OneColourIsAlive
  <2> QED
    BY <2>3 DEF p
<1> QED
  BY <1>5, <1>7, <1>8

\* r has the states ss, and one for each entry of ms played from there.
Extends(hs, ss, ms, r) ==
  /\ r \in Seq(Board) /\ Len(r) = Len(ss) + Len(ms)
  /\ \A i \in 1..Len(ss) : r[i] = ss[i]
  /\ \A i \in Len(ss)..(Len(r) - 1) :
       r[i + 1] = Replayed(r[i], ColourAt(hs, i - 1), ms[i + 1 - Len(ss)])

\* A replay does.
LEMMA ReplayExtends ==
  ASSUME NEW hs, NEW ss \in Replayable, NEW ms \in Seq(Entry)
  PROVE  Extends(hs, ss, ms, Replay(hs, ss, ms))
<1>1. ss \in Seq(Board) /\ Len(ss) \in Nat \ {0} /\ Len(ms) \in Nat
  BY DEF Replayable
<1>2. PICK a \in [0..Len(ms) -> Replayable] :
        /\ a[0] = ss
        /\ \A k \in 1..Len(ms) :
             a[k] = Append(a[k - 1], Replayed(Last(a[k - 1]), ColourAt(hs, Len(a[k - 1]) - 1), ms[k]))
        /\ Replay(hs, ss, ms) = a[Len(ms)]
  BY ReplayFold
<1> DEFINE Good(k) ==
             /\ Len(a[k]) = Len(ss) + k
             /\ \A i \in 1..Len(ss) : a[k][i] = ss[i]
             /\ \A i \in Len(ss)..(Len(ss) + k - 1) :
                  a[k][i + 1] = Replayed(a[k][i], ColourAt(hs, i - 1), ms[i + 1 - Len(ss)])
           T == {k \in 0..Len(ms) : Good(k)}
<1>3. 0 \in T
  BY <1>1, <1>2
<1>4. ASSUME NEW k \in 0..(Len(ms) - 1), k \in T PROVE k + 1 \in T
  <2> DEFINE l == Len(ss)
             b == a[k]
             x == Replayed(b[l + k], ColourAt(hs, l + k - 1), ms[k + 1])
  <2>1. k + 1 \in 1..Len(ms) /\ (k + 1) - 1 = k /\ k \in 0..Len(ms) /\ k + 1 \in 0..Len(ms)
    BY <1>1
  <2>2. b \in Seq(Board) /\ Len(b) = l + k /\ Last(b) = b[l + k]
    BY <1>1, <1>2, <1>4, <2>1 DEF Replayable, Last
  <2>3. a[k + 1] = Append(b, x)
    BY <1>2, <2>1, <2>2
  <2>4. /\ \A i \in 1..l : b[i] = ss[i]
        /\ \A i \in l..(l + k - 1) : b[i + 1] = Replayed(b[i], ColourAt(hs, i - 1), ms[i + 1 - l])
    BY <1>4
  <2>5. x = Replayed(b[l + k], ColourAt(hs, l + k - 1), ms[k + 1])
    OBVIOUS
  <2> HIDE DEF b, x
  <2>6. Len(Append(b, x)) = l + (k + 1) /\ Append(b, x)[l + k + 1] = x
    BY <1>1, <2>2
  <2>7. \A i \in 1..(l + k) : Append(b, x)[i] = b[i]
    BY <1>1, <2>2
  <2>8. \A i \in 1..l : Append(b, x)[i] = ss[i]
    <3>1. \A i \in 1..l : i \in 1..(l + k)
      BY <1>1
    <3> QED
      BY <2>4, <2>7, <3>1
  <2>9. ASSUME NEW i \in l..(l + (k + 1) - 1)
        PROVE  Append(b, x)[i + 1] = Replayed(Append(b, x)[i], ColourAt(hs, i - 1), ms[i + 1 - l])
    <3>1. CASE i = l + k
      <4>1. i + 1 - l = k + 1 /\ i + 1 = l + k + 1 /\ i \in 1..(l + k)
        BY <1>1, <3>1
      <4>2. Append(b, x)[i] = b[i]
        BY <2>7, <4>1
      <4> QED
        BY <2>6, <2>5, <3>1, <4>1, <4>2
    <3>2. CASE i # l + k
      <4>1. i \in l..(l + k - 1) /\ i \in 1..(l + k) /\ i + 1 \in 1..(l + k)
        BY <1>1, <3>2
      <4> QED
        BY <2>4, <2>7, <4>1
    <3> QED
      BY <3>1, <3>2
  <2>10. Good(k + 1)
    BY <2>3, <2>6, <2>8, <2>9
  <2> QED
    BY <2>1, <2>10
<1>5. Len(ms) \in T
  <2>1. \A k \in 0..(Len(ms) - 1) : k \in T => k + 1 \in T
    BY <1>4
  <2> HIDE DEF T
  <2>2. \A k \in 0..Len(ms) : k \in T
    BY <1>1, <1>3, <2>1, InductionUpTo
  <2> QED
    BY <1>1, <2>2
<1>6. Replay(hs, ss, ms) = a[Len(ms)] /\ a[Len(ms)] \in Seq(Board)
  BY <1>1, <1>2 DEF Replayable
<1> QED
  BY <1>5, <1>6 DEF Extends

\* A replay from the first state is one by the definition of IsReplay, and the only one.
LEMMA ReplayIsReplay ==
  ASSUME NEW hs \in HandicapStones, NEW ms \in Seq(Entry)
  PROVE  IsReplay(hs, ms, Replay(hs, <<first_game_state(hs)>>, ms))
<1> DEFINE f == first_game_state(hs)
           ss == <<f>>
           r == Replay(hs, ss, ms)
<1>1. f \in Board
  BY FirstState
<1> HIDE DEF f
<1>2. /\ ss \in Replayable /\ Len(ss) = 1 /\ ss[1] = f /\ Len(ms) \in Nat
      /\ r = Replay(hs, ss, ms)
  BY <1>1 DEF Replayable
<1> HIDE DEF ss, r
<1>3. /\ r \in Seq(Board) /\ Len(r) = 1 + Len(ms)
      /\ \A i \in 1..1 : r[i] = ss[i]
      /\ \A i \in 1..(Len(r) - 1) : r[i + 1] = Replayed(r[i], ColourAt(hs, i - 1), ms[i + 1 - 1])
  <2>1. /\ r \in Seq(Board) /\ Len(r) = Len(ss) + Len(ms)
        /\ \A i \in 1..Len(ss) : r[i] = ss[i]
        /\ \A i \in Len(ss)..(Len(r) - 1) :
             r[i + 1] = Replayed(r[i], ColourAt(hs, i - 1), ms[i + 1 - Len(ss)])
    <3>1. Extends(hs, ss, ms, r)
      BY <1>2, ReplayExtends
    <3> QED
      BY <3>1 DEF Extends
  <2> QED
    BY <1>2, <2>1
<1>4. \A i \in 1..Len(ms) : r[i + 1] = Replayed(r[i], ColourAt(hs, i - 1), ms[i])
  BY <1>2, <1>3
<1>5. IsReplay(hs, ms, r)
  BY <1>2, <1>3, <1>4 DEF IsReplay, f
<1> QED
  BY <1>5 DEF r, ss, f

LEMMA ReplayOfPrefix ==
  ASSUME NEW hs, NEW ms \in Seq(Entry), NEW t \in 0..Len(ms), NEW r, IsReplay(hs, ms, r),
         NEW q, IsReplay(hs, SubSeq(ms, 1, t), q)
  PROVE  q = SubSeq(r, 1, t + 1)
<1> DEFINE mt == SubSeq(ms, 1, t)
           T == {k \in 0..t : q[k + 1] = r[k + 1]}
<1>1. /\ Len(ms) \in Nat /\ t \in Nat /\ Len(mt) = t /\ \A k \in 1..t : mt[k] = ms[k]
      /\ r \in Seq(Board) /\ Len(r) = Len(ms) + 1 /\ q \in Seq(Board) /\ Len(q) = t + 1
  BY DEF IsReplay
<1>2. 0 \in T
  BY <1>1 DEF IsReplay
<1>3. ASSUME NEW k \in 0..(t - 1), k \in T PROVE k + 1 \in T
  <2>1. k + 1 \in 1..t /\ k + 1 \in 1..Len(ms) /\ (k + 1) - 1 = k
    BY <1>1
  <2>2. /\ q[(k + 1) + 1] = Replayed(q[k + 1], ColourAt(hs, (k + 1) - 1), mt[k + 1])
        /\ r[(k + 1) + 1] = Replayed(r[k + 1], ColourAt(hs, (k + 1) - 1), ms[k + 1])
    BY <1>1, <2>1 DEF IsReplay
  <2> QED
    BY <1>1, <1>3, <2>1, <2>2
<1>4. \A k \in 0..t : k \in T
  <2>1. \A k \in 0..(t - 1) : k \in T => k + 1 \in T
    BY <1>3
  <2> HIDE DEF T
  <2> QED
    BY <1>1, <1>2, <2>1, InductionUpTo
<1>5. \A i \in 1..(t + 1) : q[i] = r[i]
  <2> TAKE i \in 1..(t + 1)
  <2>1. i - 1 \in 0..t /\ (i - 1) + 1 = i
    BY <1>1
  <2> QED
    BY <1>4, <2>1
<1>6. /\ SubSeq(r, 1, t + 1) \in Seq(Board) /\ Len(SubSeq(r, 1, t + 1)) = t + 1
      /\ \A i \in 1..(t + 1) : SubSeq(r, 1, t + 1)[i] = r[i]
  BY <1>1
<1> QED
  BY <1>1, <1>5, <1>6

-----------------------------------------------------------------------------
(***************************************************************************)
(* Records.                                                                *)
(***************************************************************************)
\* The record of a match that has begun.
LEMMA EmptySequences ==
  /\ <<>> \in Seq(Entry) /\ <<>> \in Seq(Point) /\ Len(<<>>) = 0
OBVIOUS

LEMMA FirstRecord ==
  ASSUME NEW hs \in HandicapStones
  PROVE  IsRecord(hs, <<>>, <<first_game_state(hs)>>)
<1>1. <<first_game_state(hs)>> \in Seq(Board)
  BY FirstState
<1> QED
  BY <1>1 DEF IsRecord, IsReplay, PlaysCanBePlayed, PlaysKeepSuperko

\* Plays are taken back.
LEMMA PrefixIsRecord ==
  ASSUME NEW hs, NEW ms, NEW ss, IsRecord(hs, ms, ss), NEW t \in 0..Len(ms)
  PROVE  IsRecord(hs, SubSeq(ms, 1, t), SubSeq(ss, 1, t + 1))
<1> DEFINE mt == SubSeq(ms, 1, t)
           st == SubSeq(ss, 1, t + 1)
<1>1. /\ ms \in Seq(Entry) /\ ss \in Seq(Board) /\ Len(ss) = Len(ms) + 1 /\ Len(ms) \in Nat
      /\ t \in Nat
  BY DEF IsRecord, IsReplay
<1>2. /\ mt \in Seq(Entry) /\ Len(mt) = t /\ \A i \in 1..t : mt[i] = ms[i]
      /\ st \in Seq(Board) /\ Len(st) = t + 1 /\ \A i \in 1..(t + 1) : st[i] = ss[i]
  BY <1>1
<1> HIDE DEF mt, st
<1>3. \A i \in 1..t : /\ i \in 1..Len(ms) /\ i \in 1..(t + 1) /\ i + 1 \in 1..(t + 1)
                      /\ mt[i] = ms[i] /\ st[i] = ss[i] /\ st[i + 1] = ss[i + 1]
  BY <1>1, <1>2
<1>4. IsReplay(hs, mt, st)
  <2>1. st[1] = first_game_state(hs)
    BY <1>1, <1>2 DEF IsRecord, IsReplay
  <2>2. \A i \in 1..t : st[i + 1] = Replayed(st[i], ColourAt(hs, i - 1), mt[i])
    BY <1>3 DEF IsRecord, IsReplay
  <2> QED
    BY <1>2, <2>1, <2>2 DEF IsReplay
<1>5. PlaysCanBePlayed(hs, mt, st)
  BY <1>2, <1>3 DEF IsRecord, PlaysCanBePlayed
<1>6. PlaysKeepSuperko(hs, mt, st)
  <2> SUFFICES ASSUME NEW i \in 1..t, NEW j \in 1..t, i < j, mt[i] \in Point, mt[j] \in Point,
                      NEW k \in 1..i, mt[k] \in Point,
                      captured(st[k], ColourAt(hs, k - 1), mt[k]) > 0
               PROVE  st[i + 1].p # st[j + 1].p
    BY <1>2 DEF PlaysKeepSuperko
  <2>1. k \in 1..t
    BY <1>1
  <2>2. /\ ms[i] \in Point /\ ms[j] \in Point /\ ms[k] \in Point
        /\ captured(ss[k], ColourAt(hs, k - 1), ms[k]) > 0
        /\ i \in 1..Len(ms) /\ j \in 1..Len(ms)
    BY <1>3, <2>1
  <2>3. ss[i + 1].p # ss[j + 1].p
    BY <2>2 DEF IsRecord, PlaysKeepSuperko
  <2> QED
    BY <1>3, <2>3
<1>7. IsRecord(hs, mt, st)
  BY <1>2, <1>4, <1>5, <1>6 DEF IsRecord
<1> QED
  BY <1>7 DEF mt, st

\* A game is loaded up to a move number.
LEMMA LoadedIsRecord ==
  ASSUME NEW g \in Games, NEW t \in 0..Len(Imported(g.handicap, g.plays))
  PROVE  LET mt == SubSeq(Imported(g.handicap, g.plays), 1, t) IN
         /\ IsRecord(g.handicap, mt, Replay(g.handicap, <<first_game_state(g.handicap)>>, mt))
         /\ Len(mt) < MaxGameLength
<1> DEFINE hs == g.handicap
           ms == Imported(hs, g.plays)
           mt == SubSeq(ms, 1, t)
           ss == Replay(hs, <<first_game_state(hs)>>, ms)
           st == Replay(hs, <<first_game_state(hs)>>, mt)
<1>1. /\ hs \in HandicapStones /\ Len(ms) < MaxGameLength
      /\ PlaysCanBePlayed(hs, ms, ss) /\ PlaysKeepSuperko(hs, ms, ss)
  BY GamesAssumption
<1>2. ms \in Seq(Entry) /\ t \in 0..Len(ms)
  BY GamesAssumption, ImportedIsEntries
<1> HIDE DEF hs, ms
<1>3. mt \in Seq(Entry) /\ Len(mt) = t /\ t < MaxGameLength
  BY <1>1, <1>2, RecordAssumption
<1> HIDE DEF mt
<1>4. IsReplay(hs, ms, ss) /\ IsReplay(hs, mt, st)
  BY <1>1, <1>2, <1>3, ReplayIsReplay
<1>5. IsRecord(hs, ms, ss)
  BY <1>1, <1>2, <1>4 DEF IsRecord
<1>6. st = SubSeq(ss, 1, t + 1)
  <2> HIDE DEF ss, st
  <2> QED
    BY <1>2, <1>4, ReplayOfPrefix DEF mt, ms, hs
<1>7. IsRecord(hs, mt, st)
  <2> HIDE DEF ss, st
  <2>1. IsRecord(hs, mt, SubSeq(ss, 1, t + 1))
    BY <1>5, PrefixIsRecord DEF mt, ms, hs
  <2> QED
    BY <1>6, <2>1
<1> QED
  BY <1>3, <1>7 DEF hs, ms, mt

\* What a record has at one of its entries.
LEMMA EntryOfRecord ==
  ASSUME NEW hs, NEW ms, NEW ss, IsRecord(hs, ms, ss), NEW i \in 1..Len(ms)
  PROVE  /\ ms[i] \in Entry /\ ss[i] \in Board /\ ss[i + 1] \in Board
         /\ i \in 1..Len(ss) /\ i + 1 \in 1..Len(ss)
         /\ ColourAt(hs, i - 1) \in Player
         /\ ms[i] \in Point => /\ ss[i + 1] = just_play_slow2(ss[i], ColourAt(hs, i - 1), ms[i])
                               /\ can_play_slow(ss[i], ColourAt(hs, i - 1), ms[i])
         /\ ms[i] \notin Point => ss[i + 1] = pass(ss[i])
BY ColourAtIsPlayer DEF IsRecord, IsReplay, Replayed, PlaysCanBePlayed

\* No state of a record has a dead stone.
LEMMA StatesAreAlive ==
  ASSUME NEW hs, NEW ms, NEW ss, IsRecord(hs, ms, ss)
  PROVE  \A i \in 1..Len(ss) : AllAlive(ss[i].p)
<1> DEFINE T == {k \in 0..Len(ms) : AllAlive(ss[k + 1].p)}
<1>1. Len(ms) \in Nat /\ Len(ss) = Len(ms) + 1
  BY DEF IsRecord, IsReplay
<1>2. 0 \in T
  BY <1>1, FirstState DEF IsRecord, IsReplay
<1>3. ASSUME NEW k \in 0..(Len(ms) - 1), k \in T PROVE k + 1 \in T
  <2> DEFINE i == k + 1
  <2>1. i \in 1..Len(ms) /\ i \in 0..Len(ms) /\ AllAlive(ss[i].p)
    BY <1>1, <1>3
  <2> HIDE DEF i
  <2>2. ASSUME ms[i] \in Point PROVE AllAlive(ss[i + 1].p)
    <3>1. /\ ss[i] \in Board /\ ColourAt(hs, i - 1) \in Player
          /\ ss[i + 1] = just_play_slow2(ss[i], ColourAt(hs, i - 1), ms[i])
          /\ can_play_slow(ss[i], ColourAt(hs, i - 1), ms[i])
      BY <2>1, <2>2, EntryOfRecord
    <3> QED
      BY <2>1, <2>2, <3>1, PlayLeavesNoDeadStone
  <2>3. ASSUME ms[i] \notin Point PROVE AllAlive(ss[i + 1].p)
    <3>1. ss[i] \in Board /\ ss[i + 1] = pass(ss[i])
      BY <2>1, <2>3, EntryOfRecord
    <3> QED
      BY <2>1, <3>1, PassGivesBoard
  <2>4. AllAlive(ss[i + 1].p)
    BY <2>2, <2>3
  <2> QED
    BY <2>1, <2>4 DEF i
<1>4. \A k \in 0..Len(ms) : k \in T
  <2>1. \A k \in 0..(Len(ms) - 1) : k \in T => k + 1 \in T
    BY <1>3
  <2> HIDE DEF T
  <2> QED
    BY <1>1, <1>2, <2>1, InductionUpTo
<1> TAKE i \in 1..Len(ss)
<1>5. i - 1 \in 0..Len(ms) /\ (i - 1) + 1 = i
  BY <1>1
<1> QED
  BY <1>4, <1>5

\* A ko in a state comes of the play just made.
LEMMA KoOfRecord ==
  ASSUME NEW hs, NEW ms, NEW ss, IsRecord(hs, ms, ss), NEW i \in 1..Len(ss),
         ss[i].last_eaten \in Point
  PROVE  /\ i - 1 \in 1..Len(ms)
         /\ ms[i - 1] \in Point
         /\ ss[i].last_played = ms[i - 1] /\ ss[i].last_eaten \in Adjacent[ms[i - 1]]
         /\ ss[i].p[ms[i - 1]] = ColourAt(hs, i - 2)
<1>1. Len(ms) \in Nat /\ Len(ss) = Len(ms) + 1 /\ NONE \notin Point
  BY BoardAssumption DEF IsRecord, IsReplay
<1>2. i # 1
  BY <1>1, FirstState DEF IsRecord, IsReplay
<1> DEFINE j == i - 1
<1>3. j \in 1..Len(ms) /\ j + 1 = i /\ j - 1 = i - 2
  BY <1>1, <1>2
<1> HIDE DEF j
<1>4. ms[j] \in Point
  BY <1>1, <1>3, EntryOfRecord, PassGivesBoard
<1>5. /\ ss[j] \in Board /\ ColourAt(hs, j - 1) \in Player
      /\ ss[i] = just_play_slow2(ss[j], ColourAt(hs, j - 1), ms[j])
  BY <1>3, <1>4, EntryOfRecord
<1>6. /\ ss[i].last_played = ms[j] /\ ss[i].last_eaten \in Adjacent[ms[j]]
      /\ ss[i].p[ms[j]] = ColourAt(hs, j - 1)
  BY <1>4, <1>5, KoAfterPlay, StonesAfterPlay
<1> QED
  BY <1>3, <1>4, <1>6 DEF j

\* The colours of a replay alternate.
LEMMA ColoursAlternate ==
  ASSUME NEW hs, NEW n \in Nat
  PROVE  ColourAt(hs, n + 1) = Opponent(ColourAt(hs, n))
<1>1. (n + 1) % 2 = 0 <=> n % 2 # 0
  OBVIOUS
<1>2. first_player_color(hs) \in Player
  BY DEF first_player_color, Player
<1> QED
  BY <1>1, <1>2, Colours DEF ColourAt

\* A play does not restore the board before the play it answers.
LEMMA RecordHasNoImmediateRepeat ==
  ASSUME NEW hs, NEW ms, NEW ss, IsRecord(hs, ms, ss), NEW i \in 1..(Len(ms) - 1),
         ms[i] \in Point, ms[i + 1] \in Point
  PROVE  ss[i].p # ss[i + 2].p
<1> DEFINE j == i + 1
           e == ColourAt(hs, i - 1)
<1>1. /\ i \in 1..Len(ms) /\ j \in 1..Len(ms) /\ j + 1 = i + 2
      /\ i - 1 \in Nat /\ j - 1 = (i - 1) + 1
  BY DEF IsRecord
<1>2. ColourAt(hs, j - 1) = Opponent(e)
  BY <1>1, ColoursAlternate
<1>3. /\ ss[i] \in Board /\ e \in Player /\ ss[j] = just_play_slow2(ss[i], e, ms[i])
      /\ can_play_slow(ss[i], e, ms[i])
  BY <1>1, EntryOfRecord
<1> HIDE DEF j, e
<1>4. /\ ss[j + 1] = just_play_slow2(ss[j], Opponent(e), ms[j])
      /\ can_play_slow(ss[j], Opponent(e), ms[j]) /\ ms[j] \in Point
  <2>1. ms[j] \in Point
    BY DEF j
  <2> QED
    BY <1>1, <1>2, <2>1, EntryOfRecord
<1>5. ss[i].p[ms[i]] = EMPTY
  BY <1>3 DEF can_play_slow
<1>6. ss[j + 1].p # ss[i].p
  BY <1>3, <1>4, <1>5, KoForbidsRepeat
<1> QED
  BY <1>1, <1>6

-----------------------------------------------------------------------------
(***************************************************************************)
(* A play added to the record.                                             *)
(***************************************************************************)
\* No board of the record since the first capture is q.
NewBoard(hs, ms, ss, q) ==
  \A i \in 1..Len(ms) :
    (/\ ms[i] \in Point
     /\ \E k \in 1..i : ms[k] \in Point /\ captured(ss[k], ColourAt(hs, k - 1), ms[k]) > 0)
      => ss[i + 1].p # q

LEMMA ExtendedRecord ==
  ASSUME NEW hs, NEW ms, NEW ss, IsRecord(hs, ms, ss), NEW m \in Entry,
         NEW b, b = Replayed(Last(ss), ColourAt(hs, Len(ms)), m),
         m \in Point => /\ can_play_slow(Last(ss), ColourAt(hs, Len(ms)), m)
                        /\ NewBoard(hs, ms, ss, b.p)
  PROVE  IsRecord(hs, Append(ms, m), Append(ss, b))
<1> DEFINE n == Len(ms)
           mt == Append(ms, m)
           st == Append(ss, b)
<1>1. /\ ms \in Seq(Entry) /\ ss \in Seq(Board) /\ Len(ss) = n + 1 /\ n \in Nat
      /\ Last(ss) = ss[n + 1] /\ ss[n + 1] \in Board
  BY DEF IsRecord, IsReplay, Last
<1>2. b \in Board
  BY <1>1, ColourAtIsPlayer, ReplayedIsBoard
<1>3. /\ mt \in Seq(Entry) /\ Len(mt) = n + 1 /\ mt[n + 1] = m /\ \A i \in 1..n : mt[i] = ms[i]
      /\ st \in Seq(Board) /\ Len(st) = n + 2 /\ st[n + 2] = b
      /\ \A i \in 1..(n + 1) : st[i] = ss[i]
  BY <1>1, <1>2
<1> HIDE DEF mt, st
<1>4. /\ \A i \in 1..n : /\ mt[i] = ms[i] /\ st[i] = ss[i] /\ st[i + 1] = ss[i + 1]
                         /\ i \in 1..(n + 1)
      /\ st[n + 1] = Last(ss) /\ (n + 1) - 1 = n /\ (n + 1) + 1 = n + 2
      /\ \A i \in 1..(n + 1) : i \in 1..n \/ i = n + 1
  BY <1>1, <1>3
<1>5. IsReplay(hs, mt, st)
  <2>1. st[1] = first_game_state(hs)
    BY <1>1, <1>3 DEF IsRecord, IsReplay
  <2>2. ASSUME NEW i \in 1..(n + 1)
        PROVE  st[i + 1] = Replayed(st[i], ColourAt(hs, i - 1), mt[i])
    <3>1. CASE i \in 1..n
      <4>1. ss[i + 1] = Replayed(ss[i], ColourAt(hs, i - 1), ms[i])
        BY <3>1 DEF IsRecord, IsReplay
      <4> QED
        BY <1>4, <3>1, <4>1
    <3>2. CASE i = n + 1
      BY <1>3, <1>4, <3>2
    <3> QED
      BY <1>4, <3>1, <3>2
  <2>3. Len(st) = Len(mt) + 1
    BY <1>1, <1>3
  <2> QED
    BY <1>3, <2>1, <2>2, <2>3 DEF IsReplay
<1>6. PlaysCanBePlayed(hs, mt, st)
  <2> SUFFICES ASSUME NEW i \in 1..(n + 1), mt[i] \in Point
               PROVE  can_play_slow(st[i], ColourAt(hs, i - 1), mt[i])
    BY <1>3 DEF PlaysCanBePlayed
  <2>1. CASE i \in 1..n
    <3>1. mt[i] = ms[i] /\ st[i] = ss[i]
      BY <1>4, <2>1
    <3>2. ms[i] \in Point => can_play_slow(ss[i], ColourAt(hs, i - 1), ms[i])
      BY <2>1, EntryOfRecord
    <3> QED
      BY <3>1, <3>2
  <2>2. CASE i = n + 1
    BY <1>3, <1>4, <2>2
  <2> QED
    BY <1>4, <2>1, <2>2
<1>7. PlaysKeepSuperko(hs, mt, st)
  <2> SUFFICES ASSUME NEW i \in 1..(n + 1), NEW j \in 1..(n + 1), i < j,
                      mt[i] \in Point, mt[j] \in Point,
                      NEW k \in 1..i, mt[k] \in Point,
                      captured(st[k], ColourAt(hs, k - 1), mt[k]) > 0
               PROVE  st[i + 1].p # st[j + 1].p
    BY <1>3 DEF PlaysKeepSuperko
  <2>1. i \in 1..n /\ k \in 1..n
    BY <1>1
  <2>2. /\ ms[i] \in Point /\ ms[k] \in Point /\ st[i + 1] = ss[i + 1]
        /\ captured(ss[k], ColourAt(hs, k - 1), ms[k]) > 0
    BY <1>4, <2>1
  <2>3. CASE j \in 1..n
    <3>1. ms[j] \in Point /\ st[j + 1] = ss[j + 1]
      BY <1>4, <2>3
    <3> QED
      BY <2>1, <2>2, <2>3, <3>1 DEF IsRecord, PlaysKeepSuperko
  <2>4. CASE j = n + 1
    <3>1. m \in Point /\ st[j + 1] = b
      BY <1>3, <1>4, <2>4
    <3> QED
      BY <2>1, <2>2, <3>1 DEF NewBoard
  <2> QED
    BY <1>4, <2>3, <2>4
<1>8. IsRecord(hs, mt, st)
  BY <1>3, <1>5, <1>6, <1>7 DEF IsRecord
<1> QED
  BY <1>8 DEF mt, st

\* A pass changes the ko only, so what could be played still can.
LEMMA PlayAfterPass ==
  ASSUME NEW b \in Board, NEW c \in Player, NEW m \in Point
  PROVE  /\ just_play_slow2(pass(b), c, m).p = just_play_slow2(b, c, m).p
         /\ can_play_slow(b, c, m) => can_play_slow(pass(b), c, m)
<1>1. pass(b).p = b.p /\ pass(b).last_eaten = NONE /\ NONE \notin Point
  BY PassGivesBoard, BoardAssumption
<1>2. Placed(pass(b), c, m) = Placed(b, c, m)
  BY <1>1 DEF Placed
<1>3. captured(pass(b), c, m) = captured(b, c, m)
  BY <1>2 DEF captured
<1>4. ~test_ko(pass(b), c, m)
  BY <1>1 DEF test_ko
<1>5. just_play_slow2(pass(b), c, m).p = just_play_slow2(b, c, m).p
  BY <1>2 DEF just_play_slow2
<1> QED
  BY <1>1, <1>2, <1>3, <1>4, <1>5 DEF can_play_slow

\* The replay of one entry, and of the two of a play out of order.
LEMMA ReplayOfOne ==
  ASSUME NEW hs, NEW ss \in Replayable, NEW m \in Entry
  PROVE  Replay(hs, ss, <<m>>) = Append(ss, Replayed(Last(ss), ColourAt(hs, Len(ss) - 1), m))
<1> DEFINE n == Len(ss)
           r == Replay(hs, ss, <<m>>)
           b == Replayed(Last(ss), ColourAt(hs, n - 1), m)
<1>1. /\ ss \in Seq(Board) /\ n \in Nat \ {0} /\ Last(ss) = ss[n] /\ ss[n] \in Board
      /\ <<m>> \in Seq(Entry) /\ Len(<<m>>) = 1 /\ <<m>>[1] = m
  BY DEF Replayable, Last
<1>2. b \in Board
  BY <1>1, ColourAtIsPlayer, ReplayedIsBoard
<1>3. Extends(hs, ss, <<m>>, r)
  BY <1>1, ReplayExtends
<1> HIDE DEF r
<1>4. /\ r \in Seq(Board) /\ Len(r) = n + 1 /\ \A i \in 1..n : r[i] = ss[i]
      /\ r[n + 1] = Replayed(r[n], ColourAt(hs, n - 1), <<m>>[n + 1 - n])
  BY <1>1, <1>3 DEF Extends
<1>5. r[n + 1] = b
  BY <1>1, <1>4
<1> HIDE DEF b
<1>6. r = Append(ss, b)
  BY <1>1, <1>2, <1>4, <1>5
<1> QED
  BY <1>6 DEF r, b

LEMMA ReplayOfTwo ==
  ASSUME NEW hs, NEW ss \in Replayable, NEW m \in Entry, NEW s, s = Append(ss, pass(Last(ss)))
  PROVE  Replay(hs, ss, <<NONE, m>>) = Append(s, Replayed(Last(s), ColourAt(hs, Len(ss)), m))
<1> DEFINE n == Len(ss)
           ms == <<NONE, m>>
           r == Replay(hs, ss, ms)
           b == Replayed(Last(s), ColourAt(hs, n), m)
<1>1. /\ ss \in Seq(Board) /\ n \in Nat \ {0} /\ Last(ss) = ss[n] /\ ss[n] \in Board
      /\ ms \in Seq(Entry) /\ Len(ms) = 2 /\ ms[1] = NONE /\ ms[2] = m
  BY DEF Replayable, Last, Entry
<1>2. pass(ss[n]) \in Board
  BY <1>1, PassGivesBoard
<1>3. /\ s \in Seq(Board) /\ Len(s) = n + 1 /\ s[n + 1] = pass(ss[n])
      /\ \A i \in 1..n : s[i] = ss[i]
  BY <1>1, <1>2
<1>4. Last(s) = pass(ss[n])
  BY <1>3 DEF Last
<1>5. b \in Board
  BY <1>2, <1>4, ColourAtIsPlayer, ReplayedIsBoard
<1>6. Extends(hs, ss, ms, r)
  BY <1>1, ReplayExtends
<1> HIDE DEF r, ms
<1>7. /\ r \in Seq(Board) /\ Len(r) = n + 2 /\ \A i \in 1..n : r[i] = ss[i]
      /\ \A i \in n..(n + 1) : r[i + 1] = Replayed(r[i], ColourAt(hs, i - 1), ms[i + 1 - n])
  BY <1>1, <1>6 DEF Extends
<1>8. r[n + 1] = pass(ss[n])
  <2>1. n \in n..(n + 1) /\ n + 1 - n = 1 /\ n \in 1..n
    BY <1>1
  <2>2. r[n + 1] = Replayed(ss[n], ColourAt(hs, n - 1), NONE)
    BY <1>1, <1>7, <2>1
  <2> QED
    BY <2>2, BoardAssumption DEF Replayed
<1>9. r[n + 2] = b
  <2>1. n + 1 \in n..(n + 1) /\ n + 1 + 1 - n = 2 /\ n + 1 - 1 = n /\ n + 1 + 1 = n + 2
    BY <1>1
  <2>2. r[n + 1 + 1] = Replayed(r[n + 1], ColourAt(hs, n + 1 - 1), ms[n + 1 + 1 - n])
    BY <1>7, <2>1
  <2>3. r[n + 2] = Replayed(r[n + 1], ColourAt(hs, n), m)
    BY <1>1, <2>1, <2>2
  <2> QED
    BY <1>4, <1>8, <2>3
<1> HIDE DEF b
<1>10. r = Append(s, b)
  <2>1. /\ Append(s, b) \in Seq(Board) /\ Len(Append(s, b)) = n + 2 /\ Append(s, b)[n + 2] = b
        /\ \A i \in 1..(n + 1) : Append(s, b)[i] = s[i]
    BY <1>1, <1>3, <1>5
  <2>2. ASSUME NEW i \in 1..(n + 2)
        PROVE  r[i] = Append(s, b)[i]
    <3>1. i \in 1..n \/ i = n + 1 \/ i = n + 2
      BY <1>1
    <3>2. i \in 1..n => r[i] = Append(s, b)[i]
      BY <1>1, <1>3, <1>7, <2>1
    <3>3. r[n + 1] = Append(s, b)[n + 1]
      BY <1>1, <1>3, <1>8, <2>1
    <3> QED
      BY <1>9, <2>1, <3>1, <3>2, <3>3
  <2> QED
    BY <1>7, <2>1, <2>2
<1> QED
  BY <1>10 DEF r, b, ms

-----------------------------------------------------------------------------
(***************************************************************************)
(* A play, in order or not, keeps a record one that could have been        *)
(* played.                                                                 *)
(***************************************************************************)
LEMMA LastOfRecord ==
  ASSUME NEW hs, NEW ms, NEW ss, IsRecord(hs, ms, ss)
  PROVE  /\ ms \in Seq(Entry) /\ Len(ms) \in Nat
         /\ ss \in Replayable /\ Len(ss) = Len(ms) + 1 /\ Len(ss) - 1 = Len(ms)
         /\ Last(ss) = ss[Len(ms) + 1] /\ Last(ss) \in Board
<1>1. ms \in Seq(Entry) /\ Len(ms) \in Nat /\ ss \in Seq(Board) /\ Len(ss) = Len(ms) + 1
  BY DEF IsRecord, IsReplay
<1>2. Len(ss) \in 1..Len(ss) /\ ss # <<>> /\ Len(ss) - 1 = Len(ms)
  BY <1>1
<1>3. ss[Len(ss)] \in Board
  BY <1>1, <1>2
<1> QED
  BY <1>1, <1>2, <1>3 DEF Last, Replayable

\* The turn a player is skipped for gives no board to compare.
LEMMA NewBoardAfterSkip ==
  ASSUME NEW hs, NEW ms, NEW ss, IsRecord(hs, ms, ss), NEW q, NewBoard(hs, ms, ss, q), NEW b
  PROVE  NewBoard(hs, Append(ms, NONE), Append(ss, b), q)
<1> DEFINE n == Len(ms)
           mt == Append(ms, NONE)
           st == Append(ss, b)
<1>1. ms \in Seq(Entry) /\ n \in Nat /\ ss \in Replayable /\ Len(ss) = n + 1
  BY LastOfRecord
<1>2. /\ Len(mt) = n + 1 /\ mt[n + 1] = NONE /\ \A i \in 1..n : mt[i] = ms[i]
      /\ \A i \in 1..(n + 1) : st[i] = ss[i]
  BY <1>1 DEF Replayable, Entry
<1> HIDE DEF mt, st
<1> SUFFICES ASSUME NEW i \in 1..Len(mt), mt[i] \in Point,
                    NEW k \in 1..i, mt[k] \in Point,
                    captured(st[k], ColourAt(hs, k - 1), mt[k]) > 0
             PROVE  st[i + 1].p # q
  BY DEF NewBoard, mt, st
<1>3. i # n + 1
  BY <1>2, BoardAssumption
<1>4. i \in 1..n /\ k \in 1..n /\ i + 1 \in 1..(n + 1) /\ k \in 1..(n + 1)
  BY <1>1, <1>2, <1>3
<1>5. ms[i] \in Point /\ ms[k] \in Point /\ captured(ss[k], ColourAt(hs, k - 1), ms[k]) > 0
  BY <1>2, <1>4
<1>6. ss[i + 1].p # q
  BY <1>4, <1>5 DEF NewBoard
<1> QED
  BY <1>2, <1>4, <1>6

LEMMA PlayOfRecord ==
  ASSUME NEW hs, NEW ms, NEW ss, IsRecord(hs, ms, ss),
         NEW c \in Player, NEW m \in Point \cup {PASS},
         m \in Point => /\ can_play_slow(Last(ss), c, m)
                        /\ NewBoard(hs, ms, ss, just_play_slow2(Last(ss), c, m).p),
         NEW new, new = IF ColourAt(hs, Len(ms)) = c THEN <<m>> ELSE <<NONE, m>>
  PROVE  /\ IsRecord(hs, ms \o new, Replay(hs, ss, new))
         /\ m \in Point => Last(Replay(hs, ss, new)).p = just_play_slow2(Last(ss), c, m).p
<1> DEFINE n == Len(ms)
           l == Last(ss)
           q == just_play_slow2(l, c, m).p
<1>1. /\ ms \in Seq(Entry) /\ n \in Nat /\ ss \in Replayable /\ Len(ss) = n + 1
      /\ Len(ss) - 1 = n /\ l \in Board /\ m \in Entry /\ NONE \in Entry
  BY LastOfRecord DEF Entry
<1>2. ss \in Seq(Board) /\ ss # <<>>
  BY <1>1 DEF Replayable
<1>3. ASSUME ColourAt(hs, n) = c
      PROVE  /\ IsRecord(hs, ms \o new, Replay(hs, ss, new))
             /\ m \in Point => Last(Replay(hs, ss, new)).p = q
  <2> DEFINE b == Replayed(l, c, m)
  <2>1. new = <<m>> /\ ms \o <<m>> = Append(ms, m)
    BY <1>1, <1>3
  <2>2. Replay(hs, ss, <<m>>) = Append(ss, b)
    BY <1>1, <1>3, ReplayOfOne
  <2>3. m \in Point => b = just_play_slow2(l, c, m)
    BY DEF Replayed
  <2>4. b \in Board
    BY <1>1, ReplayedIsBoard
  <2>5. IsRecord(hs, Append(ms, m), Append(ss, b))
    <3>1. m \in Point => can_play_slow(l, ColourAt(hs, n), m) /\ NewBoard(hs, ms, ss, b.p)
      BY <1>3, <2>3
    <3>2. b = Replayed(Last(ss), ColourAt(hs, Len(ms)), m)
      BY <1>3
    <3> HIDE DEF b
    <3> QED
      BY <1>1, <3>1, <3>2, ExtendedRecord
  <2>6. Last(Append(ss, b)) = b
    <3> HIDE DEF b
    <3> QED
      BY <1>2, <2>4 DEF Last
  <2> QED
    BY <2>1, <2>2, <2>3, <2>5, <2>6
<1>4. ASSUME ColourAt(hs, n) # c
      PROVE  /\ IsRecord(hs, ms \o new, Replay(hs, ss, new))
             /\ m \in Point => Last(Replay(hs, ss, new)).p = q
  <2> DEFINE d == pass(l)
             s == Append(ss, d)
             mt == Append(ms, NONE)
             b == Replayed(Last(s), c, m)
  <2>1. new = <<NONE, m>> /\ ms \o <<NONE, m>> = Append(mt, m)
    BY <1>1, <1>4
  <2>2. d \in Board /\ s \in Seq(Board) /\ Last(s) = d
    <3>1. d \in Board
      BY <1>1, PassGivesBoard
    <3> HIDE DEF d
    <3> QED
      BY <1>2, <3>1 DEF Last
  <2>3. ColourAt(hs, n + 1) = c
    <3>1. ColourAt(hs, n + 1) = Opponent(ColourAt(hs, n)) /\ ColourAt(hs, n) \in Player
      BY <1>1, ColoursAlternate, ColourAtIsPlayer
    <3> QED
      BY <1>4, <3>1, Colours DEF Player, Opponent
  <2>4. Replay(hs, ss, <<NONE, m>>) = Append(s, b)
    <3>1. Replay(hs, ss, <<NONE, m>>) = Append(s, Replayed(Last(s), ColourAt(hs, Len(ss)), m))
      BY <1>1, ReplayOfTwo
    <3> QED
      BY <1>1, <2>3, <3>1
  <2>5. m \in Point => /\ b = just_play_slow2(d, c, m) /\ b.p = q
                       /\ can_play_slow(d, c, m)
    <3>1. m \in Point => b = just_play_slow2(d, c, m)
      BY <2>2 DEF Replayed
    <3>2. m \in Point => just_play_slow2(d, c, m).p = q /\ can_play_slow(d, c, m)
      BY <1>1, PlayAfterPass
    <3> QED
      BY <3>1, <3>2
  <2>6. b \in Board
    BY <1>1, <2>2, ReplayedIsBoard
  <2>7. IsRecord(hs, mt, s)
    <3>1. d = Replayed(l, ColourAt(hs, n), NONE) /\ NONE \notin Point
      BY BoardAssumption DEF Replayed
    <3> QED
      BY <1>1, <3>1, ExtendedRecord
  <2>8. m \in Point => NewBoard(hs, mt, s, b.p)
    <3>1. m \in Point => NewBoard(hs, mt, s, q)
      BY NewBoardAfterSkip
    <3> QED
      BY <2>5, <3>1
  <2>9. IsRecord(hs, Append(mt, m), Append(s, b))
    <3>1. Len(mt) = n + 1
      BY <1>1
    <3>2. b = Replayed(Last(s), ColourAt(hs, Len(mt)), m)
      BY <2>3, <3>1
    <3>3. m \in Point => can_play_slow(Last(s), ColourAt(hs, Len(mt)), m)
      BY <2>2, <2>3, <2>5, <3>1
    <3> HIDE DEF s, mt, b
    <3> QED
      BY <1>1, <2>7, <2>8, <3>2, <3>3, ExtendedRecord
  <2>10. Last(Append(s, b)) = b
    <3> HIDE DEF b, s
    <3> QED
      BY <2>2, <2>6 DEF Last
  <2> QED
    BY <2>1, <2>4, <2>5, <2>9, <2>10
<1> QED
  BY <1>3, <1>4

-----------------------------------------------------------------------------
(***************************************************************************)
(* What the tests of a play say of the record.                             *)
(***************************************************************************)
LEMMA StateIsLast ==
  ASSUME RecordInv, current_game_bak_set
  PROVE  /\ State = Last(states) /\ State \in Board
         /\ IsRecord(handicap_stones, moves, states)
         /\ current_player_color = ColourAt(handicap_stones, Len(moves))
BY DEF RecordInv, TypeOK, CacheIsCurrent, State, current_player_color

LEMMA NoSuperkoIsNewBoard ==
  ASSUME RecordInv, current_game_bak_set, NEW c, NEW m, ~test_superko(c, m)
  PROVE  NewBoard(handicap_stones, moves, states, just_play_slow2(Last(states), c, m).p)
<1> SUFFICES ASSUME NEW i \in 1..Len(moves), moves[i] \in Point,
                    NEW k \in 1..i, moves[k] \in Point,
                    captured(states[k], ColourAt(handicap_stones, k - 1), moves[k]) > 0,
                    states[i + 1].p = just_play_slow2(Last(states), c, m).p
             PROVE  FALSE
  BY DEF NewBoard
<1>1. states[i + 1].p = just_play_slow2(State, c, m).p
  BY StateIsLast
<1>2. test_superko(c, m)
  BY <1>1 DEF test_superko
<1> QED
  BY <1>2

LEMMA LegalPlayOfRecord ==
  ASSUME RecordInv, current_game_bak_set, NEW c \in Player, NEW m \in Point \cup {PASS},
         play_is_legal(c, m)
  PROVE  /\ IsRecord(handicap_stones, moves \o InOrder(c, m),
                     Replay(handicap_stones, states, InOrder(c, m)))
         /\ m \in Point => Last(Replay(handicap_stones, states, InOrder(c, m))).p[m] = c
<1> DEFINE new == InOrder(c, m)
           q == just_play_slow2(Last(states), c, m).p
<1>1. /\ IsRecord(handicap_stones, moves, states) /\ State = Last(states) /\ State \in Board
      /\ new = IF ColourAt(handicap_stones, Len(moves)) = c THEN <<m>> ELSE <<NONE, m>>
  BY StateIsLast DEF InOrder
<1>2. m \in Point => can_play_slow(Last(states), c, m) /\ ~test_superko(c, m)
  BY <1>1, BoardAssumption DEF play_is_legal
<1>3. m \in Point => NewBoard(handicap_stones, moves, states, q)
  BY <1>2, NoSuperkoIsNewBoard
<1>4. m \in Point => q[m] = c
  BY <1>1, StonesAfterPlay
<1> HIDE DEF new
<1>5. /\ IsRecord(handicap_stones, moves \o new, Replay(handicap_stones, states, new))
      /\ m \in Point => Last(Replay(handicap_stones, states, new)).p = q
  BY <1>1, <1>2, <1>3, PlayOfRecord
<1> QED
  BY <1>4, <1>5 DEF new

\* The ko of the state is against the player whose turn it is, no other.
LEMMA KoIsOfCurrentPlayer ==
  ASSUME NEW hs, NEW ms, NEW ss, IsRecord(hs, ms, ss), NEW c \in Player, NEW m \in Point,
         test_ko(Last(ss), c, m)
  PROVE  c = ColourAt(hs, Len(ms))
<1> DEFINE n == Len(ms)
           b == Last(ss)
<1>1. /\ n \in Nat /\ Len(ss) = n + 1 /\ b = ss[n + 1] /\ b \in Board
  BY LastOfRecord
<1>2. b.last_eaten = m
  BY DEF test_ko
<1>3. n + 1 \in 1..Len(ss) /\ n + 1 - 1 = n /\ n + 1 - 2 = n - 1
  BY <1>1
<1>4. /\ n \in 1..n /\ ms[n] \in Point /\ b.last_played = ms[n] /\ m \in Adjacent[ms[n]]
      /\ b.p[ms[n]] = ColourAt(hs, n - 1)
  BY <1>1, <1>2, <1>3, KoOfRecord
<1>5. c = Opponent(ColourAt(hs, n - 1))
  BY <1>1, <1>4, ColourAtIsPlayer, KoIsOfOpponent
<1>6. n - 1 \in Nat /\ n - 1 + 1 = n
  BY <1>1, <1>4
<1> QED
  BY <1>5, <1>6, ColoursAlternate

LEMMA SelectedFromInv ==
  ASSUME RecordInv
  PROVE  SelectedIsLegal
<1> SUFFICES ASSUME current_game_bak_set, NEW c \in Player, NEW m \in SelectedPlay(c), m # PASS
             PROVE  play_is_legal(c, m)
  BY DEF SelectedIsLegal, play_is_legal
<1>1. m \in Point /\ can_play_slow(StateToPlay(c), c, m) /\ ~test_superko(c, m)
  BY DEF SelectedPlay
<1>2. /\ State = Last(states) /\ State \in Board
      /\ IsRecord(handicap_stones, moves, states)
      /\ current_player_color = ColourAt(handicap_stones, Len(moves))
  BY StateIsLast
<1>3. StateToPlay(c).p = State.p
  BY <1>2 DEF StateToPlay, Board
<1>4. Placed(StateToPlay(c), c, m) = Placed(State, c, m)
  BY <1>3 DEF Placed
<1>5. CASE StateToPlay(c) = State
  BY <1>1, <1>5 DEF play_is_legal
<1>6. CASE StateToPlay(c) # State
  <2>1. c # current_player_color
    BY <1>6 DEF StateToPlay
  <2>2. ~test_ko(State, c, m)
    BY <1>1, <1>2, <2>1, KoIsOfCurrentPlayer
  <2>3. can_play_slow(State, c, m)
    BY <1>1, <1>3, <1>4, <2>2 DEF can_play_slow, captured
  <2> QED
    BY <1>1, <2>3 DEF play_is_legal
<1> QED
  BY <1>5, <1>6

\* The last state of a record is a board of a match for the player whose turn it is, and so
\* is the same with the ko cleared for the other.
LEMMA StateOfMatch ==
  ASSUME NEW hs, NEW ms, NEW ss, IsRecord(hs, ms, ss)
  PROVE  /\ OfMatch(Last(ss), ColourAt(hs, Len(ms)))
         /\ ms = <<>> => Last(ss).last_eaten = NONE
<1> DEFINE n == Len(ms)
           b == Last(ss)
           c == ColourAt(hs, n)
<1>1. /\ n \in Nat /\ ms \in Seq(Entry) /\ Len(ss) = n + 1 /\ b = ss[n + 1] /\ b \in Board
  BY LastOfRecord
<1>2. NONE \notin Point /\ PASS \notin Point
  BY BoardAssumption
<1>3. AllAlive(b.p)
  BY <1>1, StatesAreAlive
<1>4. ms = <<>> => b.last_eaten = NONE /\ LastStands(b)
  <2>1. ms = <<>> => n = 0
    OBVIOUS
  <2> QED
    BY <1>1, <2>1, FirstState DEF IsRecord, IsReplay
<1>5. CASE n = 0
  <2>1. ms = <<>>
    BY <1>1, <1>5
  <2> HIDE DEF b
  <2> QED
    BY <1>1, <1>2, <1>3, <1>4, <2>1 DEF OfMatch, KoAgainst, AllAlive, b
<1>6. CASE n # 0
  <2> DEFINE e == ColourAt(hs, n - 1)
  <2>1. n \in 1..n /\ n - 1 \in Nat /\ (n - 1) + 1 = n
    BY <1>1, <1>6
  <2>2. /\ ss[n] \in Board /\ e \in Player
        /\ ms[n] \in Point => b = just_play_slow2(ss[n], e, ms[n])
        /\ ms[n] \notin Point => b = pass(ss[n])
    BY <1>1, <2>1, EntryOfRecord
  <2>3. c = Opponent(e)
    BY <2>1, ColoursAlternate
  <2> HIDE DEF b, c, e
  <2>4. ASSUME ms[n] \in Point PROVE LastStands(b) /\ KoAgainst(b, c)
    BY <2>2, <2>3, <2>4, KoLeftByPlay
  <2>5. ASSUME ms[n] \notin Point PROVE LastStands(b) /\ KoAgainst(b, c)
    <3>1. b.last_played = PASS /\ b.last_eaten = NONE
      BY <2>2, <2>5 DEF pass, Board
    <3> QED
      BY <1>2, <3>1 DEF LastStands, KoAgainst
  <2>6. LastStands(b) /\ KoAgainst(b, c)
    BY <2>4, <2>5
  <2>7. n # 0 => ms # <<>>
    OBVIOUS
  <2> QED
    BY <1>1, <1>3, <1>4, <1>6, <2>6, <2>7 DEF OfMatch, AllAlive, b, c
<1> QED
  BY <1>5, <1>6

LEMMA SearchedFromInv ==
  ASSUME RecordInv
  PROVE  SearchedIsOfMatch
<1> SUFFICES ASSUME current_game_bak_set, NEW c \in Player PROVE OfMatch(StateToPlay(c), c)
  BY DEF SearchedIsOfMatch
<1>1. /\ State = Last(states) /\ State \in Board
      /\ IsRecord(handicap_stones, moves, states)
      /\ current_player_color = ColourAt(handicap_stones, Len(moves))
  BY StateIsLast
<1>2. /\ OfMatch(State, current_player_color)
      /\ moves = <<>> => State.last_eaten = NONE
  BY <1>1, StateOfMatch
<1>3. NONE \notin Point
  BY BoardAssumption
<1>4. CASE StateToPlay(c) = State /\ c = current_player_color
  BY <1>2, <1>4
<1>5. CASE StateToPlay(c) = State /\ moves = <<>>
  BY <1>2, <1>3, <1>5 DEF OfMatch, KoAgainst
<1>6. CASE StateToPlay(c) = [State EXCEPT !.last_played = NONE, !.last_eaten = NONE]
  <2>1. /\ StateToPlay(c).p = State.p /\ StateToPlay(c) \in Board
        /\ StateToPlay(c).last_played = NONE /\ StateToPlay(c).last_eaten = NONE
    BY <1>1, <1>6 DEF Board
  <2> HIDE DEF StateToPlay
  <2> QED
    BY <1>2, <1>3, <2>1 DEF OfMatch, LastStands, KoAgainst
<1> QED
  BY <1>4, <1>5, <1>6 DEF StateToPlay

-----------------------------------------------------------------------------
(***************************************************************************)
(* The steps.                                                              *)
(***************************************************************************)
\* What TypeOK says of the rest of the state.
RestOK ==
  /\ current_game_bak \in Board /\ current_game_bak_set \in BOOLEAN
  /\ finished \in BOOLEAN /\ resignation \in BOOLEAN /\ resigned \in BOOLEAN
  /\ exited \in {"no", "length", "handicap"}
  /\ commands \in 0..MaxCommands

LEMMA InvNext ==
  ASSUME IsRecord(handicap_stones', moves', states'), Len(moves') < MaxGameLength,
         RestOK', CacheIsCurrent'
  PROVE  RecordInv'
BY DEF RecordInv, TypeOK, RestOK, IsRecord, IsReplay, Entry

LEMMA InvNow ==
  ASSUME RecordInv
  PROVE  /\ IsRecord(handicap_stones, moves, states) /\ Len(moves) < MaxGameLength
         /\ RestOK /\ CacheIsCurrent
BY DEF RecordInv, TypeOK, RestOK

\* A command finds the state cached, and is counted.
LEMMA CommandCounts ==
  ASSUME RestOK, Command
  PROVE  current_game_bak_set /\ exited = "no" /\ commands' \in 0..MaxCommands
BY RecordAssumption DEF RestOK, Command

LEMMA AddedPlayKeeps ==
  ASSUME RecordInv, Command, NEW c \in Player, NEW m \in Point \cup {PASS},
         play_is_legal(c, m), add_play_out_of_order(c, m)
  PROVE  RecordInv'
<1> DEFINE new == InOrder(c, m)
<1>1. /\ IsRecord(handicap_stones, moves, states) /\ Len(moves) < MaxGameLength
      /\ RestOK /\ CacheIsCurrent /\ current_game_bak_set /\ commands' \in 0..MaxCommands
  BY InvNow, CommandCounts
<1>2. CASE /\ Len(moves) + Len(new) < MaxGameLength
           /\ moves' = moves \o new
           /\ states' = Replay(handicap_stones, states, new)
           /\ finished' = FALSE
           /\ resigned' = FALSE
           /\ DropCache
           /\ UNCHANGED <<handicap_stones, resignation, exited>>
  <2>1. IsRecord(handicap_stones', moves', states')
    BY <1>1, <1>2, LegalPlayOfRecord
  <2>2. Len(moves') < MaxGameLength
    <3>1. moves \in Seq(Entry)
      BY <1>1 DEF IsRecord
    <3>2. new = <<m>> \/ new = <<NONE, m>>
      BY DEF InOrder
    <3>3. new \in Seq(Entry)
      BY <3>2 DEF Entry
    <3>4. Len(moves \o new) = Len(moves) + Len(new)
      BY <3>1, <3>3
    <3> QED
      BY <1>2, <3>4
  <2>3. RestOK' /\ CacheIsCurrent'
    BY <1>1, <1>2 DEF RestOK, CacheIsCurrent, DropCache
  <2> QED
    BY <2>1, <2>2, <2>3, InvNext
<1>3. CASE exited' = "length" /\ UNCHANGED <<recordVars, resultVars, cacheVars>>
  <2>1. IsRecord(handicap_stones', moves', states') /\ Len(moves') < MaxGameLength
    BY <1>1, <1>3 DEF recordVars
  <2>2. RestOK' /\ CacheIsCurrent'
    BY <1>1, <1>3 DEF RestOK, CacheIsCurrent, recordVars, resultVars, cacheVars
  <2> QED
    BY <2>1, <2>2, InvNext
<1> QED
  BY <1>2, <1>3 DEF add_play_out_of_order

LEMMA CachingKeeps ==
  ASSUME RecordInv, current_game_state
  PROVE  RecordInv'
<1>1. /\ IsRecord(handicap_stones, moves, states) /\ Len(moves) < MaxGameLength /\ RestOK
  BY InvNow
<1>2. Last(states) \in Board
  BY <1>1, LastOfRecord
<1>3. IsRecord(handicap_stones', moves', states') /\ Len(moves') < MaxGameLength
  BY <1>1 DEF current_game_state, recordVars
<1>4. RestOK' /\ CacheIsCurrent'
  BY <1>1, <1>2 DEF RestOK, CacheIsCurrent, current_game_state, recordVars, resultVars
<1> QED
  BY <1>3, <1>4, InvNext

LEMMA PlayKeeps ==
  ASSUME RecordInv, NEW c \in Player, NEW m \in Point \cup {PASS}, gtp_play(c, m)
  PROVE  RecordInv'
BY AddedPlayKeeps DEF gtp_play

\* The engine's play is one that the command play accepts.
LEMMA GenmoveIsPlay ==
  ASSUME RecordInv, NEW c \in Player, NEW m, gtp_genmove(c, m)
  PROVE  Command /\ current_game_bak_set /\ play_is_legal(c, m) /\ add_play_out_of_order(c, m)
<1>1. Command /\ current_game_bak_set /\ m \in SelectedPlay(c) /\ add_play_out_of_order(c, m)
  BY DEF gtp_genmove, Command
<1>2. play_is_legal(c, m)
  BY <1>1, SelectedFromInv DEF SelectedIsLegal
<1> QED
  BY <1>1, <1>2

LEMMA GenmoveKeeps ==
  ASSUME RecordInv, NEW c \in Player, NEW m \in Point \cup {PASS}, gtp_genmove(c, m)
  PROVE  RecordInv'
BY GenmoveIsPlay, AddedPlayKeeps

\* The commands that leave the record and its cache alone.
LEMMA ResultKeeps ==
  ASSUME RecordInv, Resign \/ gtp_final_score
  PROVE  RecordInv'
<1>1. /\ IsRecord(handicap_stones, moves, states) /\ Len(moves) < MaxGameLength
      /\ RestOK /\ CacheIsCurrent /\ Command
  BY InvNow DEF Resign, gtp_final_score
<1>2. IsRecord(handicap_stones', moves', states') /\ Len(moves') < MaxGameLength
  BY <1>1 DEF Resign, gtp_final_score, recordVars
<1>3. CacheIsCurrent'
  BY <1>1 DEF CacheIsCurrent, Resign, gtp_final_score, KeepCache, cacheVars, recordVars
<1>4. commands' \in 0..MaxCommands
  BY <1>1, CommandCounts
<1>5. RestOK'
  BY <1>1, <1>4 DEF RestOK, Resign, gtp_final_score, KeepCache, cacheVars
<1> QED
  BY <1>2, <1>3, <1>5, InvNext

LEMMA FailedLoadKeeps ==
  ASSUME RecordInv, LoadFails
  PROVE  RecordInv'
<1>1. /\ IsRecord(handicap_stones, moves, states) /\ Len(moves) < MaxGameLength
      /\ RestOK /\ Command
  BY InvNow DEF LoadFails
<1>2. IsRecord(handicap_stones', moves', states') /\ Len(moves') < MaxGameLength
  BY <1>1 DEF LoadFails, recordVars
<1>3. commands' \in 0..MaxCommands
  BY <1>1, CommandCounts
<1>4. RestOK' /\ CacheIsCurrent'
  BY <1>1, <1>3 DEF RestOK, CacheIsCurrent, LoadFails, DropCache, resultVars
<1> QED
  BY <1>2, <1>4, InvNext

LEMMA UndoKeeps ==
  ASSUME RecordInv, NEW n \in Undos, gtp_undo(n)
  PROVE  RecordInv'
<1>1. /\ IsRecord(handicap_stones, moves, states) /\ Len(moves) < MaxGameLength
      /\ RestOK /\ Command /\ n <= Len(moves) /\ n \in Nat
  BY InvNow, RecordAssumption DEF gtp_undo
<1> DEFINE t == Len(moves) - n
<1>2. /\ moves \in Seq(Entry) /\ Len(moves) \in Nat /\ Len(states) - n = t + 1
      /\ t \in 0..Len(moves)
  <2>1. /\ moves \in Seq(Entry) /\ Len(moves) \in Nat /\ Len(states) = Len(moves) + 1
    BY <1>1, LastOfRecord
  <2> QED
    BY <1>1, <2>1
<1>3. moves' = SubSeq(moves, 1, t) /\ states' = SubSeq(states, 1, t + 1)
  BY <1>2 DEF gtp_undo, TakeBack
<1>4. IsRecord(handicap_stones', moves', states')
  <2>1. IsRecord(handicap_stones, SubSeq(moves, 1, t), SubSeq(states, 1, t + 1))
    BY <1>1, <1>2, PrefixIsRecord
  <2> QED
    BY <1>3, <2>1 DEF gtp_undo, TakeBack
<1>5. Len(moves') < MaxGameLength
  <2>1. Len(moves') = t
    BY <1>2, <1>3
  <2> QED
    BY <1>1, <1>2, <2>1, RecordAssumption
<1>6. commands' \in 0..MaxCommands
  BY <1>1, CommandCounts
<1>7. RestOK' /\ CacheIsCurrent'
  BY <1>1, <1>6 DEF RestOK, CacheIsCurrent, gtp_undo, TakeBack, DropCache
<1> QED
  BY <1>4, <1>5, <1>7, InvNext

\* A record cleared or loaded, that could have been played.
LEMMA NewRecordKeeps ==
  ASSUME RecordInv, Command, NEW hs, NEW ms, NEW result, clear_game_record(hs, ms, result),
         IsRecord(hs, ms, Replay(hs, <<first_game_state(hs)>>, ms)), Len(ms) < MaxGameLength
  PROVE  RecordInv'
<1>1. RestOK /\ commands' \in 0..MaxCommands
  BY InvNow, CommandCounts
<1>2. IsRecord(handicap_stones', moves', states') /\ Len(moves') < MaxGameLength
  BY DEF clear_game_record
<1>3. RestOK' /\ CacheIsCurrent'
  BY <1>1 DEF RestOK, CacheIsCurrent, clear_game_record, DropCache
<1> QED
  BY <1>2, <1>3, InvNext

LEMMA NoHandicap == <<>> \in HandicapStones
<1>1. Cardinality(Point) # 0 /\ Cardinality(Point) \in Nat
  BY BoardAssumption, PointsAreFinite, FS_EmptySet
<1> QED
  BY <1>1 DEF HandicapStones, IsInjective

LEMMA ClearKeeps ==
  ASSUME RecordInv, gtp_clear_board
  PROVE  RecordInv'
<1>1. Command /\ clear_game_record(<<>>, <<>>, "Void")
  BY DEF gtp_clear_board
<1>2. IsReplay(<<>>, <<>>, Replay(<<>>, <<first_game_state(<<>>)>>, <<>>))
  BY NoHandicap, EmptySequences, ReplayIsReplay
<1>3. IsRecord(<<>>, <<>>, Replay(<<>>, <<first_game_state(<<>>)>>, <<>>))
  BY <1>2, NoHandicap DEF IsRecord, PlaysCanBePlayed, PlaysKeepSuperko
<1>4. Len(<<>>) < MaxGameLength
  BY RecordAssumption
<1> QED
  BY <1>1, <1>3, <1>4, NewRecordKeeps

LEMMA LoadKeeps ==
  ASSUME RecordInv, NEW g \in Games, NEW n \in MoveNumbers, gtp_loadsgf(g, n)
  PROVE  RecordInv'
<1> DEFINE ms == Imported(g.handicap, g.plays)
           t == IF n - 1 < Len(ms) THEN n - 1 ELSE Len(ms)
           mt == SubSeq(ms, 1, t)
<1>1. Command /\ clear_game_record(g.handicap, mt, g.result)
  BY DEF gtp_loadsgf
<1>2. ms \in Seq(Entry)
  BY GamesAssumption, ImportedIsEntries
<1>3. t \in 0..Len(ms)
  BY <1>2, RecordAssumption
<1>4. /\ IsRecord(g.handicap, mt, Replay(g.handicap, <<first_game_state(g.handicap)>>, mt))
      /\ Len(mt) < MaxGameLength
  <2> HIDE DEF t
  <2> QED
    BY <1>3, LoadedIsRecord
<1> HIDE DEF mt
<1> QED
  BY <1>1, <1>4, NewRecordKeeps

\* The handicap stones added before the first play.
LEMMA AddedStonesKeep ==
  ASSUME RecordInv, Command, moves = <<>>, NEW ms, NEW X, ms \in Seq(X), AddStones(ms),
         exited' \in {exited, "handicap"}
  PROVE  RecordInv'
<1> DEFINE hs == Added(handicap_stones, ms).hs
<1>1. /\ IsRecord(handicap_stones, moves, states) /\ Len(moves) < MaxGameLength
      /\ RestOK /\ CacheIsCurrent /\ commands' \in 0..MaxCommands
      /\ handicap_stones \in HandicapStones
  BY InvNow, CommandCounts DEF IsRecord
<1>2. hs \in HandicapStones
  BY <1>1, AddedAreHandicap
<1> HIDE DEF hs
<1>3. /\ handicap_stones' = hs /\ states' = <<first_game_state(hs)>> /\ moves' = <<>>
      /\ hs = handicap_stones => KeepCache
      /\ hs # handicap_stones => DropCache
      /\ UNCHANGED resultVars
  BY DEF AddStones, hs
<1>4. IsRecord(handicap_stones', moves', states')
  BY <1>2, <1>3, FirstRecord
<1>5. Len(moves') < MaxGameLength
  BY <1>1, <1>3
<1>6. RestOK'
  BY <1>1, <1>3 DEF RestOK, KeepCache, DropCache, cacheVars, resultVars
<1>7. CacheIsCurrent'
  <2>1. CASE hs = handicap_stones
    <3>1. Len(states) = 1 /\ states \in Seq(Board) /\ states[1] = first_game_state(hs)
      BY <1>1, <2>1 DEF IsRecord, IsReplay
    <3>2. states = <<first_game_state(hs)>>
      BY <3>1
    <3> QED
      BY <1>1, <1>3, <2>1, <3>2 DEF CacheIsCurrent, KeepCache, cacheVars
  <2>2. CASE hs # handicap_stones
    BY <1>3, <2>2 DEF CacheIsCurrent, DropCache
  <2> QED
    BY <2>1, <2>2
<1> QED
  BY <1>4, <1>5, <1>6, <1>7, InvNext

LEMMA FreeHandicapKeeps ==
  ASSUME RecordInv, NEW ms \in Vertices, gtp_set_free_handicap(ms)
  PROVE  RecordInv'
<1>1. ms \in Seq(Point \cup {PASS})
  BY RecordAssumption
<1> QED
  BY <1>1, AddedStonesKeep DEF gtp_set_free_handicap

LEMMA PlacedHandicapKeeps ==
  ASSUME RecordInv, NEW n \in Handicaps, gtp_place_free_handicap(n)
  PROVE  RecordInv'
<1>1. Command /\ n \in 2..(Cardinality(Point) - 2)
  BY DEF gtp_place_free_handicap
<1>2. PICK ms \in Suggested(n) :
        IF moves = <<>>
          THEN /\ AddStones(ms)
               /\ exited' = IF Added(handicap_stones, ms).ok THEN exited ELSE "handicap"
          ELSE /\ exited' = "handicap"
               /\ UNCHANGED <<recordVars, resultVars, cacheVars>>
  BY DEF gtp_place_free_handicap
<1>3. CASE moves = <<>>
  <2>1. n \in Nat
    BY <1>1, PointsAreFinite
  <2>2. ms \in Seq(Point)
    BY <1>2, <2>1 DEF Suggested
  <2> QED
    BY <1>1, <1>2, <1>3, <2>2, AddedStonesKeep
<1>4. CASE moves # <<>>
  <2>1. exited' = "handicap" /\ UNCHANGED <<recordVars, resultVars, cacheVars>>
    BY <1>2, <1>4
  <2>2. /\ IsRecord(handicap_stones, moves, states) /\ Len(moves) < MaxGameLength
        /\ RestOK /\ CacheIsCurrent /\ commands' \in 0..MaxCommands
    BY <1>1, InvNow, CommandCounts
  <2>3. IsRecord(handicap_stones', moves', states') /\ Len(moves') < MaxGameLength
    BY <2>1, <2>2 DEF recordVars
  <2>4. RestOK' /\ CacheIsCurrent'
    BY <2>1, <2>2 DEF RestOK, CacheIsCurrent, recordVars, resultVars, cacheVars
  <2> QED
    BY <2>3, <2>4, InvNext
<1> QED
  BY <1>3, <1>4

-----------------------------------------------------------------------------
(***************************************************************************)
(* The invariant.                                                          *)
(***************************************************************************)
LEMMA InitHolds ==
  ASSUME Init
  PROVE  RecordInv
<1>1. first_game_state(<<>>) = clear_board
  <2> DEFINE none == <<>>
  <2>1. none \in Seq(Point) /\ Len(none) = 0
    BY EmptySequences
  <2> HIDE DEF none
  <2>2. PICK a \in [0..Len(none) -> Board] :
          /\ a[0] = clear_board
          /\ \A k \in 1..Len(none) : a[k] = just_play_slow2(a[k - 1], "black", none[k])
          /\ first_game_state(none) = a[Len(none)]
    BY <2>1, HandicapFold
  <2> QED
    BY <2>1, <2>2 DEF none
<1>2. IsRecord(handicap_stones, moves, states)
  BY <1>1, NoHandicap, FirstRecord DEF Init
<1>3. Len(moves) < MaxGameLength /\ clear_board \in Board /\ 0 \in 0..MaxCommands
  BY RecordAssumption, ClearBoardIsBoard DEF Init
<1> QED
  BY <1>2, <1>3 DEF Init, RecordInv, TypeOK, CacheIsCurrent, IsRecord, IsReplay, Entry

LEMMA NextHolds ==
  ASSUME RecordInv, [Next]_vars
  PROVE  RecordInv'
<1>1. CASE current_game_state
  BY <1>1, CachingKeeps
<1>2. ASSUME NEW c \in Player, NEW m \in Point \cup {PASS}, gtp_play(c, m)
      PROVE  RecordInv'
  BY <1>2, PlayKeeps
<1>3. ASSUME NEW c \in Player, NEW m \in Point \cup {PASS}, gtp_genmove(c, m)
      PROVE  RecordInv'
  BY <1>3, GenmoveKeeps
<1>4. CASE Resign \/ gtp_final_score
  BY <1>4, ResultKeeps
<1>5. ASSUME NEW n \in Undos, gtp_undo(n)
      PROVE  RecordInv'
  BY <1>5, UndoKeeps
<1>6. CASE gtp_clear_board
  BY <1>6, ClearKeeps
<1>7. ASSUME NEW g \in Games, NEW n \in MoveNumbers, gtp_loadsgf(g, n)
      PROVE  RecordInv'
  BY <1>7, LoadKeeps
<1>8. CASE LoadFails
  BY <1>8, FailedLoadKeeps
<1>9. ASSUME NEW ms \in Vertices, gtp_set_free_handicap(ms)
      PROVE  RecordInv'
  BY <1>9, FreeHandicapKeeps
<1>10. ASSUME NEW n \in Handicaps, gtp_place_free_handicap(n)
       PROVE  RecordInv'
  BY <1>10, PlacedHandicapKeeps
<1>11. CASE UNCHANGED vars
  BY <1>11 DEF vars, recordVars, resultVars, cacheVars, RecordInv, TypeOK, CacheIsCurrent
<1> QED
  BY <1>1, <1>2, <1>3, <1>4, <1>5, <1>6, <1>7, <1>8, <1>9, <1>10, <1>11 DEF Next

\* The record is at every moment one that could have been played, with its replay,
\* and the cached state, if one is, is its last.
THEOREM RecordInvariance == Spec => []RecordInv
<1>1. Init => RecordInv
  BY InitHolds
<1>2. RecordInv /\ [Next]_vars => RecordInv'
  BY NextHolds
<1> QED
  BY <1>1, <1>2, PTL DEF Spec

\* The array of plays is never filled, and the handicap stones are points no two of
\* which are the same, that leave one empty.
THEOREM RecordTypeCorrect == Spec => []TypeOK
<1>1. RecordInv => TypeOK
  BY DEF RecordInv
<1> QED
  BY <1>1, RecordInvariance, PTL

\* current_game_state answers from its cache what a replay would give.
THEOREM CacheIsOfTheRecord == Spec => []CacheIsCurrent
<1>1. RecordInv => CacheIsCurrent
  BY DEF RecordInv
<1> QED
  BY <1>1, RecordInvariance, PTL

\* Whatever was played in and out of order, taken back or loaded, the boards of the
\* record are those of a game by the rules of go.
THEOREM RecordIsOfLegalPlays == Spec => []RecordIsLegal
<1>1. ASSUME RecordInv
      PROVE  RecordIsLegal
  <2>1. IsRecord(handicap_stones, moves, states)
    BY <1>1 DEF RecordInv
  <2>2. NoDeadStones
    <3>1. Last(states) = states[Len(states)] /\ Len(states) \in 1..Len(states)
      BY <2>1, LastOfRecord
    <3>2. AllAlive(Last(states).p)
      BY <2>1, <3>1, StatesAreAlive
    <3> QED
      BY <3>2 DEF NoDeadStones, AllAlive
  <2>3. NoImmediateRepeat
    BY <2>1, RecordHasNoImmediateRepeat DEF NoImmediateRepeat
  <2>4. NoRepeatSinceCapture
    BY <2>1 DEF NoRepeatSinceCapture, IsRecord
  <2> QED
    BY <2>2, <2>3, <2>4 DEF RecordIsLegal
<1>2. RecordInv => RecordIsLegal
  BY <1>1
<1> QED
  BY <1>2, RecordInvariance, PTL

\* The engine searches a board of a match for the player it is asked for, which is what
\* every simulation relies on, and answers no play that the command play refuses.
THEOREM EngineIsLegal == Spec => []GenmoveIsLegal
<1>1. RecordInv => GenmoveIsLegal
  BY SearchedFromInv, SelectedFromInv DEF GenmoveIsLegal
<1> QED
  BY <1>1, RecordInvariance, PTL

\* A play puts a stone of the player it is for, in or out of order.
THEOREM ColourIsKept == Spec => PlaysKeepColour
<1> DEFINE Kept == \A c \in Player, m \in Point :
       (/\ Len(moves') > Len(moves) /\ Last(moves') = m
        /\ gtp_play(c, m) \/ gtp_genmove(c, m)) => Last(states').p[m] = c
<1>1. ASSUME RecordInv
      PROVE  Kept
  <2> SUFFICES ASSUME NEW c \in Player, NEW m \in Point, Len(moves') > Len(moves),
                      gtp_play(c, m) \/ gtp_genmove(c, m)
               PROVE  Last(states').p[m] = c
    OBVIOUS
  <2>1. /\ current_game_bak_set /\ play_is_legal(c, m) /\ add_play_out_of_order(c, m)
    BY <1>1, GenmoveIsPlay DEF gtp_play, Command
  <2>2. moves \in Seq(Entry) /\ Len(moves) \in Nat
    BY <1>1 DEF RecordInv, IsRecord
  <2>3. states' = Replay(handicap_stones, states, InOrder(c, m))
    <3>1. moves' # moves
      BY <2>2
    <3> QED
      BY <2>1, <3>1 DEF add_play_out_of_order, recordVars
  <2> QED
    BY <1>1, <2>1, <2>3, LegalPlayOfRecord
<1>2. RecordInv => [Kept]_vars
  BY <1>1
<1> HIDE DEF Kept
<1>3. [][Kept]_vars => PlaysKeepColour
  BY DEF Kept, PlaysKeepColour
<1> QED
  BY <1>2, <1>3, RecordInvariance, PTL
=============================================================================
