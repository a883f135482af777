---------------------------- MODULE CfgBoardProofs ----------------------------
(***************************************************************************)
(* Lemmas about the fast board of CfgBoard, for any size of the board: its *)
(* counts and groups stay those of its stones through plays, captures,     *)
(* passes and copies; its plays are those of the slow board; what it says  *)
(* of a play before it is made is what the play leaves; and what a play    *)
(* changes is within the points it tells of.                               *)
(***************************************************************************)
EXTENDS CfgBoard, FoldLemmas, FiniteSetTheorems

Stones == Player \cup {EMPTY}

GroupType ==
  [colour : Player, liberties : Int, ls : SUBSET Point, liberties_min_coord : Nat,
   stones : SUBSET Point, neighbors : SUBSET Point, unique_groups_idx : Nat]

GroupMaps == UNION {[D -> GroupType] : D \in SUBSET Point}

PatternMaps == UNION {[D -> Int] : D \in SUBSET Point}

FastBoard ==
  [p : [Point -> Stones], last_played : Point \cup {NONE, PASS}, last_eaten : Point \cup {NONE},
   hash : [Point -> PatternMaps], empty : SUBSET Point,
   neighbors4 : [Player -> [Point -> Int]], neighbors8 : [Player -> [Point -> Int]],
   unique_groups : Seq(Point), g : [Point -> Point \cup {NONE}], group : GroupMaps]

\* b has the fields of a fast board.
IsFast(b) ==
  b = [p |-> b.p, last_played |-> b.last_played, last_eaten |-> b.last_eaten,
       hash |-> b.hash, empty |-> b.empty, neighbors4 |-> b.neighbors4,
       neighbors8 |-> b.neighbors8, unique_groups |-> b.unique_groups, g |-> b.g,
       group |-> b.group]

GroupsTyped(gr) == DOMAIN gr \subseteq Point /\ gr \in [DOMAIN gr -> GroupType]

\* The groups are listed once each, at the index they keep.
Indexed(gr, ug) ==
  /\ ug \in Seq(Point)
  /\ \A h \in DOMAIN gr : /\ gr[h].unique_groups_idx \in 1..Len(ug)
                          /\ ug[gr[h].unique_groups_idx] = h
  /\ \A i \in 1..Len(ug) : ug[i] \in DOMAIN gr /\ gr[ug[i]].unique_groups_idx = i

\* Each stone of the board q is of a group of its colour, named by one of its stones.
Owned(q, g, gr) ==
  /\ q \in [Point -> Stones] /\ g \in [Point -> Point \cup {NONE}]
  /\ \A m \in Point : g[m] = NONE <=> q[m] = EMPTY
  /\ \A m \in Point : g[m] # NONE => g[m] \in DOMAIN gr /\ gr[g[m]].colour = q[m]
  /\ \A h \in DOMAIN gr : g[h] = h /\ gr[h].stones = {m \in Point : g[m] = h}

\* b keeps the groups of the board q.
Grouped(b, q) ==
  /\ IsFast(b)
  /\ GroupsTyped(b.group) /\ Indexed(b.group, b.unique_groups) /\ Owned(q, b.g, b.group)

\* d differs from b in its groups at most.
Regrouped(d, b) ==
  /\ d.p = b.p /\ d.last_played = b.last_played /\ d.last_eaten = b.last_eaten
  /\ d.hash = b.hash /\ d.empty = b.empty
  /\ d.neighbors4 = b.neighbors4 /\ d.neighbors8 = b.neighbors8

\* Two groups that differ in their index at most.
SameGroup(u, v) ==
  /\ u.colour = v.colour /\ u.stones = v.stones /\ u.ls = v.ls /\ u.liberties = v.liberties
  /\ u.liberties_min_coord = v.liberties_min_coord /\ u.neighbors = v.neighbors

-----------------------------------------------------------------------------
LEMMA Marks ==
  /\ EMPTY \notin Player /\ NONE \notin Point /\ PASS \notin Point
  /\ \A c \in Player : Opponent(c) \in Player /\ Opponent(c) # c
  /\ \A c \in Player : \A e \in Player \ {c} : e = Opponent(c)
BY MarkAssumption DEF Player, Opponent

(* The points around a point. *)

\* Column and row of a point.
LEMMA Quotients ==
  ASSUME NEW m \in Nat
  PROVE  /\ X(m) \in 0..(BOARD_SIZ - 1) /\ Y(m) \in Nat /\ m = BOARD_SIZ * Y(m) + X(m)
         /\ \A x \in 0..(BOARD_SIZ - 1), y \in Nat : m = BOARD_SIZ * y + x => X(m) = x /\ Y(m) = y
BY SizeAssumption DEF X, Y

LEMMA PointsAreFinite ==
  /\ TOTAL_BOARD_SIZ \in Nat /\ \A m : m \in Point <=> m \in Nat /\ m < BOARD_SIZ * BOARD_SIZ
  /\ \A S \in SUBSET Point : IsFiniteSet(S) /\ Cardinality(S) \in Nat
<1>1. TOTAL_BOARD_SIZ \in Nat
  BY SizeAssumption DEF TOTAL_BOARD_SIZ
<1>2. IsFiniteSet(Point)
  BY <1>1, FS_Interval DEF Point
<1>3. \A m : m \in Point <=> m \in Nat /\ m < BOARD_SIZ * BOARD_SIZ
  BY <1>1 DEF Point, TOTAL_BOARD_SIZ
<1> QED
  BY <1>1, <1>2, <1>3, FS_Subset, FS_CardinalityType

\* n is the point at the left, right, top or bottom of m.
IsSide(m, n) ==
  \/ X(m) > 0 /\ n = m - 1
  \/ X(m) < BOARD_SIZ - 1 /\ n = m + 1
  \/ Y(m) > 0 /\ n = m - BOARD_SIZ
  \/ Y(m) < BOARD_SIZ - 1 /\ n = m + BOARD_SIZ

LEMMA RowsOfPoints ==
  ASSUME NEW m \in Nat
  PROVE  m \in Point <=> Y(m) < BOARD_SIZ
<1>1. /\ X(m) \in 0..(BOARD_SIZ - 1) /\ Y(m) \in Nat /\ m = BOARD_SIZ * Y(m) + X(m)
      /\ BOARD_SIZ \in Nat \ {0, 1}
  BY Quotients, SizeAssumption
<1>2. ASSUME Y(m) < BOARD_SIZ PROVE BOARD_SIZ * Y(m) <= BOARD_SIZ * (BOARD_SIZ - 1)
  BY <1>1, <1>2
<1>3. ASSUME ~(Y(m) < BOARD_SIZ) PROVE BOARD_SIZ * Y(m) >= BOARD_SIZ * BOARD_SIZ
  BY <1>1, <1>3
<1>4. BOARD_SIZ * (BOARD_SIZ - 1) = BOARD_SIZ * BOARD_SIZ - BOARD_SIZ
  BY <1>1
<1>5. CASE Y(m) < BOARD_SIZ
  BY <1>1, <1>2, <1>4, <1>5, PointsAreFinite
<1>6. CASE ~(Y(m) < BOARD_SIZ)
  BY <1>1, <1>3, <1>6, PointsAreFinite
<1> QED
  BY <1>5, <1>6

LEMMA SidesAreMutual ==
  ASSUME NEW m \in Point, NEW n, IsSide(m, n)
  PROVE  n \in Point /\ n # m /\ IsSide(n, m)
<1>1. /\ m \in Nat /\ X(m) \in 0..(BOARD_SIZ - 1) /\ Y(m) \in Nat /\ m = BOARD_SIZ * Y(m) + X(m)
      /\ BOARD_SIZ \in Nat \ {0, 1} /\ Y(m) < BOARD_SIZ
  BY Quotients, SizeAssumption, PointsAreFinite, RowsOfPoints
<1>2. ASSUME NEW x \in 0..(BOARD_SIZ - 1), NEW y \in 0..(BOARD_SIZ - 1), n = BOARD_SIZ * y + x
      PROVE  n \in Point /\ X(n) = x /\ Y(n) = y
  <2>1. n \in Nat
    BY <1>1, <1>2
  <2>2. X(n) = x /\ Y(n) = y
    BY <1>2, <2>1, Quotients
  <2> QED
    BY <1>1, <2>1, <2>2, RowsOfPoints
<1>3. CASE X(m) > 0 /\ n = m - 1
  <2>1. X(m) - 1 \in 0..(BOARD_SIZ - 1) /\ n = BOARD_SIZ * Y(m) + (X(m) - 1) /\ Y(m) \in 0..(BOARD_SIZ - 1)
    BY <1>1, <1>3
  <2>2. n \in Point /\ X(n) = X(m) - 1
    BY <1>2, <2>1
  <2> QED
    BY <1>1, <1>3, <2>2 DEF IsSide
<1>4. CASE X(m) < BOARD_SIZ - 1 /\ n = m + 1
  <2>1. X(m) + 1 \in 0..(BOARD_SIZ - 1) /\ n = BOARD_SIZ * Y(m) + (X(m) + 1) /\ Y(m) \in 0..(BOARD_SIZ - 1)
    BY <1>1, <1>4
  <2>2. n \in Point /\ X(n) = X(m) + 1
    BY <1>2, <2>1
  <2> QED
    BY <1>1, <1>4, <2>2 DEF IsSide
<1>5. CASE Y(m) > 0 /\ n = m - BOARD_SIZ
  <2>1. Y(m) - 1 \in 0..(BOARD_SIZ - 1) /\ n = BOARD_SIZ * (Y(m) - 1) + X(m)
    BY <1>1, <1>5
  <2>2. n \in Point /\ Y(n) = Y(m) - 1
    BY <1>1, <1>2, <2>1
  <2> QED
    BY <1>1, <1>5, <2>2 DEF IsSide
<1>6. CASE Y(m) < BOARD_SIZ - 1 /\ n = m + BOARD_SIZ
  <2>1. Y(m) + 1 \in 0..(BOARD_SIZ - 1) /\ n = BOARD_SIZ * (Y(m) + 1) + X(m)
    BY <1>1, <1>6
  <2>2. n \in Point /\ Y(n) = Y(m) + 1
    BY <1>1, <1>2, <2>1
  <2> QED
    BY <1>1, <1>6, <2>2 DEF IsSide
<1> QED
  BY <1>3, <1>4, <1>5, <1>6 DEF IsSide

LEMMA SetOfJoined ==
  ASSUME NEW T, NEW s \in Seq(T), NEW t \in Seq(T)
  PROVE  s \o t \in Seq(T) /\ ToSet(s \o t) = ToSet(s) \cup ToSet(t)
<1>1. ASSUME NEW i \in 1..Len(s) PROVE i \in DOMAIN (s \o t) /\ (s \o t)[i] = s[i]
  OBVIOUS
<1>2. ASSUME NEW i \in 1..Len(t)
      PROVE  Len(s) + i \in DOMAIN (s \o t) /\ (s \o t)[Len(s) + i] = t[i]
  OBVIOUS
<1>3. ASSUME NEW i \in DOMAIN (s \o t)
      PROVE  (s \o t)[i] \in ToSet(s) \cup ToSet(t)
  <2>1. CASE i \in 1..Len(s)
    BY <1>1, <2>1 DEF ToSet
  <2>2. CASE ~(i \in 1..Len(s))
    <3>1. i - Len(s) \in 1..Len(t) /\ (s \o t)[i] = t[i - Len(s)]
      BY <2>2
    <3> QED
      BY <3>1 DEF ToSet
  <2> QED
    BY <2>1, <2>2
<1>4. ToSet(s \o t) \subseteq ToSet(s) \cup ToSet(t)
  BY <1>3 DEF ToSet
<1>5. ToSet(s) \subseteq ToSet(s \o t) /\ ToSet(t) \subseteq ToSet(s \o t)
  <2>1. DOMAIN s = 1..Len(s) /\ DOMAIN t = 1..Len(t)
    OBVIOUS
  <2> QED
    BY <1>1, <1>2, <2>1 DEF ToSet
<1>6. s \o t \in Seq(T)
  OBVIOUS
<1> QED
  BY <1>4, <1>5, <1>6

LEMMA SetOfPart ==
  ASSUME NEW T, NEW yes \in BOOLEAN, NEW x, yes => x \in T
  PROVE  LET s == IF yes THEN <<x>> ELSE <<>> IN
         s \in Seq(T) /\ \A n : n \in ToSet(s) <=> yes /\ n = x
BY DEF ToSet

LEMMA NeighborsOfPoint ==
  ASSUME NEW m \in Point
  PROVE  /\ Sides[m] \in Seq(Point) /\ ToSet(Sides[m]) = neighbors_side[m]
         /\ \A n : n \in neighbors_side[m] <=> IsSide(m, n)
<1> DEFINE left   == IF X(m) > 0             THEN <<m - 1>>         ELSE <<>>
           right  == IF X(m) < BOARD_SIZ - 1 THEN <<m + 1>>         ELSE <<>>
           top    == IF Y(m) > 0             THEN <<m - BOARD_SIZ>> ELSE <<>>
           bottom == IF Y(m) < BOARD_SIZ - 1 THEN <<m + BOARD_SIZ>> ELSE <<>>
<1>1. \A n : IsSide(m, n) => n \in Point
  BY SidesAreMutual
<1>2. left \in Seq(Point) /\ \A n : n \in ToSet(left) <=> X(m) > 0 /\ n = m - 1
  <2>1. X(m) > 0 => m - 1 \in Point
    BY <1>1 DEF IsSide
  <2> QED
    BY <2>1, SetOfPart, ZenonT(30)
<1>3. right \in Seq(Point) /\ \A n : n \in ToSet(right) <=> X(m) < BOARD_SIZ - 1 /\ n = m + 1
  <2>1. X(m) < BOARD_SIZ - 1 => m + 1 \in Point
    BY <1>1 DEF IsSide
  <2> QED
    BY <2>1, SetOfPart, ZenonT(30)
<1>4. top \in Seq(Point) /\ \A n : n \in ToSet(top) <=> Y(m) > 0 /\ n = m - BOARD_SIZ
  <2>1. Y(m) > 0 => m - BOARD_SIZ \in Point
    BY <1>1 DEF IsSide
  <2> QED
    BY <2>1, SetOfPart, ZenonT(30)
<1>5. bottom \in Seq(Point) /\ \A n : n \in ToSet(bottom) <=> Y(m) < BOARD_SIZ - 1 /\ n = m + BOARD_SIZ
  <2>1. Y(m) < BOARD_SIZ - 1 => m + BOARD_SIZ \in Point
    BY <1>1 DEF IsSide
  <2> QED
    BY <2>1, SetOfPart, ZenonT(30)
<1>6. Sides[m] = left \o right \o top \o bottom /\ neighbors_side[m] = ToSet(Sides[m])
  BY DEF Sides, neighbors_side
<1> HIDE DEF left, right, top, bottom
<1> DEFINE row == left \o right
           three == row \o top
<1> HIDE DEF row, three
<1>7. row \in Seq(Point) /\ ToSet(row) = ToSet(left) \cup ToSet(right)
  BY <1>2, <1>3, SetOfJoined DEF row
<1>8. three \in Seq(Point) /\ ToSet(three) = ToSet(row) \cup ToSet(top)
  BY <1>4, <1>7, SetOfJoined DEF three
<1>9. three \o bottom \in Seq(Point) /\ ToSet(three \o bottom) = ToSet(three) \cup ToSet(bottom)
  BY <1>5, <1>8, SetOfJoined
<1>10. \A n : n \in ToSet(three \o bottom) <=> IsSide(m, n)
  BY <1>2, <1>3, <1>4, <1>5, <1>7, <1>8, <1>9 DEF IsSide
<1> QED
  BY <1>6, <1>9, <1>10 DEF row, three

\* Each point is a neighbour of its neighbours.
LEMMA NeighborsAreMutual ==
  ASSUME NEW m \in Point
  PROVE  /\ neighbors_side[m] \subseteq Point /\ m \notin neighbors_side[m]
         /\ neighbors_3x3[m] \subseteq Point /\ m \notin neighbors_3x3[m]
         /\ \A n \in Point : n \in neighbors_side[m] <=> m \in neighbors_side[n]
         /\ \A n \in Point : n \in neighbors_3x3[m] <=> m \in neighbors_3x3[n]
<1>1. ASSUME NEW n \in Point
      PROVE  /\ n \in neighbors_side[n] => FALSE
             /\ \A k \in neighbors_side[n] : k \in Point /\ n \in neighbors_side[k]
  BY NeighborsOfPoint, SidesAreMutual
<1>2. ASSUME NEW n \in Point
      PROVE  /\ neighbors_diag[n] \subseteq Point /\ n \notin neighbors_diag[n]
             /\ \A k \in neighbors_diag[n] : n \in neighbors_diag[k]
  <2>1. \A k \in Point : X(k) \in Int /\ Y(k) \in Int
    BY PointsAreFinite, Quotients
  <2>2. \A k : k \in neighbors_diag[n] <=>
          k \in Point /\ X(n) - X(k) \in {-1, 1} /\ Y(n) - Y(k) \in {-1, 1}
    BY DEF neighbors_diag
  <2>3. \A k \in Point : n \in neighbors_diag[k] <=>
          X(k) - X(n) \in {-1, 1} /\ Y(k) - Y(n) \in {-1, 1}
    BY DEF neighbors_diag
  <2> QED
    BY <2>1, <2>2, <2>3
<1>3. \A n \in Point : neighbors_3x3[n] = neighbors_side[n] \cup neighbors_diag[n]
  BY DEF neighbors_3x3
<1> QED
  BY <1>1, <1>2, <1>3

-----------------------------------------------------------------------------
(* Liberties, and the list of groups. *)
LEMMA GroupMapsTyped == \A gr : gr \in GroupMaps <=> GroupsTyped(gr)
BY DEF GroupMaps, GroupsTyped

LEMMA FastBoardTyped ==
  ASSUME NEW b
  PROVE  b \in FastBoard <=>
           /\ IsFast(b) /\ b.p \in [Point -> Stones]
           /\ b.last_played \in Point \cup {NONE, PASS} /\ b.last_eaten \in Point \cup {NONE}
           /\ b.hash \in [Point -> PatternMaps] /\ b.empty \in SUBSET Point
           /\ b.neighbors4 \in [Player -> [Point -> Int]]
           /\ b.neighbors8 \in [Player -> [Point -> Int]]
           /\ b.unique_groups \in Seq(Point) /\ b.g \in [Point -> Point \cup {NONE}]
           /\ GroupsTyped(b.group)
<1>1. ASSUME b \in FastBoard PROVE IsFast(b)
  BY <1>1 DEF FastBoard, IsFast
<1>2. ASSUME b \in FastBoard 
      PROVE /\ b.p \in [Point -> Stones]
           /\ b.last_played \in Point \cup {NONE, PASS} /\ b.last_eaten \in Point \cup {NONE}
           /\ b.hash \in [Point -> PatternMaps] /\ b.empty \in SUBSET Point
           /\ b.neighbors4 \in [Player -> [Point -> Int]]
           /\ b.neighbors8 \in [Player -> [Point -> Int]]
           /\ b.unique_groups \in Seq(Point) /\ b.g \in [Point -> Point \cup {NONE}]
           /\ b.group \in GroupMaps
  BY <1>2 DEF FastBoard
<1>3. ASSUME /\ IsFast(b) /\ b.p \in [Point -> Stones]
           /\ b.last_played \in Point \cup {NONE, PASS} /\ b.last_eaten \in Point \cup {NONE}
           /\ b.hash \in [Point -> PatternMaps] /\ b.empty \in SUBSET Point
           /\ b.neighbors4 \in [Player -> [Point -> Int]]
           /\ b.neighbors8 \in [Player -> [Point -> Int]]
           /\ b.unique_groups \in Seq(Point) /\ b.g \in [Point -> Point \cup {NONE}]
           /\ b.group \in GroupMaps
      PROVE b \in FastBoard
  BY <1>3 DEF FastBoard, IsFast
<1> QED
  BY <1>1, <1>2, <1>3, GroupMapsTyped

\* The fields of a board that an operation has given new groups.
LEMMA RegroupedTyped ==
  ASSUME NEW b \in FastBoard, NEW d, IsFast(d), Regrouped(d, b),
         NEW q, Grouped(d, q)
  PROVE  d \in FastBoard
<1>1. d.unique_groups \in Seq(Point) /\ d.g \in [Point -> Point \cup {NONE}]
  BY DEF Grouped, Indexed, Owned
<1> QED
  BY <1>1, FastBoardTyped DEF Regrouped, Grouped

LEMMA LowestOf ==
  ASSUME NEW S \in SUBSET Point, S # {}
  PROVE  Lowest(S) \in S /\ \A n \in S : Lowest(S) <= n
<1>1. S \in SUBSET Nat
  BY SizeAssumption DEF Point, TOTAL_BOARD_SIZ
<1> QED
  BY <1>1, LeastNumber DEF Lowest

\* k is the group g with the points S among its liberties.
WithLiberties(k, g, S) ==
  /\ k \in GroupType /\ k.colour = g.colour /\ k.stones = g.stones
  /\ k.neighbors = g.neighbors /\ k.unique_groups_idx = g.unique_groups_idx
  /\ k.ls = g.ls \cup S /\ k.liberties = g.liberties + Cardinality(S \ g.ls)
  /\ \A n \in k.ls : n \in g.ls \/ k.liberties_min_coord <= n
  /\ k.liberties_min_coord <= g.liberties_min_coord
  /\ k.liberties_min_coord \in k.ls \cup {g.liberties_min_coord}

LEMMA LibertyAdded ==
  ASSUME NEW g \in GroupType, NEW S \in SUBSET Point, NEW k, k = add_liberty(g, S)
  PROVE  WithLiberties(k, g, S)
<1> DEFINE new == S \ g.ls
<1>1. IsFiniteSet(new) /\ Cardinality(new) \in Nat /\ (new = {} => Cardinality(new) = 0)
  BY PointsAreFinite, FS_EmptySet
<1>2. CASE new = {}
  <2>1. k = g
    BY <1>2 DEF add_liberty
  <2>2. /\ g.ls \in SUBSET Point /\ g.liberties \in Int /\ g.liberties_min_coord \in Nat
        /\ g.ls = g.ls \cup S
    BY <1>2 DEF GroupType
  <2> QED
    BY <1>1, <1>2, <2>1, <2>2 DEF WithLiberties
<1>3. CASE new # {}
  <2>1. Lowest(new) \in new /\ \A n \in new : Lowest(new) <= n
    BY <1>3, LowestOf
  <2>2. Lowest(new) \in Nat /\ g.liberties_min_coord \in Nat /\ new \subseteq Int /\ new \in SUBSET Point
    BY <2>1, PointsAreFinite DEF GroupType
  <2>3. k = [g EXCEPT !.ls = @ \cup new, !.liberties = @ + Cardinality(new),
                 !.liberties_min_coord = Lower(Lowest(new), @)]
    BY <1>3 DEF add_liberty
  <2> DEFINE low == Lower(Lowest(new), g.liberties_min_coord)
  <2>4. /\ low \in Nat /\ low <= Lowest(new) /\ low <= g.liberties_min_coord
        /\ low \in {Lowest(new), g.liberties_min_coord}
    BY <2>2 DEF Lower
  <2>5. \A n \in new : low <= n
    BY <2>1, <2>2, <2>4
  <2>6. g.ls \cup new = g.ls \cup S
    OBVIOUS
  <2> HIDE DEF low
  <2>7. /\ k.ls = g.ls \cup new /\ k.liberties = g.liberties + Cardinality(new)
        /\ k.liberties_min_coord = low
        /\ k.colour = g.colour /\ k.stones = g.stones
        /\ k.neighbors = g.neighbors /\ k.unique_groups_idx = g.unique_groups_idx
    BY <2>3 DEF GroupType, low
  <2> HIDE DEF new
  <2>8. k \in GroupType
    <3>1. g.liberties + Cardinality(new) \in Int /\ g.ls \cup new \in SUBSET Point
      <4>1. g.liberties \in Int /\ g.ls \in SUBSET Point
        BY DEF GroupType
      <4>2. g.liberties + Cardinality(new) \in Int
        BY <1>1, <4>1
      <4>3. g.ls \cup new \in SUBSET Point
        BY <2>2, <4>1
      <4> QED
        BY <4>2, <4>3
    <3> QED
      BY <2>3, <2>4, <3>1 DEF GroupType, low
  <2>9. \A n \in k.ls : n \in g.ls \/ k.liberties_min_coord <= n
    BY <2>5, <2>7
  <2> QED
    BY <2>1, <2>4, <2>6, <2>7, <2>8, <2>9 DEF new, WithLiberties
<1> QED
  BY <1>2, <1>3

\* A function, as that of its values.
IsMap(f, D) == f = [x \in D |-> f[x]]

\* d is b without the group id, and the last one in its place in the list.
Removed(b, id, d) ==
  LET n    == Len(b.unique_groups)
      last == b.unique_groups[n]
      idx  == b.group[id].unique_groups_idx
  IN /\ IsFast(d) /\ d.p = b.p /\ d.g = b.g /\ d.hash = b.hash /\ d.empty = b.empty
     /\ d.last_played = b.last_played /\ d.last_eaten = b.last_eaten
     /\ d.neighbors4 = b.neighbors4 /\ d.neighbors8 = b.neighbors8
     /\ IsMap(d.unique_groups, 1..(n - 1))
     /\ \A i \in 1..(n - 1) :
          d.unique_groups[i] = IF i = idx THEN last ELSE b.unique_groups[i]
     /\ IsMap(d.group, DOMAIN b.group \ {id})
     /\ \A h \in DOMAIN b.group \ {id} :
          d.group[h] = IF h = last THEN [b.group[h] EXCEPT !.unique_groups_idx = idx]
                                   ELSE b.group[h]

LEMMA DellocRemoves ==
  ASSUME NEW b, IsFast(b), NEW id, NEW d, d = delloc_group(b, id), Len(b.unique_groups) \in Nat
  PROVE  Removed(b, id, d)
<1>1. Len(b.unique_groups) - 1 + 1 = Len(b.unique_groups)
  OBVIOUS
<1>2. /\ IsFast(d) /\ d.p = b.p /\ d.g = b.g /\ d.hash = b.hash /\ d.empty = b.empty
      /\ d.last_played = b.last_played /\ d.last_eaten = b.last_eaten
      /\ d.neighbors4 = b.neighbors4 /\ d.neighbors8 = b.neighbors8
  BY DEF IsFast, delloc_group
<1>3. /\ IsMap(d.unique_groups, 1..(Len(b.unique_groups) - 1))
      /\ \A i \in 1..(Len(b.unique_groups) - 1) :
           d.unique_groups[i] = IF i = b.group[id].unique_groups_idx
                                THEN b.unique_groups[Len(b.unique_groups)]
                                ELSE b.unique_groups[i]
  BY <1>1 DEF IsFast, delloc_group, IsMap
<1>4. /\ IsMap(d.group, DOMAIN b.group \ {id})
      /\ \A h \in DOMAIN b.group \ {id} :
           d.group[h] = IF h = b.unique_groups[Len(b.unique_groups)]
                        THEN [b.group[h] EXCEPT !.unique_groups_idx =
                                                  b.group[id].unique_groups_idx]
                        ELSE b.group[h]
  BY <1>1 DEF IsFast, delloc_group, IsMap
<1> QED
  BY <1>2, <1>3, <1>4 DEF Removed

LEMMA DellocKeeps ==
  ASSUME NEW b, IsFast(b), GroupsTyped(b.group), Indexed(b.group, b.unique_groups),
         NEW id \in DOMAIN b.group, NEW d, d = delloc_group(b, id)
  PROVE  /\ GroupsTyped(d.group) /\ Indexed(d.group, d.unique_groups)
         /\ DOMAIN d.group = DOMAIN b.group \ {id}
         /\ \A h \in DOMAIN d.group : SameGroup(d.group[h], b.group[h])
<1> DEFINE n == Len(b.unique_groups)
           idx == b.group[id].unique_groups_idx
           last == b.unique_groups[n]
           gr == b.group
           ug == b.unique_groups
           ug2 == d.unique_groups
           gr2 == d.group
<1>1. /\ n \in Nat /\ idx \in 1..n /\ n - 1 + 1 = n /\ ug[idx] = id
      /\ n \in 1..n /\ n - 1 \in Nat
  BY DEF Indexed
<1>2. /\ last \in DOMAIN gr /\ gr[last].unique_groups_idx = n
  BY <1>1 DEF Indexed
<1>3. /\ IsMap(ug2, 1..(n - 1))
      /\ \A i \in 1..(n - 1) : ug2[i] = IF i = idx THEN last ELSE ug[i]
      /\ IsMap(gr2, DOMAIN gr \ {id})
      /\ \A h \in DOMAIN gr \ {id} :
           gr2[h] = IF h = last THEN [gr[h] EXCEPT !.unique_groups_idx = idx] ELSE gr[h]
  <2>1. Removed(b, id, d)
    BY <1>1, DellocRemoves
  <2> QED
    BY <2>1 DEF Removed
<1> HIDE DEF ug2, gr2
<1>4. DOMAIN gr2 = DOMAIN gr \ {id}
  BY <1>3 DEF IsMap
<1>5. ASSUME NEW h \in DOMAIN gr2
      PROVE  /\ gr2[h] \in GroupType /\ SameGroup(gr2[h], gr[h])
             /\ gr2[h].unique_groups_idx = IF h = last THEN idx ELSE gr[h].unique_groups_idx
  <2>1. h \in DOMAIN gr /\ gr[h] \in GroupType /\ idx \in Nat
    BY <1>1, <1>4 DEF GroupsTyped
  <2>2. gr2[h] = IF h = last THEN [gr[h] EXCEPT !.unique_groups_idx = idx] ELSE gr[h]
    BY <1>3, <1>4
  <2> HIDE DEF gr, idx, last
  <2> QED
    BY <2>1, <2>2 DEF GroupType, SameGroup
<1>6. GroupsTyped(gr2)
  <2>1. gr2 \in [DOMAIN gr2 -> GroupType]
    BY <1>3, <1>4, <1>5 DEF IsMap
  <2> QED
    BY <1>4, <2>1 DEF GroupsTyped
<1>7. ug2 \in Seq(Point) /\ Len(ug2) = n - 1
  <2>1. \A i \in 1..n : ug[i] \in Point
    BY DEF Indexed
  <2>2. \A i \in 1..(n - 1) : (IF i = idx THEN last ELSE ug[i]) \in Point
    BY <1>1, <2>1
  <2>3. n - 1 \in Nat /\ \A i \in 1..(n - 1) : ug2[i] \in Point
    BY <1>1, <1>3, <2>2
  <2>4. ug2 \in [1..(n - 1) -> Point]
    <3> HIDE DEF ug2, n
    <3> QED
      BY <1>3, <2>3 DEF IsMap
  <2> QED
    BY <2>3, <2>4
<1>8. ASSUME NEW h \in DOMAIN gr2
      PROVE  gr2[h].unique_groups_idx \in 1..(n - 1) /\ ug2[gr2[h].unique_groups_idx] = h
  <2>1. /\ h \in DOMAIN gr /\ h # id /\ gr[h].unique_groups_idx \in 1..n
        /\ ug[gr[h].unique_groups_idx] = h
    BY <1>4 DEF Indexed
  <2>2. CASE h = last
    <3>1. idx # n
      BY <1>1, <2>1, <2>2
    <3> QED
      BY <1>1, <1>3, <1>5, <2>2, <3>1
  <2>3. CASE h # last
    <3>1. gr[h].unique_groups_idx # n /\ gr[h].unique_groups_idx # idx
      BY <1>1, <2>1, <2>3
    <3>2. gr[h].unique_groups_idx \in 1..(n - 1)
      BY <1>1, <2>1, <3>1
    <3> QED
      BY <1>3, <1>5, <2>1, <2>3, <3>1, <3>2
  <2> QED
    BY <2>2, <2>3
<1>9. ASSUME NEW i \in 1..(n - 1)
      PROVE  ug2[i] \in DOMAIN gr2 /\ gr2[ug2[i]].unique_groups_idx = i
  <2>1. i \in 1..n /\ i # n /\ ug[i] \in DOMAIN gr /\ gr[ug[i]].unique_groups_idx = i
    BY <1>1 DEF Indexed
  <2>2. CASE i = idx
    <3>1. ug2[i] = last /\ last # id
      BY <1>1, <1>2, <1>3, <2>1, <2>2
    <3> QED
      BY <1>2, <1>4, <1>5, <2>2, <3>1
  <2>3. CASE i # idx
    <3>1. ug2[i] = ug[i] /\ ug[i] # id /\ ug[i] # last
      BY <1>2, <1>3, <2>1, <2>3
    <3> QED
      BY <1>4, <1>5, <2>1, <3>1
  <2> QED
    BY <2>2, <2>3
<1>10. Indexed(gr2, ug2)
  BY <1>7, <1>8, <1>9 DEF Indexed
<1> QED
  BY <1>4, <1>5, <1>6, <1>10 DEF gr2, ug2

\* d is b with the group gone united to the group keep.
United(b, keep, gone, d) ==
  LET old == b.group[keep]
      had == b.group[gone]
      new == d.group[keep]
  IN /\ Regrouped(d, b) /\ DOMAIN d.group = DOMAIN b.group \ {gone}
     /\ \A m \in Point : d.g[m] = IF b.g[m] = gone THEN keep ELSE b.g[m]
     /\ new.colour = old.colour /\ new.stones = old.stones \cup had.stones
     /\ SameGroup(new, [UniteLiberties(old, had) EXCEPT !.stones = old.stones \cup had.stones,
                                                        !.neighbors = old.neighbors \cup had.neighbors])
     /\ \A h \in DOMAIN d.group \ {keep} :
          LET g == b.group[h] IN
          SameGroup(d.group[h],
            [g EXCEPT !.neighbors = IF h \notin had.neighbors THEN @
                                    ELSE (@ \ {gone}) \cup (IF h \in old.neighbors THEN {} ELSE {keep})])

LEMMA GroupsReplaced ==
  ASSUME NEW b, IsFast(b), NEW x, NEW y, NEW d, d = [b EXCEPT !.g = x, !.group = y]
  PROVE  /\ IsFast(d) /\ Regrouped(d, b) /\ d.unique_groups = b.unique_groups
         /\ d.g = x /\ d.group = y
BY DEF IsFast, Regrouped

LEMMA LibertiesUnited ==
  ASSUME NEW keep \in GroupType, NEW gone \in GroupType
  PROVE  LET k == UniteLiberties(keep, gone) IN
         /\ k \in GroupType /\ k.colour = keep.colour /\ k.stones = keep.stones
         /\ k.neighbors = keep.neighbors /\ k.unique_groups_idx = keep.unique_groups_idx
<1>1. keep.ls \cup gone.ls \in SUBSET Point
  BY DEF GroupType
<1>2. Cardinality(keep.ls \cup gone.ls) \in Int
  BY <1>1, PointsAreFinite
<1>3. Lower(keep.liberties_min_coord, gone.liberties_min_coord) \in Nat
  BY DEF GroupType, Lower
<1>4. CASE gone.liberties = 0
  BY <1>4 DEF UniteLiberties
<1>5. CASE gone.liberties # 0
  BY <1>1, <1>2, <1>3, <1>5 DEF UniteLiberties, GroupType
<1> QED
  BY <1>4, <1>5

LEMMA UniteKeeps ==
  ASSUME NEW b, NEW q, Grouped(b, q), NEW keep \in DOMAIN b.group, NEW gone \in DOMAIN b.group,
         keep # gone, b.group[keep].colour = b.group[gone].colour,
         NEW d, d = unite_groups(b, keep, gone)
  PROVE  Grouped(d, q) /\ United(b, keep, gone, d)
<1> DEFINE gr == b.group
           old == gr[keep]
           had == gr[gone]
           ho == HandOverNeighbors(gr, keep, gone)
           newg == [m \in Point |-> IF m \in had.stones THEN keep ELSE b.g[m]]
           gr1 == [ho EXCEPT ![keep] =
                     [UniteLiberties(ho[keep], had) EXCEPT !.stones = @ \cup had.stones]]
           mid == [b EXCEPT !.g = newg, !.group = gr1]
           rest(h) == [gr[h] EXCEPT !.neighbors = IF h \notin had.neighbors THEN @
                         ELSE (@ \ {gone}) \cup (IF h \in old.neighbors THEN {} ELSE {keep})]
           kept == [UniteLiberties(old, had) EXCEPT !.stones = old.stones \cup had.stones,
                                                    !.neighbors = old.neighbors \cup had.neighbors]
<1>1. /\ GroupsTyped(gr) /\ Indexed(gr, b.unique_groups) /\ Owned(q, b.g, gr) /\ IsFast(b)
      /\ keep \in Point /\ gone \in Point /\ old \in GroupType /\ had \in GroupType
  BY DEF Grouped, GroupsTyped
<1>2. d = delloc_group(mid, gone)
  BY DEF unite_groups
<1>3. /\ IsFast(mid) /\ Regrouped(mid, b) /\ mid.unique_groups = b.unique_groups
      /\ mid.g = newg /\ mid.group = gr1
  <2>1. mid = [b EXCEPT !.g = newg, !.group = gr1]
    OBVIOUS
  <2>2. IsFast(b)
    BY <1>1
  <2> HIDE DEF newg, gr1, mid
  <2> QED
    BY <2>1, <2>2 DEF IsFast, Regrouped
<1> HIDE DEF mid
<1>4. /\ IsMap(ho, DOMAIN gr) /\ ho[keep] = [old EXCEPT !.neighbors = @ \cup had.neighbors]
      /\ \A h \in DOMAIN gr \ {keep} : ho[h] = rest(h)
  <2>1. ASSUME NEW h \in DOMAIN gr \ {keep} PROVE ho[h] = rest(h)
    <3>1. gr[h] \in GroupType
      BY <1>1 DEF GroupsTyped
    <3>2. ho[h] = IF h \in had.neighbors
                  THEN [gr[h] EXCEPT !.neighbors =
                          (@ \ {gone}) \cup (IF h \in old.neighbors THEN {} ELSE {keep})]
                  ELSE gr[h]
      BY DEF HandOverNeighbors
    <3> HIDE DEF gr, ho, old, had
    <3> QED
      BY <3>1, <3>2 DEF GroupType
  <2>2. IsMap(ho, DOMAIN gr) /\ ho[keep] = [old EXCEPT !.neighbors = @ \cup had.neighbors]
    BY DEF HandOverNeighbors, IsMap
  <2> HIDE DEF gr, ho, old, had, rest
  <2> QED
    BY <2>1, <2>2
<1> HIDE DEF ho
<1>5. ASSUME NEW h \in DOMAIN gr
      PROVE  /\ h # keep => gr1[h] = rest(h) /\ SameGroup(gr1[h], rest(h))
             /\ h = keep => SameGroup(gr1[h], kept)
             /\ gr1[h].unique_groups_idx = gr[h].unique_groups_idx /\ gr1[h] \in GroupType
             /\ gr1[h].colour = gr[h].colour
             /\ gr1[h].stones = IF h = keep THEN old.stones \cup had.stones ELSE gr[h].stones
  <2>1. gr[h] \in GroupType
    BY <1>1 DEF GroupsTyped
  <2>2. CASE h = keep
    <3>1. gr1[h] = [UniteLiberties(ho[keep], had) EXCEPT !.stones = @ \cup had.stones]
      <4> DEFINE e == [UniteLiberties(ho[keep], had) EXCEPT !.stones = @ \cup had.stones]
      <4>1. gr1 = [ho EXCEPT ![keep] = e]
        OBVIOUS
      <4> HIDE DEF e, gr1, had
      <4>2. gr1[keep] = e
        BY <1>4, <4>1 DEF IsMap
      <4> QED
        BY <2>2, <4>2 DEF e
    <3> HIDE DEF gr1, gr
    <3>2. old = gr[h]
      BY <2>2
    <3> HIDE DEF old
    <3>3. old \in GroupType /\ had.stones \subseteq Point /\ had.neighbors \subseteq Point
      BY <2>1, <3>2, <1>1 DEF GroupType
    <3>4. /\ ho[keep] \in GroupType /\ ho[keep].colour = old.colour /\ ho[keep].stones = old.stones
          /\ ho[keep].neighbors = old.neighbors \cup had.neighbors
          /\ ho[keep].unique_groups_idx = old.unique_groups_idx
          /\ ho[keep].ls = old.ls /\ ho[keep].liberties = old.liberties
          /\ ho[keep].liberties_min_coord = old.liberties_min_coord
      BY <1>4, <3>3 DEF GroupType
    <3> DEFINE u == UniteLiberties(ho[keep], had)
               v == UniteLiberties(old, had)
    <3>5. /\ u \in GroupType /\ u.colour = old.colour /\ u.stones = old.stones
          /\ u.neighbors = old.neighbors \cup had.neighbors
          /\ u.unique_groups_idx = old.unique_groups_idx
      BY <1>1, <3>4, LibertiesUnited
    <3>6. v \in GroupType /\ v.colour = old.colour /\ v.stones = old.stones
      BY <1>1, <3>3, LibertiesUnited
    <3>7. u.ls = v.ls /\ u.liberties = v.liberties /\ u.liberties_min_coord = v.liberties_min_coord
      BY <3>3, <3>4 DEF UniteLiberties, GroupType
    <3>8. gr1[h] = [u EXCEPT !.stones = @ \cup had.stones]
          /\ kept = [v EXCEPT !.stones = old.stones \cup had.stones,
                             !.neighbors = old.neighbors \cup had.neighbors]
      BY <3>1
    <3> HIDE DEF u, v, kept, had
    <3>9. gr1[h] \in GroupType /\ gr1[h].stones = old.stones \cup had.stones
          /\ gr1[h].unique_groups_idx = old.unique_groups_idx /\ gr1[h].colour = old.colour
      BY <3>3, <3>5, <3>8 DEF GroupType
    <3>10. SameGroup(gr1[h], kept)
      BY <3>5, <3>6, <3>7, <3>8 DEF GroupType, SameGroup
    <3> QED
      BY <2>2, <3>2, <3>9, <3>10
  <2>3. CASE h # keep
    <3>1. gr1[h] = rest(h)
      BY <1>4, <2>3 DEF IsMap
    <3> HIDE DEF gr1, gr, old, had
    <3> QED
      BY <1>1, <2>1, <2>3, <3>1 DEF GroupType, SameGroup
  <2> QED
    BY <2>2, <2>3
<1>6. DOMAIN gr1 = DOMAIN gr /\ gr1 = [h \in DOMAIN gr |-> gr1[h]]
  BY <1>4 DEF IsMap
<1> HIDE DEF gr1, rest, kept
<1>7. GroupsTyped(gr1)
  <2>1. gr1 \in [DOMAIN gr1 -> GroupType]
    BY <1>5, <1>6
  <2> QED
    BY <1>1, <1>6, <2>1 DEF GroupsTyped
<1>8. Indexed(gr1, b.unique_groups)
  BY <1>1, <1>5, <1>6 DEF Indexed
<1>9. /\ GroupsTyped(d.group) /\ Indexed(d.group, d.unique_groups)
      /\ DOMAIN d.group = DOMAIN gr \ {gone}
      /\ \A h \in DOMAIN d.group : SameGroup(d.group[h], gr1[h])
  <2>1. /\ GroupsTyped(mid.group) /\ Indexed(mid.group, mid.unique_groups)
        /\ gone \in DOMAIN mid.group /\ DOMAIN mid.group = DOMAIN gr
    BY <1>3, <1>6, <1>7, <1>8
  <2>2. /\ GroupsTyped(d.group) /\ Indexed(d.group, d.unique_groups)
        /\ DOMAIN d.group = DOMAIN mid.group \ {gone}
        /\ \A h \in DOMAIN d.group : SameGroup(d.group[h], mid.group[h])
    BY <1>2, <1>3, <2>1, DellocKeeps
  <2> QED
    BY <1>3, <2>1, <2>2
<1>10. Removed(mid, gone, d)
  <2>1. Len(mid.unique_groups) \in Nat
    BY <1>1, <1>3 DEF Indexed
  <2> QED
    BY <1>2, <1>3, <2>1, DellocRemoves
<1>11. IsFast(d) /\ Regrouped(d, b) /\ d.g = mid.g
  BY <1>3, <1>10 DEF Removed, Regrouped
<1>12. \A m \in Point : d.g[m] = IF b.g[m] = gone THEN keep ELSE b.g[m]
  <2>1. had.stones = {m \in Point : b.g[m] = gone}
    BY <1>1 DEF Owned
  <2> QED
    BY <1>3, <1>11, <2>1
<1>13. Owned(q, d.g, d.group)
  <2>1. d.g \in [Point -> Point \cup {NONE}]
    <3>1. d.g = [m \in Point |-> IF m \in had.stones THEN keep ELSE b.g[m]]
      BY <1>3, <1>11
    <3> QED
      BY <1>1, <3>1 DEF Owned
  <2>2. \A m \in Point : d.g[m] = NONE <=> q[m] = EMPTY
    BY <1>1, <1>12, Marks DEF Owned
  <2>3. ASSUME NEW h \in DOMAIN d.group
        PROVE  /\ d.group[h].colour = gr[h].colour
               /\ d.group[h].stones = IF h = keep THEN old.stones \cup had.stones ELSE gr[h].stones
    <3>1. h \in DOMAIN gr /\ SameGroup(d.group[h], gr1[h])
      BY <1>9
    <3>2. /\ gr1[h].colour = gr[h].colour
          /\ gr1[h].stones = IF h = keep THEN old.stones \cup had.stones ELSE gr[h].stones
      BY <1>5, <3>1
    <3> QED
      BY <3>1, <3>2 DEF SameGroup
  <2>4. ASSUME NEW m \in Point, d.g[m] # NONE
        PROVE  d.g[m] \in DOMAIN d.group /\ d.group[d.g[m]].colour = q[m]
    <3>1. b.g[m] # NONE /\ b.g[m] \in DOMAIN gr /\ gr[b.g[m]].colour = q[m]
      BY <1>1, <1>12, <2>4, Marks DEF Owned
    <3> QED
      BY <1>9, <1>12, <2>3, <3>1
  <2>5. ASSUME NEW h \in DOMAIN d.group
        PROVE  d.g[h] = h /\ d.group[h].stones = {m \in Point : d.g[m] = h}
    <3>1. h \in DOMAIN gr /\ h # gone /\ h \in Point /\ b.g[h] = h /\ gr[h].stones = {m \in Point : b.g[m] = h}
      BY <1>1, <1>9 DEF Owned, GroupsTyped
    <3>2. /\ old.stones = {m \in Point : b.g[m] = keep}
          /\ had.stones = {m \in Point : b.g[m] = gone}
      BY <1>1 DEF Owned
    <3>3. d.g[h] = h
      BY <1>12, <3>1
    <3>4. CASE h = keep
      <4>1. d.group[h].stones = old.stones \cup had.stones
        BY <2>3, <3>4
      <4> HIDE DEF old, had
      <4>2. {m \in Point : d.g[m] = h} = old.stones \cup had.stones
        BY <1>12, <3>1, <3>2, <3>4
      <4> QED
        BY <3>3, <4>1, <4>2
    <3>5. CASE h # keep
      <4>1. d.group[h].stones = gr[h].stones
        BY <2>3, <3>5
      <4>2. {m \in Point : d.g[m] = h} = {m \in Point : b.g[m] = h}
        BY <1>12, <3>1, <3>5
      <4> QED
        BY <3>1, <3>3, <4>1, <4>2
    <3> QED
      BY <3>4, <3>5
  <2> QED
    BY <1>1, <2>1, <2>2, <2>4, <2>5 DEF Owned
<1>14. Grouped(d, q)
  BY <1>9, <1>11, <1>13 DEF Grouped
<1>15. /\ d.group[keep].colour = old.colour /\ d.group[keep].stones = old.stones \cup had.stones
       /\ SameGroup(d.group[keep], kept)
       /\ \A h \in DOMAIN d.group \ {keep} : SameGroup(d.group[h], rest(h))
  BY <1>5, <1>9 DEF SameGroup
<1> QED
  BY <1>9, <1>11, <1>12, <1>14, <1>15 DEF United, kept, rest

-----------------------------------------------------------------------------
(* A stone added. *)
StonesIn(S, q, c) == {n \in S : q[n] = c}

With(q, m, c) == [q EXCEPT ![m] = c]

Mark(v) == IF v = EMPTY THEN 0 ELSE Value(v)

\* The counts and the patterns of b are those of the board q.
Around(b, q) ==
  /\ b.neighbors4 \in [Player -> [Point -> Int]] /\ b.neighbors8 \in [Player -> [Point -> Int]]
  /\ b.hash \in [Point -> PatternMaps]
  /\ \A m \in Point, c \in Player :
       /\ b.neighbors4[c][m] = Cardinality(StonesIn(neighbors_side[m], q, c))
       /\ b.neighbors8[c][m] = Cardinality(StonesIn(neighbors_3x3[m], q, c))
  /\ \A m \in Point : /\ DOMAIN b.hash[m] = neighbors_3x3[m]
                      /\ \A n \in neighbors_3x3[m] : b.hash[m][n] = Mark(q[n])

LEMMA StoneCounted ==
  ASSUME NEW S \in SUBSET Point, NEW q \in [Point -> Stones], NEW m \in Point, q[m] = EMPTY,
         NEW c \in Player, NEW e \in Player, NEW q1, q1 = With(q, m, c)
  PROVE  Cardinality(StonesIn(S, q1, e)) =
           Cardinality(StonesIn(S, q, e)) + (IF m \in S /\ e = c THEN 1 ELSE 0)
<1>1. \A n \in S : q1[n] = IF n = m THEN c ELSE q[n]
  BY DEF With
<1>2. IsFiniteSet(StonesIn(S, q, e)) /\ Cardinality(StonesIn(S, q, e)) \in Nat
  BY PointsAreFinite DEF StonesIn
<1>3. CASE m \in S /\ e = c
  <2>1. m \notin StonesIn(S, q, e)
    BY Marks DEF StonesIn
  <2>2. StonesIn(S, q1, e) = StonesIn(S, q, e) \cup {m}
    BY <1>1, <1>3 DEF StonesIn
  <2> QED
    BY <1>2, <1>3, <2>1, <2>2, FS_AddElement
<1>4. CASE ~(m \in S /\ e = c)
  <2>1. StonesIn(S, q1, e) = StonesIn(S, q, e)
    BY <1>1, <1>4, Marks DEF StonesIn
  <2> QED
    BY <1>2, <1>4, <2>1
<1> QED
  BY <1>3, <1>4

LEMMA PatternMapsTyped == \A f : f \in PatternMaps <=> DOMAIN f \in SUBSET Point /\ f \in [DOMAIN f -> Int]
BY DEF PatternMaps

LEMMA OccupiedFields ==
  ASSUME NEW b, IsFast(b), NEW c, NEW m, NEW d, d = pos_set_occupied(b, c, m)
  PROVE  /\ IsFast(d) /\ d.p = b.p /\ d.last_played = b.last_played /\ d.last_eaten = b.last_eaten
         /\ d.empty = b.empty /\ d.unique_groups = b.unique_groups /\ d.g = b.g
         /\ d.group = b.group
BY DEF IsFast, pos_set_occupied

LEMMA OccupiedCounts ==
  ASSUME NEW b, IsFast(b), NEW q \in [Point -> Stones], Around(b, q),
         NEW m \in Point, q[m] = EMPTY, NEW c \in Player,
         NEW d, d = pos_set_occupied(b, c, m)
  PROVE  Around(d, With(q, m, c))
<1> DEFINE q1 == With(q, m, c)
           n4(n) == IF n \in neighbors_side[m] THEN b.neighbors4[c][n] + 1 ELSE b.neighbors4[c][n]
           n8(n) == IF n \in neighbors_3x3[m] THEN b.neighbors8[c][n] + 1 ELSE b.neighbors8[c][n]
           hash(n) == IF n \in neighbors_3x3[m] THEN [b.hash[n] EXCEPT ![m] = @ + Value(c)]
                      ELSE b.hash[n]
<1>1. /\ d.neighbors4 = [b.neighbors4 EXCEPT ![c] = [n \in Point |-> n4(n)]]
      /\ d.neighbors8 = [b.neighbors8 EXCEPT ![c] = [n \in Point |-> n8(n)]]
      /\ d.hash = [n \in Point |-> hash(n)]
  BY DEF IsFast, pos_set_occupied
<1>2. /\ b.neighbors4 \in [Player -> [Point -> Int]] /\ b.neighbors8 \in [Player -> [Point -> Int]]
      /\ b.hash \in [Point -> PatternMaps]
  BY DEF Around
<1>3. \A n \in Point : n4(n) \in Int /\ n8(n) \in Int
  BY <1>2
<1> HIDE DEF n4, n8, hash
<1>4. /\ d.neighbors4 \in [Player -> [Point -> Int]] /\ d.neighbors8 \in [Player -> [Point -> Int]]
      /\ \A e \in Player, n \in Point :
           /\ d.neighbors4[e][n] = IF e = c THEN n4(n) ELSE b.neighbors4[e][n]
           /\ d.neighbors8[e][n] = IF e = c THEN n8(n) ELSE b.neighbors8[e][n]
  BY <1>1, <1>2, <1>3
<1>5. ASSUME NEW n \in Point, NEW e \in Player
      PROVE  /\ d.neighbors4[e][n] = Cardinality(StonesIn(neighbors_side[n], q1, e))
             /\ d.neighbors8[e][n] = Cardinality(StonesIn(neighbors_3x3[n], q1, e))
  <2>1. /\ neighbors_side[n] \in SUBSET Point /\ neighbors_3x3[n] \in SUBSET Point
        /\ n \in neighbors_side[m] <=> m \in neighbors_side[n]
        /\ n \in neighbors_3x3[m] <=> m \in neighbors_3x3[n]
    BY NeighborsAreMutual
  <2> DEFINE k4 == Cardinality(StonesIn(neighbors_side[n], q, e))
             k8 == Cardinality(StonesIn(neighbors_3x3[n], q, e))
             j4 == Cardinality(StonesIn(neighbors_side[n], q1, e))
             j8 == Cardinality(StonesIn(neighbors_3x3[n], q1, e))
  <2>0. q1 = With(q, m, c)
    OBVIOUS
  <2> HIDE DEF q1
  <2>2. /\ j4 = k4 + (IF m \in neighbors_side[n] /\ e = c THEN 1 ELSE 0)
        /\ j8 = k8 + (IF m \in neighbors_3x3[n] /\ e = c THEN 1 ELSE 0)
    <3>1. j4 = k4 + (IF m \in neighbors_side[n] /\ e = c THEN 1 ELSE 0)
      BY <2>0, <2>1, StoneCounted
    <3>2. j8 = k8 + (IF m \in neighbors_3x3[n] /\ e = c THEN 1 ELSE 0)
      BY <2>0, <2>1, StoneCounted
    <3> HIDE DEF j4, j8, k4, k8
    <3> QED
      BY <3>1, <3>2
  <2>3. b.neighbors4[e][n] = k4 /\ b.neighbors8[e][n] = k8 /\ k4 \in Int /\ k8 \in Int
    BY <1>2 DEF Around
  <2> HIDE DEF k4, k8, j4, j8, q1
  <2>4. d.neighbors4[e][n] = j4 /\ d.neighbors8[e][n] = j8
    BY <1>4, <2>1, <2>2, <2>3 DEF n4, n8
  <2> QED
    BY <2>4 DEF j4, j8
<1>6. ASSUME NEW n \in Point
      PROVE  /\ DOMAIN d.hash[n] = neighbors_3x3[n] /\ d.hash[n] \in PatternMaps
             /\ \A k \in neighbors_3x3[n] : d.hash[n][k] = Mark(q1[k])
  <2>1. /\ neighbors_3x3[n] \in SUBSET Point
        /\ n \in neighbors_3x3[m] <=> m \in neighbors_3x3[n]
    BY NeighborsAreMutual
  <2>2. /\ b.hash[n] \in [neighbors_3x3[n] -> Int] /\ d.hash[n] = hash(n)
        /\ \A k \in neighbors_3x3[n] : b.hash[n][k] = Mark(q[k])
    BY <1>1, <1>2, PatternMapsTyped DEF Around
  <2>3. Mark(q[m]) = 0 /\ Mark(c) = Value(c) /\ Value(c) \in Int
    BY Marks DEF Mark, Value
  <2>4. \A k \in Point : q1[k] = IF k = m THEN c ELSE q[k]
    BY DEF With
  <2> HIDE DEF q1
  <2>5. CASE m \in neighbors_3x3[n]
    <3>1. d.hash[n] = [b.hash[n] EXCEPT ![m] = @ + Value(c)]
      BY <2>1, <2>2, <2>5 DEF hash
    <3>2. b.hash[n][m] + Value(c) = Mark(c) /\ Mark(c) \in Int
      BY <2>2, <2>3, <2>5
    <3>3. d.hash[n] \in [neighbors_3x3[n] -> Int]
      BY <2>2, <3>1, <3>2
    <3>4. \A k \in neighbors_3x3[n] : d.hash[n][k] = Mark(q1[k])
      BY <2>1, <2>2, <2>4, <3>1, <3>2
    <3> QED
      BY <2>1, <3>3, <3>4, PatternMapsTyped
  <2>6. CASE m \notin neighbors_3x3[n]
    <3>1. d.hash[n] = b.hash[n]
      BY <2>1, <2>2, <2>6 DEF hash
    <3>2. \A k \in neighbors_3x3[n] : q1[k] = q[k]
      BY <2>1, <2>4, <2>6
    <3> QED
      BY <2>1, <2>2, <3>1, <3>2, PatternMapsTyped
  <2> QED
    BY <2>5, <2>6
<1>7. d.hash \in [Point -> PatternMaps]
  BY <1>1, <1>6
<1> HIDE DEF q1
<1> QED
  BY <1>4, <1>5, <1>6, <1>7 DEF Around, q1

LEMMA WithTyped ==
  ASSUME NEW q \in [Point -> Stones], NEW m \in Point, NEW c \in Stones
  PROVE  /\ With(q, m, c) \in [Point -> Stones]
         /\ \A n \in Point : With(q, m, c)[n] = IF n = m THEN c ELSE q[n]
BY DEF With

\* Two groups that differ in their liberties and neighbours at most.
SameStones(u, v) ==
  u.colour = v.colour /\ u.stones = v.stones /\ u.unique_groups_idx = v.unique_groups_idx

\* The groups of two maps have the same stones.
KeepsStones(gr2, gr) ==
  /\ GroupsTyped(gr2) /\ DOMAIN gr2 = DOMAIN gr
  /\ \A h \in DOMAIN gr : SameStones(gr2[h], gr[h])

LEMMA GroupsUpdated ==
  ASSUME NEW b, NEW q, Grouped(b, q), NEW gr, KeepsStones(gr, b.group),
         NEW d, d = [b EXCEPT !.group = gr]
  PROVE  /\ Grouped(d, q) /\ Regrouped(d, b) /\ d.group = gr /\ d.g = b.g
         /\ d.unique_groups = b.unique_groups
<1>1. IsFast(b)
  BY DEF Grouped
<1>2. /\ IsFast(d) /\ Regrouped(d, b) /\ d.group = gr /\ d.g = b.g
      /\ d.unique_groups = b.unique_groups
  BY <1>1 DEF IsFast, Regrouped
<1>3. GroupsTyped(gr) /\ DOMAIN gr = DOMAIN b.group
      /\ \A h \in DOMAIN b.group : SameStones(gr[h], b.group[h])
  BY DEF KeepsStones
<1>4. Indexed(gr, b.unique_groups)
  BY <1>3 DEF Grouped, Indexed, SameStones
<1>5. Owned(q, b.g, gr)
  BY <1>3 DEF Grouped, Owned, SameStones
<1> QED
  BY <1>2, <1>3, <1>4, <1>5 DEF Grouped

LEMMA GroupUpdated ==
  ASSUME NEW gr, GroupsTyped(gr), NEW h, NEW k \in GroupType,
         h \in DOMAIN gr => SameStones(k, gr[h])
  PROVE  KeepsStones([gr EXCEPT ![h] = k], gr)
BY DEF GroupsTyped, KeepsStones, SameStones

LEMMA NeighborsAdded ==
  ASSUME NEW gr, GroupsTyped(gr), NEW a \in DOMAIN gr, NEW h \in DOMAIN gr
  PROVE  KeepsStones(add_neighbor(gr, a, h), gr)
<1> DEFINE gr1 == add_neighbor(gr, a, h)
<1>1. CASE h \in gr[a].neighbors
  BY <1>1 DEF add_neighbor, KeepsStones, SameStones
<1>2. CASE h \notin gr[a].neighbors
  <2>1. gr1 = [gr EXCEPT ![a].neighbors = @ \cup {h}, ![h].neighbors = @ \cup {a}]
    BY <1>2 DEF add_neighbor
  <2> HIDE DEF gr1
  <2>2. DOMAIN gr1 = DOMAIN gr /\ IsMap(gr1, DOMAIN gr)
    BY <2>1 DEF GroupsTyped, IsMap
  <2>3. ASSUME NEW k \in DOMAIN gr
        PROVE  gr1[k] \in GroupType /\ SameStones(gr1[k], gr[k])
    <3>1. gr[k] \in GroupType /\ a \in Point /\ h \in Point
      BY DEF GroupsTyped
    <3> DEFINE N == gr1[k].neighbors
    <3>2. gr1[k] = [gr[k] EXCEPT !.neighbors = N] /\ N \subseteq gr[k].neighbors \cup {a, h}
      BY <2>1, <3>1 DEF GroupType
    <3> HIDE DEF N
    <3>3. N \in SUBSET Point
      BY <3>1, <3>2 DEF GroupType
    <3> QED
      BY <3>1, <3>2, <3>3 DEF GroupType, SameStones
  <2>4. gr1 \in [DOMAIN gr1 -> GroupType]
    BY <2>2, <2>3 DEF IsMap
  <2> QED
    BY <2>2, <2>3, <2>4 DEF KeepsStones, GroupsTyped, gr1
<1> QED
  BY <1>1, <1>2

\* The values that the neighbours of a new stone at m are met with.
Meeting(b, q, m) ==
  {s \in [cb : FastBoard, met : SUBSET Point] :
     /\ Grouped(s.cb, q) /\ Regrouped(s.cb, b)
     /\ s.cb.g[m] \in s.met \/ s.cb.group[s.cb.g[m]].stones = {m}}

\* A value that keeps the stones of its groups.
LEMMA MeetingUpdated ==
  ASSUME NEW b \in FastBoard, NEW q, NEW m \in Point, q[m] # EMPTY, NEW s \in Meeting(b, q, m),
         NEW gr, KeepsStones(gr, s.cb.group), NEW met \in SUBSET Point, s.met \subseteq met,
         NEW t, t = [cb |-> [s.cb EXCEPT !.group = gr], met |-> met]
  PROVE  t \in Meeting(b, q, m) /\ t.cb.group = gr /\ t.cb.g = s.cb.g
<1>1. Grouped(s.cb, q) /\ Regrouped(s.cb, b)
      /\ (s.cb.g[m] \in s.met \/ s.cb.group[s.cb.g[m]].stones = {m})
  BY DEF Meeting
<1>2. t.cb = [s.cb EXCEPT !.group = gr] /\ t.met = met /\ t = [cb |-> t.cb, met |-> t.met]
  OBVIOUS
<1>3. /\ Grouped(t.cb, q) /\ Regrouped(t.cb, s.cb) /\ t.cb.group = gr /\ t.cb.g = s.cb.g
  BY <1>1, <1>2, GroupsUpdated
<1>4. Regrouped(t.cb, b) /\ IsFast(t.cb)
  BY <1>1, <1>3 DEF Regrouped, Grouped
<1>5. t.cb \in FastBoard
  BY <1>3, <1>4, RegroupedTyped
<1>6. s.cb.g[m] \in DOMAIN s.cb.group
  BY <1>1 DEF Grouped, Owned
<1>7. s.cb.g[m] \in met \/ gr[s.cb.g[m]].stones = {m}
  BY <1>1, <1>6 DEF KeepsStones, SameStones
<1> QED
  BY <1>2, <1>3, <1>4, <1>5, <1>7 DEF Meeting

LEMMA LibertyKeeps ==
  ASSUME NEW g \in GroupType, NEW S \in SUBSET Point
  PROVE  add_liberty(g, S) \in GroupType /\ SameStones(add_liberty(g, S), g)
<1> DEFINE k == add_liberty(g, S)
<1>1. k = add_liberty(g, S)
  OBVIOUS
<1> HIDE DEF k
<1>3. WithLiberties(k, g, S)
  BY <1>1, LibertyAdded
<1>2. /\ k \in GroupType /\ k.colour = g.colour /\ k.stones = g.stones
      /\ k.unique_groups_idx = g.unique_groups_idx
  BY <1>3 DEF WithLiberties
<1> QED
  BY <1>2 DEF k, SameStones

LEMMA LibertyRemoved ==
  ASSUME NEW g \in GroupType, NEW m
  PROVE  /\ rem_liberty_unchecked(g, m) \in GroupType
         /\ SameStones(rem_liberty_unchecked(g, m), g)
<1>1. g.liberties - 1 \in Int /\ g.ls \ {m} \in SUBSET Point
  BY DEF GroupType
<1> QED
  BY <1>1 DEF GroupType, SameStones, rem_liberty_unchecked

\* t is what Meet makes of s, for each kind of neighbour.
Met(s, c, m, n, t) ==
  LET gr  == s.cb.group
      h   == s.cb.g[n]
      own == s.cb.g[m]
      rem == [gr EXCEPT ![h] = rem_liberty_unchecked(gr[h], m)]
      cb1 == [s.cb EXCEPT !.group = rem]
  IN /\ h = NONE =>
          t = [cb |-> [s.cb EXCEPT !.group = [gr EXCEPT ![own] = add_liberty(gr[own], {n})]],
               met |-> s.met]
     /\ h # NONE /\ h \in s.met => t = s
     /\ h # NONE /\ h \notin s.met /\ rem[h].colour = c =>
          t = [cb |-> unite_groups(cb1, h, own), met |-> s.met \cup {h}]
     /\ h # NONE /\ h \notin s.met /\ rem[h].colour # c =>
          t = [cb |-> [s.cb EXCEPT !.group = add_neighbor(rem, own, h)], met |-> s.met \cup {h}]

LEMMA MeetCases ==
  ASSUME NEW b, NEW q, NEW m, NEW s \in Meeting(b, q, m), NEW c, NEW n
  PROVE  Met(s, c, m, n, Meet(s, c, m, n))
<1> DEFINE gr  == s.cb.group
           h   == s.cb.g[n]
           own == s.cb.g[m]
           rem == [gr EXCEPT ![h] = rem_liberty_unchecked(gr[h], m)]
           cb1  == [s.cb EXCEPT !.group[h] = rem_liberty_unchecked(@, m)]
           add == [gr EXCEPT ![own] = add_liberty(gr[own], {n})]
<1>1. s = [cb |-> s.cb, met |-> s.met] /\ IsFast(s.cb)
  BY DEF Meeting, Grouped
<1>2. cb1 = [s.cb EXCEPT !.group = rem]
  OBVIOUS
<1>3. [s EXCEPT !.cb.group[own] = add_liberty(@, {n})]
        = [cb |-> [s.cb EXCEPT !.group = add], met |-> s.met]
  BY <1>1
<1>4. cb1.group = rem
  BY <1>1, <1>2 DEF IsFast
<1>5. [cb1 EXCEPT !.group = add_neighbor(cb1.group, own, h)]
        = [s.cb EXCEPT !.group = add_neighbor(rem, own, h)]
  BY <1>1, <1>2, <1>4 DEF IsFast
<1>6. Meet(s, c, m, n) =
        IF h = NONE THEN [s EXCEPT !.cb.group[own] = add_liberty(@, {n})]
        ELSE IF h \in s.met THEN s
        ELSE [cb |-> IF cb1.group[h].colour = c THEN unite_groups(cb1, h, own)
                     ELSE [cb1 EXCEPT !.group = add_neighbor(@, own, h)],
              met |-> s.met \cup {h}]
  BY DEF Meet
<1> HIDE DEF gr, h, own, rem, cb1, add
<1>7. h = NONE => Meet(s, c, m, n) = [cb |-> [s.cb EXCEPT !.group = add], met |-> s.met]
  BY <1>3, <1>6
<1>8. h # NONE /\ h \in s.met => Meet(s, c, m, n) = s
  BY <1>6
<1>9. h # NONE /\ h \notin s.met /\ rem[h].colour = c =>
        Meet(s, c, m, n) = [cb |-> unite_groups([s.cb EXCEPT !.group = rem], h, own),
                            met |-> s.met \cup {h}]
  BY <1>2, <1>4, <1>6
<1>10. h # NONE /\ h \notin s.met /\ rem[h].colour # c =>
         Meet(s, c, m, n) =
           [cb |-> [s.cb EXCEPT !.group = add_neighbor(rem, own, h)], met |-> s.met \cup {h}]
  BY <1>4, <1>5, <1>6
<1> QED
  BY <1>7, <1>8, <1>9, <1>10 DEF Met, gr, h, own, rem, add

\* Meeting a neighbour keeps the groups those of the board.
LEMMA MeetKeeps ==
  ASSUME NEW b \in FastBoard, NEW q, NEW m \in Point, NEW c \in Player, q[m] = c,
         NEW s \in Meeting(b, q, m), NEW n \in neighbors_side[m]
  PROVE  Meet(s, c, m, n) \in Meeting(b, q, m)
<1> DEFINE gr  == s.cb.group
           h   == s.cb.g[n]
           own == s.cb.g[m]
           less == rem_liberty_unchecked(gr[h], m)
           rem == [gr EXCEPT ![h] = less]
           mid == [s.cb EXCEPT !.group = rem]
           more == add_liberty(gr[own], {n})
           add == [gr EXCEPT ![own] = more]
           t   == Meet(s, c, m, n)
           met == s.met \cup {h}
<1>0. Met(s, c, m, n, t)
  BY MeetCases
<1>1. /\ Grouped(s.cb, q) /\ Regrouped(s.cb, b) /\ GroupsTyped(gr)
      /\ s.cb.g[m] \in s.met \/ s.cb.group[s.cb.g[m]].stones = {m}
      /\ s.met \in SUBSET Point /\ s.cb \in FastBoard
  BY DEF Meeting, Grouped
<1>2. /\ n \in Point /\ n # m
  BY NeighborsAreMutual
<1>3. /\ own \in DOMAIN gr /\ gr[own].colour = c /\ gr[own] \in GroupType
      /\ h # NONE => h \in DOMAIN gr /\ gr[h] \in GroupType /\ h \in Point
  BY <1>1, <1>2, Marks DEF Grouped, Owned, GroupsTyped
<1>4. q[m] # EMPTY
  BY Marks
<1>5. CASE h = NONE
  <2>1. t = [cb |-> [s.cb EXCEPT !.group = add], met |-> s.met]
    BY <1>0, <1>5 DEF Met
  <2>2. more \in GroupType /\ SameStones(more, gr[own])
    <3>1. {n} \in SUBSET Point /\ gr[own] \in GroupType
      BY <1>2, <1>3
    <3> HIDE DEF gr, own
    <3> QED
      BY <3>1, LibertyKeeps
  <2> HIDE DEF more
  <2>3. KeepsStones(add, gr)
    BY <1>1, <2>2, GroupUpdated
  <2> HIDE DEF t, add
  <2> QED
    BY <1>1, <1>4, <2>1, <2>3, MeetingUpdated DEF t
<1>6. CASE h # NONE /\ h \in s.met
  <2>1. t = s
    BY <1>0, <1>6 DEF Met
  <2> QED
    BY <2>1
<1>7. CASE h # NONE /\ h \notin s.met
  <2>1. less \in GroupType /\ SameStones(less, gr[h])
    BY <1>3, <1>7, LibertyRemoved
  <2> HIDE DEF less
  <2>2. KeepsStones(rem, gr) /\ rem[h].colour = gr[h].colour /\ rem[own].colour = c
    <3>1. KeepsStones(rem, gr)
      BY <1>1, <2>1, GroupUpdated
    <3> HIDE DEF rem
    <3> QED
      BY <1>3, <1>7, <3>1 DEF KeepsStones, SameStones
  <2>3. met \in SUBSET Point /\ s.met \subseteq met
    BY <1>1, <1>3, <1>7
  <2>4. CASE rem[h].colour # c
    <3>1. t = [cb |-> [s.cb EXCEPT !.group = add_neighbor(rem, own, h)], met |-> met]
      BY <1>0, <1>7, <2>4 DEF Met, less
    <3>2. KeepsStones(add_neighbor(rem, own, h), gr)
      <4>1. GroupsTyped(rem) /\ DOMAIN rem = DOMAIN gr
        BY <2>2 DEF KeepsStones
      <4> HIDE DEF rem
      <4>2. KeepsStones(add_neighbor(rem, own, h), rem)
        BY <1>3, <1>7, <4>1, NeighborsAdded
      <4> QED
        BY <2>2, <4>1, <4>2 DEF KeepsStones, SameStones
    <3> HIDE DEF t, rem, met
    <3> QED
      BY <1>1, <1>4, <2>3, <3>1, <3>2, MeetingUpdated DEF t
  <2>5. CASE rem[h].colour = c
    <3> DEFINE d == unite_groups(mid, h, own)
    <3>1. t = [cb |-> d, met |-> met]
      BY <1>0, <1>7, <2>5 DEF Met, less
    <3>2. mid = [s.cb EXCEPT !.group = rem]
      OBVIOUS
    <3> HIDE DEF mid, rem
    <3>3. Grouped(mid, q) /\ Regrouped(mid, s.cb) /\ mid.group = rem /\ mid.g = s.cb.g
      BY <1>1, <2>2, <3>2, GroupsUpdated
    <3>4. h # own
      <4>1. own \in s.met \/ (gr[own].stones = {m} /\ gr[h].stones = {k \in Point : s.cb.g[k] = h}
                              /\ n \in gr[h].stones)
        BY <1>1, <1>2, <1>3, <1>7 DEF Grouped, Owned
      <4> QED
        BY <1>2, <1>7, <4>1
    <3>5. h \in DOMAIN mid.group /\ own \in DOMAIN mid.group
          /\ mid.group[h].colour = mid.group[own].colour
      BY <1>3, <1>7, <2>2, <2>5, <3>3 DEF KeepsStones
    <3>6. Grouped(d, q) /\ United(mid, h, own, d)
      BY <3>3, <3>4, <3>5, UniteKeeps
    <3> HIDE DEF d
    <3>7. Regrouped(d, b) /\ IsFast(d) /\ d.g[m] = h
      BY <1>1, <3>3, <3>6 DEF United, Regrouped, Grouped
    <3>8. d \in FastBoard
      BY <3>6, <3>7, RegroupedTyped
    <3>9. t.cb = d /\ t.met = met /\ t \in [cb : FastBoard, met : SUBSET Point]
      BY <2>3, <3>1, <3>8
    <3> QED
      BY <3>6, <3>7, <3>9 DEF Meeting
  <2> QED
    BY <2>4, <2>5
<1> QED
  BY <1>5, <1>6, <1>7

\* Neighbours in turn are neighbours.
LEMMA NeighborsInTurn ==
  ASSUME NEW m \in Point
  PROVE  Sides[m] \in Seq(neighbors_side[m])
<1>1. Sides[m] \in Seq(Point) /\ ToSet(Sides[m]) = neighbors_side[m]
  BY NeighborsOfPoint
<1> DEFINE s == Sides[m]
<1> HIDE DEF s
<1>2. s \in [1..Len(s) -> neighbors_side[m]] /\ Len(s) \in Nat
  BY <1>1 DEF s, ToSet
<1> QED
  BY <1>2 DEF s

\* The neighbours of a new stone, met one by one.
LEMMA MeetFold ==
  ASSUME NEW b \in FastBoard, NEW q, NEW m \in Point, NEW c \in Player, q[m] = c,
         [cb |-> b, met |-> {}] \in Meeting(b, q, m)
  PROVE  LET V == Meeting(b, q, m)
             Step(u, n) == Meet(u, c, m, n)
             s == Sides[m]
         IN \E a \in [0..Len(s) -> V] :
              /\ a[0] = [cb |-> b, met |-> {}]
              /\ \A k \in 1..Len(s) : a[k] = Step(a[k - 1], s[k])
              /\ MeetNeighbors(b, c, m) = a[Len(s)].cb
<1> DEFINE V == Meeting(b, q, m)
           Step(u, n) == Meet(u, c, m, n)
           s == Sides[m]
           base == [cb |-> b, met |-> {}]
           F == [k \in 1..Len(s) |-> [u \in V |-> Step(u, s[k])]]
           One(v, n) == CHOOSE w \in {Step(u, n) : u \in {v}} : TRUE
           h == CHOOSE g : g = [S \in SUBSET (DOMAIN s) |->
                  IF S = {} THEN base ELSE One(g[S \ {Max(S)}], s[Max(S)])]
           a == [k \in 0..Len(s) |-> h[1..k]]
<1>1. /\ s \in Seq(neighbors_side[m]) /\ Len(s) \in Nat /\ DOMAIN s = 1..Len(s)
      /\ \A k \in 1..Len(s) : s[k] \in neighbors_side[m]
  BY NeighborsInTurn
<1>2. base \in V
  OBVIOUS
<1>3. ASSUME NEW u \in V, NEW n \in neighbors_side[m] PROVE Step(u, n) \in V
  BY <1>3, MeetKeeps
<1>4. MeetNeighbors(b, c, m) = h[DOMAIN s].cb
  BY DEF MeetNeighbors, FoldSteps, FoldLeft, MapThenFoldSet
<1>5. \A v, n : One(v, n) = Step(v, n)
  <2> TAKE v, n
  <2>1. {Step(u, n) : u \in {v}} = {Step(v, n)}
    OBVIOUS
  <2> HIDE DEF Step
  <2> QED
    BY <2>1
<1>6. F \in [1..Len(s) -> [V -> V]]
  BY <1>1, <1>3
<1> HIDE DEF V, Step, s, base, One
<1>7. PICK g : IsFold(V, Len(s), base, F, g)
  <2> HIDE DEF F
  <2> QED
    BY <1>1, <1>2, <1>6, FoldExists
<1>8. h = [S \in SUBSET (DOMAIN s) |->
             IF S = {} THEN base ELSE One(h[S \ {Max(S)}], s[Max(S)])]
  <2>1. ASSUME NEW S \in SUBSET (1..Len(s)), S # {}
        PROVE  g[S] = One(g[S \ {Max(S)}], s[Max(S)])
    <3>1. Max(S) \in 1..Len(s)
      BY <1>1, <2>1, MaxOfRange
    <3>2. g[S \ {Max(S)}] \in V
      BY <1>7, <3>1 DEF IsFold
    <3>3. g[S] = F[Max(S)][g[S \ {Max(S)}]]
      BY <1>7, <2>1 DEF IsFold
    <3> QED
      BY <1>5, <3>1, <3>2, <3>3
  <2>2. g = [S \in SUBSET (DOMAIN s) |->
               IF S = {} THEN base ELSE One(g[S \ {Max(S)}], s[Max(S)])]
    BY <1>1, <1>7, <2>1 DEF IsFold
  <2> QED
    BY <2>2, Zenon
<1> HIDE DEF h, F
<1>9. h[{}] = base
  BY <1>8
<1>10. ASSUME NEW k \in 1..Len(s) PROVE h[1..k] = Step(h[1..(k - 1)], s[k])
  <2>1. /\ 1..k # {} /\ 1..k \in SUBSET (1..Len(s))
        /\ Max(1..k) = k /\ (1..k) \ {k} = 1..(k - 1)
    BY <1>1, MaxOfInitial
  <2> QED
    BY <1>1, <1>5, <1>8, <2>1
<1>11. \A k \in 0..Len(s) : h[1..k] \in V
  <2>1. \A k \in 1..Len(s) : h[1..(k - 1)] \in V => h[1..k] \in V
    BY <1>1, <1>3, <1>10
  <2> QED
    BY <1>1, <1>2, <1>9, <2>1, FoldValues
<1>12. a \in [0..Len(s) -> V] /\ a[0] = base /\ MeetNeighbors(b, c, m) = a[Len(s)].cb
  <2>1. 1..0 = {}
    OBVIOUS
  <2> QED
    BY <1>1, <1>4, <1>9, <1>11, <2>1
<1>13. \A k \in 1..Len(s) : a[k] = Step(a[k - 1], s[k])
  BY <1>1, <1>10
<1> HIDE DEF a
<1> QED
  BY <1>12, <1>13 DEF V, Step, s, base

\* The board with the new stone alone in its group.
Alone(b, c, m) ==
  [b EXCEPT !.g[m] = m,
            !.group = [h \in DOMAIN @ \cup {m} |->
                         IF h = m THEN NewGroup(c, m, Len(b.unique_groups) + 1) ELSE @[h]],
            !.unique_groups = Append(@, m)]

LEMMA AloneKeeps ==
  ASSUME NEW b, NEW q, Grouped(b, q), NEW m \in Point, q[m] = EMPTY, NEW c \in Player,
         NEW d, d = Alone(b, c, m)
  PROVE  /\ Grouped(d, With(q, m, c)) /\ Regrouped(d, b)
         /\ d.g[m] = m /\ d.group[m].stones = {m}
<1> DEFINE ug == b.unique_groups
           n == Len(ug)
           new == NewGroup(c, m, n + 1)
           q1 == With(q, m, c)
<1>1. /\ IsFast(b) /\ GroupsTyped(b.group) /\ Indexed(b.group, ug) /\ Owned(q, b.g, b.group)
  BY DEF Grouped
<1>2. /\ IsFast(d) /\ Regrouped(d, b)
      /\ d.g = [b.g EXCEPT ![m] = m] /\ d.unique_groups = Append(ug, m)
  BY <1>1 DEF IsFast, Regrouped, Alone
<1>3. /\ IsMap(d.group, DOMAIN b.group \cup {m}) /\ d.group[m] = new
      /\ \A h \in DOMAIN b.group \ {m} : d.group[h] = b.group[h]
  BY <1>1 DEF IsFast, Alone, IsMap
<1>4. /\ n \in Nat /\ ug \in Seq(Point) /\ DOMAIN b.group \subseteq Point
      /\ \A h \in DOMAIN b.group : b.group[h] \in GroupType
  BY <1>1 DEF Indexed, GroupsTyped
<1>5. m \notin DOMAIN b.group
  BY <1>1, Marks DEF Owned
<1>6. /\ new \in GroupType /\ new.colour = c /\ new.stones = {m}
      /\ new.unique_groups_idx = n + 1
  BY <1>4, PointsAreFinite DEF NewGroup, GroupType
<1> HIDE DEF new
<1>7. /\ q1 \in [Point -> Stones] /\ \A k \in Point : q1[k] = IF k = m THEN c ELSE q[k]
  <2>1. q \in [Point -> Stones] /\ c \in Stones
    BY <1>1 DEF Owned, Stones
  <2> QED
    BY <2>1, WithTyped
<1>8. GroupsTyped(d.group)
  BY <1>3, <1>4, <1>6 DEF GroupsTyped, IsMap
<1>9. DOMAIN d.group = DOMAIN b.group \cup {m}
  BY <1>3 DEF IsMap
<1>10. Indexed(d.group, d.unique_groups)
  <2>1. /\ d.unique_groups \in Seq(Point) /\ Len(d.unique_groups) = n + 1
        /\ d.unique_groups[n + 1] = m
        /\ \A i \in 1..n : d.unique_groups[i] = ug[i]
    BY <1>2, <1>4
  <2>2. ASSUME NEW h \in DOMAIN b.group
        PROVE  b.group[h].unique_groups_idx \in 1..n /\ ug[b.group[h].unique_groups_idx] = h
    BY <1>1 DEF Indexed
  <2>3. ASSUME NEW i \in 1..n
        PROVE  ug[i] \in DOMAIN b.group /\ b.group[ug[i]].unique_groups_idx = i
    BY <1>1 DEF Indexed
  <2> HIDE DEF n, ug
  <2>4. ASSUME NEW h \in DOMAIN d.group
        PROVE  /\ d.group[h].unique_groups_idx \in 1..(n + 1)
               /\ d.unique_groups[d.group[h].unique_groups_idx] = h
    <3>1. CASE h = m
      BY <1>3, <1>4, <1>6, <2>1, <3>1
    <3>2. CASE h # m
      <4> DEFINE j == b.group[h].unique_groups_idx
      <4>1. h \in DOMAIN b.group /\ d.group[h] = b.group[h]
        BY <1>3, <1>9, <3>2
      <4>2. j \in 1..n /\ j \in 1..(n + 1) /\ ug[j] = h
        BY <1>4, <2>2, <4>1
      <4>3. d.unique_groups[j] = h
        BY <2>1, <4>2
      <4> QED
        BY <4>1, <4>2, <4>3
    <3> QED
      BY <3>1, <3>2
  <2>5. ASSUME NEW i \in 1..(n + 1)
        PROVE  /\ d.unique_groups[i] \in DOMAIN d.group
               /\ d.group[d.unique_groups[i]].unique_groups_idx = i
    <3>1. CASE i = n + 1
      BY <1>3, <1>6, <1>9, <2>1, <3>1
    <3>2. CASE i # n + 1
      <4>1. i \in 1..n
        BY <1>4, <3>2
      <4> QED
        BY <1>3, <1>5, <1>9, <2>1, <2>3, <4>1
    <3> QED
      BY <3>1, <3>2
  <2> QED
    BY <2>1, <2>4, <2>5 DEF Indexed
<1>11. Owned(q1, d.g, d.group)
  <2>1. /\ d.g \in [Point -> Point \cup {NONE}]
        /\ \A k \in Point : d.g[k] = IF k = m THEN m ELSE b.g[k]
    BY <1>1, <1>2 DEF Owned
  <2>2. b.g[m] = NONE
    BY <1>1 DEF Owned
  <2>3. \A k \in Point : d.g[k] = NONE <=> q1[k] = EMPTY
    BY <1>1, <1>7, <2>1, Marks DEF Owned
  <2>4. ASSUME NEW k \in Point, d.g[k] # NONE
        PROVE  d.g[k] \in DOMAIN d.group /\ d.group[d.g[k]].colour = q1[k]
    <3>1. CASE k = m
      BY <1>3, <1>6, <1>7, <1>9, <2>1, <3>1
    <3>2. CASE k # m
      <4>1. b.g[k] \in DOMAIN b.group /\ b.group[b.g[k]].colour = q[k]
        BY <1>1, <2>1, <2>4, <3>2 DEF Owned
      <4> QED
        BY <1>3, <1>5, <1>7, <1>9, <2>1, <3>2, <4>1
    <3> QED
      BY <3>1, <3>2
  <2>5. ASSUME NEW h \in DOMAIN d.group
        PROVE  d.g[h] = h /\ d.group[h].stones = {k \in Point : d.g[k] = h}
    <3>1. CASE h = m
      <4>1. \A k \in Point : b.g[k] # m
        BY <1>1, <1>5, Marks DEF Owned
      <4>2. {k \in Point : d.g[k] = m} = {m}
        BY <2>1, <4>1
      <4> QED
        BY <1>3, <1>6, <2>1, <3>1, <4>2
    <3>2. CASE h # m
      <4>1. b.g[h] = h /\ b.group[h].stones = {k \in Point : b.g[k] = h} /\ h \in Point
            /\ d.group[h] = b.group[h]
        BY <1>1, <1>3, <1>4, <1>9, <3>2 DEF Owned
      <4>2. {k \in Point : d.g[k] = h} = {k \in Point : b.g[k] = h}
        BY <2>1, <2>2, <3>2, <4>1, Marks
      <4> QED
        BY <2>1, <3>2, <4>1, <4>2
    <3> QED
      BY <3>1, <3>2
  <2> QED
    BY <1>7, <2>1, <2>3, <2>4, <2>5 DEF Owned
<1>12. Grouped(d, q1)
  BY <1>2, <1>8, <1>10, <1>11 DEF Grouped
<1>13. d.g[m] = m
  BY <1>1, <1>2 DEF Owned
<1> QED
  BY <1>2, <1>3, <1>6, <1>12, <1>13

-----------------------------------------------------------------------------
(* The liberties and the neighbours of groups, as a new stone meets its neighbours. *)
\* Points tied to one another, as neighbours are.
IsTies(E) ==
  /\ E \in [Point -> SUBSET Point]
  /\ \A s, n \in Point : n \in E[s] => s \in E[n] /\ n # s

\* A stone of each group tied to one of the other.
Tied(g, E, h, k) == \E s \in Point : g[s] = h /\ \E n \in E[s] : g[n] = k

\* The liberties of each group are counted, none below the lowest recorded.
GroupCounted(k) ==
  k.liberties = Cardinality(k.ls) /\ \A n \in k.ls : k.liberties_min_coord <= n

Counted(gr) == \A h \in DOMAIN gr : GroupCounted(gr[h])

\* Stones of a colour that are tied are of one group.
Whole(q, g, E) ==
  \A s \in Point : \A n \in E[s] : q[s] # EMPTY /\ q[n] = q[s] => g[n] = g[s]

\* Nor are stones of one group unless ties join them.
Chained(q, g, gr, E) ==
  /\ Whole(q, g, E)
  /\ \A h \in DOMAIN gr : \A S \in SUBSET gr[h].stones :
       S # {} /\ (\A s \in S : E[s] \cap gr[h].stones \subseteq S) => S = gr[h].stones

\* The neighbours of each group are those of the other colour it is tied to.
Bordered(g, gr, E) ==
  \A h \in DOMAIN gr : \A k :
    k \in gr[h].neighbors <=> k \in DOMAIN gr /\ gr[k].colour # gr[h].colour /\ Tied(g, E, h, k)

\* The groups of q when a new stone at m has met those of met, which E ties it to: the
\* others have m as a liberty still.
Halfway(q, m, E, g, gr, met) ==
  /\ Counted(gr) /\ Chained(q, g, gr, E) /\ Bordered(g, gr, E)
  /\ \A h \in DOMAIN gr : h \in met <=> \E k \in E[m] : g[k] = h
  /\ \A h \in DOMAIN gr : \A x \in Point :
       x \in gr[h].ls <=> IF x = m THEN h \notin met /\ \E k \in neighbors_side[m] : g[k] = h
                                   ELSE q[x] = EMPTY /\ \E k \in E[x] : g[k] = h

\* F has the ties of E, and one of m and n.
OneMore(E, m, n, F) ==
  \A s, k \in Point : k \in F[s] <=> k \in E[s] \/ (s = m /\ k = n) \/ (s = n /\ k = m)

Fewer(E, F) == \A s \in Point : E[s] \subseteq F[s]

\* Groups of the same stones.
SameShapes(gr1, gr) ==
  DOMAIN gr1 = DOMAIN gr /\ \A h \in DOMAIN gr : gr1[h].stones = gr[h].stones

\* u and v differ in their liberties at most.
SameBorder(u, v) == u.colour = v.colour /\ u.stones = v.stones /\ u.neighbors = v.neighbors

\* Liberties are counted as they are added.
LEMMA LibertiesCounted ==
  ASSUME NEW old \in GroupType, NEW S \in SUBSET Point, NEW k, k = add_liberty(old, S)
  PROVE  /\ k \in GroupType /\ SameBorder(k, old) /\ k.ls = old.ls \cup S
         /\ k.unique_groups_idx = old.unique_groups_idx
         /\ GroupCounted(old) => GroupCounted(k)
<1>0. WithLiberties(k, old, S)
  BY LibertyAdded
<1>1. /\ k.colour = old.colour /\ k.stones = old.stones
      /\ k.neighbors = old.neighbors /\ k.ls = old.ls \cup S
      /\ k.unique_groups_idx = old.unique_groups_idx
  BY <1>0 DEF WithLiberties
<1>2. k.liberties = old.liberties + Cardinality(S \ old.ls)
  BY <1>0 DEF WithLiberties
<1>3. \A n \in k.ls : n \in old.ls \/ k.liberties_min_coord <= n
  BY <1>0 DEF WithLiberties
<1>4. k.liberties_min_coord <= old.liberties_min_coord /\ k \in GroupType
  BY <1>0 DEF WithLiberties
<1>5. ASSUME GroupCounted(old) PROVE GroupCounted(k)
  <2>1. old.ls \in SUBSET Point /\ k.ls \in SUBSET Point
    BY <1>4 DEF GroupType
  <2>2. Cardinality(old.ls \cup S) = Cardinality(old.ls) + Cardinality(S \ old.ls)
    <3> DEFINE L == old.ls
               R == S \ L
    <3>1. L \in SUBSET Point /\ R \in SUBSET Point /\ L \cap R = {} /\ L \cup S = L \cup R
      BY <2>1
    <3> HIDE DEF L, R
    <3>2. Cardinality(L \cup R) = Cardinality(L) + Cardinality(R) - Cardinality(L \cap R)
      BY <3>1, PointsAreFinite, FS_Union
    <3>3. Cardinality(L \cap R) = 0 /\ Cardinality(L) \in Nat /\ Cardinality(R) \in Nat
      BY <3>1, PointsAreFinite, FS_EmptySet
    <3>4. Cardinality(L \cup R) = Cardinality(L) + Cardinality(R)
      BY <3>2, <3>3
    <3> QED
      BY <3>1, <3>4 DEF L, R
  <2>3. ASSUME NEW n \in k.ls PROVE k.liberties_min_coord <= n
    <3>1. k.liberties_min_coord \in Nat /\ old.liberties_min_coord \in Nat /\ n \in Nat
      BY <1>4, <2>1 DEF GroupType, Point
    <3> QED
      BY <1>3, <1>4, <1>5, <3>1 DEF GroupCounted
  <2> QED
    BY <1>1, <1>2, <1>5, <2>2, <2>3 DEF GroupCounted
<1> QED
  BY <1>1, <1>4, <1>5 DEF SameBorder

LEMMA BorderedAlso ==
  ASSUME NEW g, NEW gr, NEW E, Bordered(g, gr, E),
         NEW gr1, DOMAIN gr1 = DOMAIN gr, \A h \in DOMAIN gr : SameBorder(gr1[h], gr[h]),
         NEW F, \A h, k \in DOMAIN gr : Tied(g, F, h, k) <=> Tied(g, E, h, k)
  PROVE  Bordered(g, gr1, F)
<1> SUFFICES ASSUME NEW h \in DOMAIN gr, NEW k
             PROVE  k \in gr1[h].neighbors <=>
                      k \in DOMAIN gr1 /\ gr1[k].colour # gr1[h].colour /\ Tied(g, F, h, k)
  BY DEF Bordered
<1>1. k \in gr[h].neighbors <=>
        k \in DOMAIN gr /\ gr[k].colour # gr[h].colour /\ Tied(g, E, h, k)
  BY DEF Bordered
<1>2. SameBorder(gr1[h], gr[h]) /\ (k \in DOMAIN gr => SameBorder(gr1[k], gr[k]))
  OBVIOUS
<1> QED
  BY <1>1, <1>2 DEF SameBorder

\* More ties join what is joined already.
LEMMA ChainedAlso ==
  ASSUME NEW q, NEW g, NEW gr, NEW E, Chained(q, g, gr, E), GroupsTyped(gr),
         NEW gr1, SameShapes(gr1, gr), NEW F, Fewer(E, F), Whole(q, g, F)
  PROVE  Chained(q, g, gr1, F)
<1>0. \A h \in DOMAIN gr : gr[h].stones \subseteq Point
  BY DEF GroupsTyped, GroupType
<1>1. ASSUME NEW h \in DOMAIN gr, NEW S \in SUBSET gr[h].stones, S # {},
             \A s \in S : F[s] \cap gr[h].stones \subseteq S
      PROVE  S = gr[h].stones
  <2>1. \A s \in S : E[s] \cap gr[h].stones \subseteq S
    BY <1>0, <1>1 DEF Fewer
  <2> QED
    BY <1>1, <2>1 DEF Chained
<1> QED
  BY <1>1 DEF Chained, SameShapes

\* A free neighbour of the new stone is a liberty of its group.
LEMMA HalfwayFree ==
  ASSUME NEW q, NEW g, NEW gr, GroupsTyped(gr), Owned(q, g, gr),
         NEW m \in Point, q[m] # EMPTY, NEW n \in neighbors_side[m], n \in Point, q[n] = EMPTY,
         NEW E, IsTies(E), NEW F, IsTies(F), OneMore(E, m, n, F),
         NEW met, Halfway(q, m, E, g, gr, met),
         NEW gr1, gr1 = [gr EXCEPT ![g[m]] = add_liberty(gr[g[m]], {n})]
  PROVE  Halfway(q, m, F, g, gr1, met)
<1> DEFINE own == g[m]
           old == gr[own]
           one == {n}
           new == add_liberty(old, one)
<1>1. /\ own \in DOMAIN gr /\ gr[own] \in GroupType /\ g[n] = NONE /\ n # m
      /\ \A h \in DOMAIN gr : h \in Point /\ h # NONE /\ gr[h] \in GroupType
  BY NeighborsAreMutual, Marks DEF Owned, GroupsTyped
<1>2. /\ SameBorder(new, old) /\ new.ls = old.ls \cup one
      /\ GroupCounted(old) => GroupCounted(new)
  <2>1. one \in SUBSET Point /\ old \in GroupType
    BY <1>1
  <2> HIDE DEF old, one
  <2> QED
    BY <2>1, LibertiesCounted
<1>3. /\ DOMAIN gr1 = DOMAIN gr /\ gr1[own] = new
      /\ \A h \in DOMAIN gr \ {own} : gr1[h] = gr[h]
      /\ \A h \in DOMAIN gr : SameBorder(gr1[h], gr[h])
  <2>1. /\ DOMAIN gr1 = DOMAIN gr /\ gr1[own] = new
        /\ \A h \in DOMAIN gr \ {own} : gr1[h] = gr[h]
    BY <1>1 DEF GroupsTyped
  <2> HIDE DEF own, new
  <2> QED
    BY <1>2, <2>1 DEF SameBorder
<1> HIDE DEF new
<1>4. Counted(gr1)
  BY <1>2, <1>3 DEF Halfway, Counted
<1>5. \A h, k \in DOMAIN gr : Tied(g, F, h, k) <=> Tied(g, E, h, k)
  BY <1>1 DEF Tied, OneMore, IsTies
<1>6. Bordered(g, gr1, F)
  BY <1>3, <1>5, BorderedAlso DEF Halfway
<1>7. Chained(q, g, gr1, F)
  <2>1. Whole(q, g, F)
    BY <1>1 DEF OneMore, IsTies, Halfway, Chained, Whole
  <2>2. Fewer(E, F)
    BY DEF OneMore, IsTies, Fewer
  <2>3. SameShapes(gr1, gr)
    BY <1>3 DEF SameBorder, SameShapes
  <2> QED
    BY <2>1, <2>2, <2>3, ChainedAlso DEF Halfway
<1>8. \A h \in DOMAIN gr : h \in met <=> \E k \in F[m] : g[k] = h
  BY <1>1 DEF OneMore, IsTies, Halfway
<1>9. ASSUME NEW h \in DOMAIN gr, NEW x \in Point
      PROVE  x \in gr1[h].ls <=> IF x = m THEN h \notin met /\ \E k \in neighbors_side[m] : g[k] = h
                                 ELSE q[x] = EMPTY /\ \E k \in F[x] : g[k] = h
  <2>1. x \in gr[h].ls <=> IF x = m THEN h \notin met /\ \E k \in neighbors_side[m] : g[k] = h
                           ELSE q[x] = EMPTY /\ \E k \in E[x] : g[k] = h
    BY DEF Halfway
  <2>2. CASE x = n
    <3>1. (\E k \in F[x] : g[k] = h) <=> h = own \/ (\E k \in E[x] : g[k] = h)
      BY <2>2 DEF OneMore, IsTies
    <3> QED
      BY <1>1, <1>2, <1>3, <2>1, <2>2, <3>1
  <2>3. CASE x # n
    <3>1. x # m => ((\E k \in F[x] : g[k] = h) <=> (\E k \in E[x] : g[k] = h))
      BY <2>3 DEF OneMore, IsTies
    <3>2. x \in gr1[h].ls <=> x \in gr[h].ls
      BY <1>2, <1>3, <2>3
    <3> QED
      BY <2>1, <3>1, <3>2
  <2> QED
    BY <2>2, <2>3
<1> QED
  BY <1>3, <1>4, <1>6, <1>7, <1>8, <1>9 DEF Halfway

\* A group met already is met again to no effect.
LEMMA HalfwayAgain ==
  ASSUME NEW q, NEW g, NEW gr, GroupsTyped(gr), Owned(q, g, gr),
         NEW m \in Point, q[m] # EMPTY, NEW n \in neighbors_side[m], n \in Point, q[n] # EMPTY,
         NEW E, IsTies(E), NEW F, IsTies(F), OneMore(E, m, n, F),
         NEW met, Halfway(q, m, E, g, gr, met), g[n] \in met
  PROVE  Halfway(q, m, F, g, gr, met)
<1> DEFINE own == g[m]
           h == g[n]
<1>1. /\ own \in DOMAIN gr /\ h \in DOMAIN gr /\ n # m /\ gr[own].colour = q[m] /\ gr[h].colour = q[n]
      /\ \A k \in DOMAIN gr : k \in Point /\ k # NONE /\ gr[k] \in GroupType
  BY NeighborsAreMutual, Marks DEF Owned, GroupsTyped
<1>2. PICK x \in E[m] : g[x] = h
  BY <1>1 DEF Halfway
<1>3. x \in Point /\ m \in E[x] /\ q[x] = q[n]
  BY <1>1, <1>2, Marks DEF IsTies, Owned
<1>4. q[n] = q[m] => h = own
  BY <1>2, <1>3 DEF Halfway, Chained, Whole
<1>5. \A j, k \in DOMAIN gr : Tied(g, F, j, k) <=> Tied(g, E, j, k)
  BY <1>2, <1>3 DEF Tied, OneMore, IsTies
<1>6. Bordered(g, gr, F)
  BY <1>5 DEF Halfway, Bordered
<1>7. Chained(q, g, gr, F)
  <2>1. Whole(q, g, F)
    BY <1>4 DEF OneMore, IsTies, Halfway, Chained, Whole
  <2>2. Fewer(E, F)
    BY DEF OneMore, IsTies, Fewer
  <2>3. SameShapes(gr, gr)
    BY DEF SameShapes
  <2> QED
    BY <2>1, <2>2, <2>3, ChainedAlso DEF Halfway
<1>8. \A k \in DOMAIN gr : k \in met <=> \E y \in F[m] : g[y] = k
  BY <1>1 DEF OneMore, IsTies, Halfway
<1>9. \A k \in DOMAIN gr : \A y \in Point :
        y # m /\ q[y] = EMPTY => ((\E z \in F[y] : g[z] = k) <=> (\E z \in E[y] : g[z] = k))
  BY DEF OneMore, IsTies
<1> QED
  BY <1>6, <1>7, <1>8, <1>9 DEF Halfway

\* A liberty taken is counted no more.
LEMMA LibertyTaken ==
  ASSUME NEW old \in GroupType, NEW m \in old.ls, GroupCounted(old),
         NEW k, k = rem_liberty_unchecked(old, m)
  PROVE  k \in GroupType /\ SameBorder(k, old) /\ k.ls = old.ls \ {m} /\ GroupCounted(k)
<1>1. k \in GroupType
  BY LibertyRemoved
<1>2. /\ SameBorder(k, old) /\ k.ls = old.ls \ {m} /\ k.liberties = old.liberties - 1
      /\ k.liberties_min_coord = old.liberties_min_coord
  BY DEF GroupType, SameBorder, rem_liberty_unchecked
<1>3. Cardinality(old.ls \ {m}) = Cardinality(old.ls) - 1
  BY PointsAreFinite, FS_RemoveElement DEF GroupType
<1> QED
  BY <1>1, <1>2, <1>3 DEF GroupCounted

LEMMA TiedBoth ==
  ASSUME NEW g, NEW E, IsTies(E), NEW h, NEW k
  PROVE  Tied(g, E, h, k) => Tied(g, E, k, h)
BY DEF Tied, IsTies

\* gr1 has the groups of gr, of which a and b are made neighbours.
Bound(gr1, gr, a, b) ==
  /\ DOMAIN gr1 = DOMAIN gr
  /\ \A k \in DOMAIN gr :
       /\ gr1[k].colour = gr[k].colour /\ gr1[k].stones = gr[k].stones
       /\ gr1[k].ls = gr[k].ls /\ gr1[k].liberties = gr[k].liberties
       /\ gr1[k].liberties_min_coord = gr[k].liberties_min_coord
       /\ \A j : j \in gr1[k].neighbors <=>
            \/ j \in gr[k].neighbors \/ (k = a /\ j = b) \/ (k = b /\ j = a)

LEMMA NeighborsMade ==
  ASSUME NEW gr, GroupsTyped(gr), NEW a \in DOMAIN gr, NEW b \in DOMAIN gr, a # b,
         b \in gr[a].neighbors <=> a \in gr[b].neighbors
  PROVE  Bound(add_neighbor(gr, a, b), gr, a, b)
<1> DEFINE gr1 == add_neighbor(gr, a, b)
<1>1. CASE b \in gr[a].neighbors
  BY <1>1 DEF add_neighbor, Bound
<1>2. CASE b \notin gr[a].neighbors
  <2>1. gr1 = [gr EXCEPT ![a].neighbors = @ \cup {b}, ![b].neighbors = @ \cup {a}]
    BY <1>2 DEF add_neighbor
  <2> HIDE DEF gr1
  <2> QED
    BY <2>1 DEF GroupsTyped, GroupType, Bound, gr1
<1> QED
  BY <1>1, <1>2

\* The group of a neighbour of the other colour loses the liberty at m, and is made a
\* neighbour of the group of the new stone.
LEMMA HalfwayOther ==
  ASSUME NEW q, NEW g, NEW gr, GroupsTyped(gr), Owned(q, g, gr),
         NEW m \in Point, q[m] # EMPTY, NEW n \in neighbors_side[m], n \in Point, q[n] # EMPTY,
         gr[g[n]].colour # gr[g[m]].colour,
         NEW E, IsTies(E), NEW F, IsTies(F), OneMore(E, m, n, F),
         NEW met, Halfway(q, m, E, g, gr, met), g[n] \notin met,
         NEW gr1, gr1 = add_neighbor([gr EXCEPT ![g[n]] = rem_liberty_unchecked(gr[g[n]], m)], g[m], g[n])
  PROVE  Halfway(q, m, F, g, gr1, met \cup {g[n]})
<1> DEFINE own == g[m]
           h == g[n]
           less == rem_liberty_unchecked(gr[h], m)
           rem == [gr EXCEPT ![h] = less]
<1>1. /\ own \in DOMAIN gr /\ h \in DOMAIN gr /\ n # m /\ h # own /\ q[n] # q[m]
      /\ gr[own].colour = q[m] /\ gr[h].colour = q[n]
      /\ \A k \in DOMAIN gr : k \in Point /\ k # NONE /\ gr[k] \in GroupType
  BY NeighborsAreMutual, Marks DEF Owned, GroupsTyped
<1>2. /\ less \in GroupType /\ SameBorder(less, gr[h]) /\ less.ls = gr[h].ls \ {m}
      /\ GroupCounted(less)
  <2>1. m \in gr[h].ls
    BY <1>1 DEF Halfway
  <2> QED
    BY <1>1, <2>1, LibertyTaken DEF Halfway, Counted
<1>3. /\ DOMAIN rem = DOMAIN gr /\ GroupsTyped(rem) /\ rem[h] = less
      /\ \A k \in DOMAIN gr \ {h} : rem[k] = gr[k]
  BY <1>1, <1>2 DEF GroupsTyped
<1> HIDE DEF less
<1>4. /\ DOMAIN gr1 = DOMAIN gr
      /\ \A k \in DOMAIN gr :
           /\ gr1[k].colour = gr[k].colour /\ gr1[k].stones = gr[k].stones
           /\ gr1[k].ls = rem[k].ls /\ gr1[k].liberties = rem[k].liberties
           /\ gr1[k].liberties_min_coord = rem[k].liberties_min_coord
           /\ \A j : j \in gr1[k].neighbors <=>
                \/ j \in gr[k].neighbors \/ (k = own /\ j = h) \/ (k = h /\ j = own)
  <2>1. \A k \in DOMAIN gr : SameBorder(rem[k], gr[k])
    BY <1>2, <1>3 DEF SameBorder
  <2>2. own \in gr[h].neighbors <=> h \in gr[own].neighbors
    BY <1>1, TiedBoth DEF Halfway, Bordered
  <2>3. gr1 = add_neighbor(rem, own, h)
    BY DEF less
  <2> HIDE DEF rem, own, h
  <2>4. own \in DOMAIN rem /\ h \in DOMAIN rem /\ own # h
        /\ (h \in rem[own].neighbors <=> own \in rem[h].neighbors)
    <3>1. own \in DOMAIN gr /\ h \in DOMAIN gr /\ own # h
      BY <1>1
    <3>2. rem[own].neighbors = gr[own].neighbors /\ rem[h].neighbors = gr[h].neighbors
      BY <2>1, <3>1 DEF SameBorder
    <3>3. DOMAIN rem = DOMAIN gr
      BY <1>3
    <3> QED
      BY <2>2, <3>1, <3>2, <3>3
  <2>5. Bound(gr1, rem, own, h)
    BY <1>3, <2>3, <2>4, NeighborsMade
  <2>6. DOMAIN gr1 = DOMAIN gr
    BY <1>3, <2>5 DEF Bound
  <2> SUFFICES ASSUME NEW k \in DOMAIN gr
      PROVE  /\ gr1[k].colour = gr[k].colour /\ gr1[k].stones = gr[k].stones
             /\ gr1[k].ls = rem[k].ls /\ gr1[k].liberties = rem[k].liberties
             /\ gr1[k].liberties_min_coord = rem[k].liberties_min_coord
             /\ \A j : j \in gr1[k].neighbors <=>
                  \/ j \in gr[k].neighbors \/ (k = own /\ j = h) \/ (k = h /\ j = own)
    BY <2>6
  <2>7. rem[k].colour = gr[k].colour /\ rem[k].stones = gr[k].stones
        /\ rem[k].neighbors = gr[k].neighbors
    BY <2>1 DEF SameBorder
  <2>8. k \in DOMAIN rem
    BY <1>3
  <2>9. /\ gr1[k].colour = rem[k].colour /\ gr1[k].stones = rem[k].stones
        /\ gr1[k].ls = rem[k].ls /\ gr1[k].liberties = rem[k].liberties
        /\ gr1[k].liberties_min_coord = rem[k].liberties_min_coord
    BY <2>5, <2>8 DEF Bound
  <2>10. \A j : j \in gr1[k].neighbors <=>
           \/ j \in rem[k].neighbors \/ (k = own /\ j = h) \/ (k = h /\ j = own)
    BY <2>5, <2>8 DEF Bound
  <2>11. \A j : j \in gr1[k].neighbors <=>
           \/ j \in gr[k].neighbors \/ (k = own /\ j = h) \/ (k = h /\ j = own)
    BY <2>7, <2>10
  <2> QED
    BY <2>7, <2>9, <2>11
<1>5. Counted(gr1)
  <2>1. \A k \in DOMAIN gr : GroupCounted(rem[k])
    BY <1>2, <1>3 DEF Halfway, Counted
  <2>2. ASSUME NEW k \in DOMAIN gr PROVE GroupCounted(gr1[k])
    <3>1. /\ gr1[k].ls = rem[k].ls /\ gr1[k].liberties = rem[k].liberties
          /\ gr1[k].liberties_min_coord = rem[k].liberties_min_coord
      BY <1>4
    <3>2. GroupCounted(rem[k])
      BY <2>1
    <3> HIDE DEF rem
    <3> QED
      BY <3>1, <3>2 DEF GroupCounted
  <2>3. DOMAIN gr1 = DOMAIN gr
    BY <1>4
  <2> QED
    BY <2>2, <2>3 DEF Counted
<1> HIDE DEF rem
<1>6. \A j, k \in DOMAIN gr : Tied(g, F, j, k) <=>
        Tied(g, E, j, k) \/ (j = own /\ k = h) \/ (j = h /\ k = own)
  BY <1>1 DEF Tied, OneMore, IsTies
<1>7. Bordered(g, gr1, F)
  <2> SUFFICES ASSUME NEW j \in DOMAIN gr, NEW k
               PROVE  k \in gr1[j].neighbors <=>
                        k \in DOMAIN gr1 /\ gr1[k].colour # gr1[j].colour /\ Tied(g, F, j, k)
    BY <1>4 DEF Bordered
  <2>1. k \in gr[j].neighbors <=>
          k \in DOMAIN gr /\ gr[k].colour # gr[j].colour /\ Tied(g, E, j, k)
    BY DEF Halfway, Bordered
  <2>2. k \in gr1[j].neighbors <=> k \in gr[j].neighbors \/ (j = own /\ k = h) \/ (j = h /\ k = own)
    BY <1>4
  <2>3. CASE k \in DOMAIN gr
    <3>1. /\ gr1[j].colour = gr[j].colour /\ gr1[k].colour = gr[k].colour
          /\ (j = own /\ k = h) \/ (j = h /\ k = own) => gr[k].colour # gr[j].colour
      BY <1>1, <1>4, <2>3
    <3>2. Tied(g, F, j, k) <=> Tied(g, E, j, k) \/ (j = own /\ k = h) \/ (j = h /\ k = own)
      BY <1>6, <2>3
    <3> HIDE DEF own, h
    <3> QED
      BY <1>4, <2>1, <2>2, <2>3, <3>1, <3>2
  <2>4. CASE k \notin DOMAIN gr
    BY <1>1, <1>4, <2>1, <2>2, <2>4
  <2> QED
    BY <2>3, <2>4
<1>8. Chained(q, g, gr1, F)
  <2>1. Whole(q, g, F)
    BY <1>1 DEF OneMore, IsTies, Halfway, Chained, Whole
  <2>2. Fewer(E, F)
    BY DEF OneMore, IsTies, Fewer
  <2>3. SameShapes(gr1, gr)
    BY <1>4 DEF SameShapes
  <2> QED
    BY <2>1, <2>2, <2>3, ChainedAlso DEF Halfway
<1>9. \A k \in DOMAIN gr : k \in met \cup {h} <=> \E y \in F[m] : g[y] = k
  BY <1>1 DEF OneMore, IsTies, Halfway
<1>10. ASSUME NEW k \in DOMAIN gr, NEW x \in Point
       PROVE  x \in gr1[k].ls <=>
                IF x = m THEN k \notin met \cup {h} /\ \E y \in neighbors_side[m] : g[y] = k
                ELSE q[x] = EMPTY /\ \E y \in F[x] : g[y] = k
  <2>1. x \in gr[k].ls <=> IF x = m THEN k \notin met /\ \E y \in neighbors_side[m] : g[y] = k
                           ELSE q[x] = EMPTY /\ \E y \in E[x] : g[y] = k
    BY DEF Halfway
  <2>2. x # m /\ q[x] = EMPTY => ((\E y \in F[x] : g[y] = k) <=> (\E y \in E[x] : g[y] = k))
    BY DEF OneMore, IsTies
  <2>3. x \in gr1[k].ls <=> x \in gr[k].ls /\ ~ (k = h /\ x = m)
    <3>1. gr1[k].ls = rem[k].ls /\ rem[k].ls = IF k = h THEN gr[h].ls \ {m} ELSE gr[k].ls
      BY <1>2, <1>3, <1>4
    <3> HIDE DEF h
    <3> QED
      BY <3>1
  <2> QED
    BY <2>1, <2>2, <2>3
<1> QED
  BY <1>4, <1>5, <1>7, <1>8, <1>9, <1>10 DEF Halfway

\* The neighbours of groups are neighbours of one another, not of themselves.
MutualBorders(gr) ==
  \A h \in DOMAIN gr : h \notin gr[h].neighbors /\ 
    \A k : k \in gr[h].neighbors => k \in DOMAIN gr /\ h \in gr[k].neighbors

\* The group gone is united to keep.
Merged(g1, gr1, g, gr, keep, gone) ==
  /\ DOMAIN gr1 = DOMAIN gr \ {gone}
  /\ \A x \in Point : g1[x] = IF g[x] = gone THEN keep ELSE g[x]
  /\ gr1[keep].colour = gr[keep].colour
  /\ gr1[keep].stones = gr[keep].stones \cup gr[gone].stones
  /\ gr1[keep].ls = gr[keep].ls \cup gr[gone].ls
  /\ gr1[keep].neighbors = gr[keep].neighbors \cup gr[gone].neighbors
  /\ \A k \in DOMAIN gr1 : GroupCounted(gr1[k])
  /\ \A k \in DOMAIN gr1 \ {keep} :
       /\ gr1[k].colour = gr[k].colour /\ gr1[k].stones = gr[k].stones /\ gr1[k].ls = gr[k].ls
       /\ \A j : j \in gr1[k].neighbors <=>
            (j \in gr[k].neighbors /\ j # gone) \/ (j = keep /\ gone \in gr[k].neighbors)

LEMMA LibertiesMerged ==
  ASSUME NEW keep \in GroupType, NEW gone \in GroupType, GroupCounted(keep), GroupCounted(gone),
         NEW k, k = UniteLiberties(keep, gone)
  PROVE  k.ls = keep.ls \cup gone.ls /\ GroupCounted(k)
<1>0. /\ keep.ls \in SUBSET Point /\ gone.ls \in SUBSET Point
      /\ keep.liberties_min_coord \in Nat /\ gone.liberties_min_coord \in Nat
      /\ Point \subseteq Nat
  BY DEF GroupType, Point
<1>1. CASE gone.liberties = 0
  <2>1. gone.ls = {}
    BY <1>0, <1>1, PointsAreFinite, FS_EmptySet DEF GroupCounted
  <2> QED
    BY <1>1, <2>1 DEF UniteLiberties
<1>2. CASE gone.liberties # 0
  <2>1. /\ k.ls = keep.ls \cup gone.ls /\ k.liberties = Cardinality(keep.ls \cup gone.ls)
        /\ k.liberties_min_coord = Lower(keep.liberties_min_coord, gone.liberties_min_coord)
    BY <1>2 DEF UniteLiberties, GroupType
  <2>2. \A n \in k.ls : k.liberties_min_coord <= n
    <3>1. ASSUME NEW n \in k.ls PROVE k.liberties_min_coord <= n
      <4>1. n \in Nat /\ (keep.liberties_min_coord <= n \/ gone.liberties_min_coord <= n)
        BY <1>0, <2>1, <3>1 DEF GroupCounted
      <4>2. /\ k.liberties_min_coord \in Nat
            /\ k.liberties_min_coord <= keep.liberties_min_coord
            /\ k.liberties_min_coord <= gone.liberties_min_coord
        BY <1>0, <2>1 DEF Lower
      <4> QED
        BY <1>0, <4>1, <4>2
    <3> QED
      BY <3>1
  <2> QED
    BY <2>1, <2>2 DEF GroupCounted
<1> QED
  BY <1>1, <1>2

LEMMA UnitedMerges ==
  ASSUME NEW b, GroupsTyped(b.group), Counted(b.group), MutualBorders(b.group),
         NEW keep \in DOMAIN b.group, NEW gone \in DOMAIN b.group, keep # gone,
         keep \notin b.group[gone].neighbors,
         NEW d, United(b, keep, gone, d)
  PROVE  Merged(d.g, d.group, b.g, b.group, keep, gone)
<1> DEFINE gr == b.group
           old == gr[keep]
           had == gr[gone]
           new == d.group[keep]
           sum == UniteLiberties(old, had)
<1>1. /\ DOMAIN d.group = DOMAIN gr \ {gone}
      /\ \A x \in Point : d.g[x] = IF b.g[x] = gone THEN keep ELSE b.g[x]
      /\ new.colour = old.colour /\ new.stones = old.stones \cup had.stones
      /\ SameGroup(new, [sum EXCEPT !.stones = old.stones \cup had.stones,
                                    !.neighbors = old.neighbors \cup had.neighbors])
  BY DEF United
<1>2. old \in GroupType /\ had \in GroupType /\ GroupCounted(old) /\ GroupCounted(had)
  BY DEF GroupsTyped, Counted
<1>3. sum \in GroupType /\ sum.ls = old.ls \cup had.ls /\ GroupCounted(sum)
  <2>1. sum = UniteLiberties(old, had)
    OBVIOUS
  <2> HIDE DEF old, had, sum
  <2>2. sum.ls = old.ls \cup had.ls /\ GroupCounted(sum)
    BY <1>2, <2>1, LibertiesMerged
  <2>3. sum \in GroupType
    BY <1>2, <2>1, LibertiesUnited, Zenon
  <2> QED
    BY <2>2, <2>3
<1>4. /\ new.ls = old.ls \cup had.ls /\ new.neighbors = old.neighbors \cup had.neighbors
      /\ GroupCounted(new)
  <2> HIDE DEF sum, old, had, new
  <2> QED
    BY <1>1, <1>3 DEF SameGroup, GroupType, GroupCounted
<1>5. ASSUME NEW k \in DOMAIN d.group \ {keep}
      PROVE  /\ d.group[k].colour = gr[k].colour /\ d.group[k].stones = gr[k].stones
             /\ d.group[k].ls = gr[k].ls /\ GroupCounted(d.group[k])
             /\ \A j : j \in d.group[k].neighbors <=>
                  (j \in gr[k].neighbors /\ j # gone) \/ (j = keep /\ gone \in gr[k].neighbors)
  <2> DEFINE nb == IF k \notin had.neighbors THEN gr[k].neighbors
                   ELSE (gr[k].neighbors \ {gone})
                        \cup (IF k \in old.neighbors THEN {} ELSE {keep})
  <2>1. SameGroup(d.group[k], [gr[k] EXCEPT !.neighbors = nb])
    BY DEF United
  <2>2. gr[k] \in GroupType /\ k \in DOMAIN gr /\ k # gone /\ k # keep /\ GroupCounted(gr[k])
    BY <1>1 DEF GroupsTyped, Counted
  <2>3. /\ gone \in gr[k].neighbors <=> k \in had.neighbors
        /\ keep \in gr[k].neighbors <=> k \in old.neighbors
    BY <2>2 DEF MutualBorders
  <2>4. \A j : j \in nb <=>
           (j \in gr[k].neighbors /\ j # gone) \/ (j = keep /\ gone \in gr[k].neighbors)
    BY <2>3
  <2> HIDE DEF nb
  <2> QED
    BY <2>1, <2>2, <2>4 DEF SameGroup, GroupType, GroupCounted
<1> QED
  BY <1>1, <1>4, <1>5 DEF Merged

\* The group of a neighbour of the same colour loses the liberty at m, and the group of
\* the new stone is united to it.
LEMMA HalfwaySame ==
  ASSUME NEW q, NEW g, NEW gr, GroupsTyped(gr), Owned(q, g, gr),
         NEW m \in Point, q[m] # EMPTY, NEW n \in neighbors_side[m], n \in Point, q[n] # EMPTY,
         gr[g[n]].colour = gr[g[m]].colour, g[n] # g[m],
         NEW E, IsTies(E), NEW F, IsTies(F), OneMore(E, m, n, F),
         NEW met, Halfway(q, m, E, g, gr, met), g[n] \notin met,
         g[m] \in met \/ gr[g[m]].stones = {m},
         NEW rem, rem = [gr EXCEPT ![g[n]] = rem_liberty_unchecked(gr[g[n]], m)],
         NEW g1, NEW gr1, Merged(g1, gr1, g, rem, g[n], g[m])
  PROVE  Halfway(q, m, F, g1, gr1, met \cup {g[n]})
<1> DEFINE own == g[m]
           h == g[n]
           less == rem_liberty_unchecked(gr[h], m)
<1>1. /\ own \in DOMAIN gr /\ h \in DOMAIN gr /\ n # m /\ h # own
      /\ q[n] = q[m] /\ gr[own].colour = q[m] /\ gr[h].colour = q[n]
      /\ \A k \in DOMAIN gr : /\ k \in Point /\ k # NONE /\ gr[k] \in GroupType
                              /\ gr[k].stones = {x \in Point : g[x] = k}
  BY NeighborsAreMutual, Marks DEF Owned, GroupsTyped
<1>2. /\ SameBorder(less, gr[h]) /\ less.ls = gr[h].ls \ {m} /\ m \notin gr[own].ls
  <2>1. m \in gr[h].ls
    BY <1>1 DEF Halfway
  <2>2. SameBorder(less, gr[h]) /\ less.ls = gr[h].ls \ {m}
    BY <1>1, <2>1, LibertyTaken DEF Halfway, Counted
  <2>3. gr[own].stones = {m} => \A k \in neighbors_side[m] : g[k] # own
    BY <1>1, NeighborsAreMutual
  <2> QED
    BY <1>1, <2>2, <2>3 DEF Halfway
<1>3. /\ DOMAIN rem = DOMAIN gr /\ rem[h] = less
      /\ \A k \in DOMAIN gr \ {h} : rem[k] = gr[k]
  BY <1>1 DEF GroupsTyped
<1> HIDE DEF less
<1>4. /\ DOMAIN gr1 = DOMAIN gr \ {own}
      /\ \A x \in Point : g1[x] = IF g[x] = own THEN h ELSE g[x]
      /\ gr1[h].colour = gr[h].colour /\ gr1[h].stones = gr[h].stones \cup gr[own].stones
      /\ gr1[h].ls = less.ls \cup gr[own].ls
      /\ gr1[h].neighbors = gr[h].neighbors \cup gr[own].neighbors
      /\ Counted(gr1)
  <2> HIDE DEF h, own
  <2> QED
    BY <1>1, <1>2, <1>3 DEF Merged, SameBorder, Counted, h, own
<1>5. \A k \in DOMAIN gr1 \ {h} :
        /\ gr1[k].colour = gr[k].colour /\ gr1[k].stones = gr[k].stones
        /\ gr1[k].ls = gr[k].ls
        /\ \A j : j \in gr1[k].neighbors <=>
             (j \in gr[k].neighbors /\ j # own) \/ (j = h /\ own \in gr[k].neighbors)
  BY <1>3, <1>4 DEF Merged
<1> HIDE DEF h, own
<1>6. \A j, k \in DOMAIN gr1 \ {h} : Tied(g1, F, j, k) <=> Tied(g, E, j, k)
  BY <1>1, <1>4 DEF Tied, OneMore, IsTies, h, own
<1>7. \A k \in DOMAIN gr1 \ {h} : Tied(g1, F, h, k) <=> Tied(g, E, h, k) \/ Tied(g, E, own, k)
  BY <1>1, <1>4 DEF Tied, OneMore, IsTies, h, own
<1>8. \A k \in DOMAIN gr1 \ {h} : Tied(g1, F, k, h) <=> Tied(g, E, k, h) \/ Tied(g, E, k, own)
  BY <1>7, TiedBoth
<1>9. Bordered(g1, gr1, F)
  <2> SUFFICES ASSUME NEW j \in DOMAIN gr1, NEW k
               PROVE  k \in gr1[j].neighbors <=>
                        k \in DOMAIN gr1 /\ gr1[k].colour # gr1[j].colour /\ Tied(g1, F, j, k)
    BY DEF Bordered
  <2>1. \A i \in DOMAIN gr : \A l : l \in gr[i].neighbors <=>
          l \in DOMAIN gr /\ gr[l].colour # gr[i].colour /\ Tied(g, E, i, l)
    BY DEF Halfway, Bordered
  <2>2. gr[h].colour = gr[own].colour
    BY DEF h, own
  <2>3. CASE j = h
    <3>1. k \in gr1[j].neighbors <=> k \in gr[h].neighbors \/ k \in gr[own].neighbors
      BY <1>4, <2>3
    <3> QED
      BY <1>1, <1>4, <1>5, <1>7, <2>1, <2>2, <2>3, <3>1
  <2>4. CASE j # h
    <3>1. j \in DOMAIN gr1 \ {h} /\ j \in DOMAIN gr /\ gr1[j].colour = gr[j].colour
      BY <1>4, <1>5, <2>4
    <3>2. k \in gr1[j].neighbors <=>
            (k \in gr[j].neighbors /\ k # own) \/ (k = h /\ own \in gr[j].neighbors)
      BY <1>5, <3>1
    <3>3. CASE k = h
      BY <1>1, <1>4, <1>8, <2>1, <2>2, <3>1, <3>2, <3>3
    <3>4. CASE k # h
      BY <1>1, <1>4, <1>5, <1>6, <2>1, <2>2, <3>1, <3>2, <3>4
    <3> QED
      BY <3>3, <3>4
  <2> QED
    BY <2>3, <2>4
<1>10. Chained(q, g1, gr1, F)
  <2>1. Whole(q, g1, F)
    <3> SUFFICES ASSUME NEW s \in Point, NEW k \in F[s], q[s] # EMPTY, q[k] = q[s]
                 PROVE  g1[k] = g1[s]
      BY DEF Whole
    <3>1. k \in Point
      BY DEF IsTies
    <3>2. CASE k \in E[s]
      BY <1>4, <3>1, <3>2 DEF Halfway, Chained, Whole
    <3>3. CASE k \notin E[s]
      BY <1>1, <1>4, <3>1, <3>3 DEF OneMore, h, own
    <3> QED
      BY <3>2, <3>3
  <2>2. ASSUME NEW k \in DOMAIN gr, NEW S \in SUBSET Point, S \cap gr[k].stones # {},
               NEW T, gr[k].stones \subseteq T, \A s \in S : F[s] \cap T \subseteq S
        PROVE  gr[k].stones \subseteq S
    <3> DEFINE A == S \cap gr[k].stones
    <3>1. \A s \in A : E[s] \cap gr[k].stones \subseteq A
      BY <2>2 DEF OneMore, IsTies
    <3>2. A \in SUBSET gr[k].stones /\ A # {}
      BY <2>2
    <3> HIDE DEF A
    <3>3. A = gr[k].stones
      BY <3>1, <3>2 DEF Halfway, Chained
    <3> QED
      BY <3>3 DEF A
  <2>3. ASSUME NEW k \in DOMAIN gr1, NEW S \in SUBSET gr1[k].stones, S # {},
               \A s \in S : F[s] \cap gr1[k].stones \subseteq S
        PROVE  S = gr1[k].stones
    <3> DEFINE T == gr1[k].stones
    <3>1. CASE k # h
      <4>1. T = gr[k].stones /\ k \in DOMAIN gr /\ S \in SUBSET Point /\ S \cap gr[k].stones # {}
        BY <1>1, <1>4, <1>5, <2>3, <3>1
      <4> HIDE DEF T
      <4>2. gr[k].stones \subseteq S
        BY <2>2, <2>3, <4>1 DEF T
      <4> QED
        BY <2>3, <4>1, <4>2 DEF T
    <3>2. CASE k = h
      <4>1. /\ T = gr[h].stones \cup gr[own].stones /\ S \in SUBSET Point
            /\ n \in gr[h].stones /\ m \in gr[own].stones
        BY <1>1, <1>4, <2>3, <3>2 DEF h, own
      <4>2. \A s \in S : F[s] \cap T \subseteq S
        BY <2>3
      <4> HIDE DEF T
      <4>3. gr[h].stones \cap S # {} => gr[h].stones \subseteq S
        BY <1>1, <2>2, <4>1, <4>2
      <4>4. gr[own].stones \cap S # {} => gr[own].stones \subseteq S
        BY <1>1, <2>2, <4>1, <4>2
      <4>5. n \in F[m] /\ m \in F[n]
        BY DEF OneMore
      <4>6. n \in S <=> m \in S
        BY <4>1, <4>2, <4>5
      <4> QED
        BY <2>3, <4>1, <4>3, <4>4, <4>6 DEF T
    <3> QED
      BY <3>1, <3>2
  <2> QED
    BY <2>1, <2>3 DEF Chained
<1>11. ASSUME NEW k \in DOMAIN gr1
       PROVE  k \in met \cup {h} <=> \E y \in F[m] : g1[y] = k
  <2>1. \A y : y \in F[m] <=> y \in E[m] \/ y = n
    BY DEF OneMore, IsTies
  <2>2. g1[n] = h /\ n \in F[m]
    BY <1>1, <1>4, <2>1 DEF h
  <2>3. CASE k # h
    <3>1. k \in DOMAIN gr /\ k # own /\ \A y \in Point : g1[y] = k <=> g[y] = k
      BY <1>4, <2>3
    <3> QED
      BY <2>1, <2>3, <3>1 DEF Halfway, IsTies, h
  <2> QED
    BY <2>2, <2>3
<1>12. ASSUME NEW k \in DOMAIN gr1, NEW x \in Point
       PROVE  x \in gr1[k].ls <=>
                IF x = m THEN k \notin met \cup {h} /\ \E y \in neighbors_side[m] : g1[y] = k
                ELSE q[x] = EMPTY /\ \E y \in F[x] : g1[y] = k
  <2>1. \A i \in DOMAIN gr :
          x \in gr[i].ls <=> IF x = m THEN i \notin met /\ \E y \in neighbors_side[m] : g[y] = i
                             ELSE q[x] = EMPTY /\ \E y \in E[x] : g[y] = i
    BY DEF Halfway
  <2>2. x # m /\ q[x] = EMPTY => F[x] = E[x]
    <3>1. F[x] \subseteq Point /\ E[x] \subseteq Point
      BY DEF IsTies
    <3>2. x # m /\ q[x] = EMPTY => \A y \in Point : y \in F[x] <=> y \in E[x]
      BY DEF OneMore
    <3> QED
      BY <3>1, <3>2
  <2>3. E[x] \subseteq Point /\ neighbors_side[m] \subseteq Point
    BY NeighborsAreMutual DEF IsTies
  <2>4. CASE k = h
    <3>1. \A y \in Point : g1[y] = h <=> g[y] = h \/ g[y] = own
      BY <1>4
    <3>2. x \in gr1[k].ls <=> x # m /\ (x \in gr[h].ls \/ x \in gr[own].ls)
      BY <1>2, <1>4, <2>4
    <3> QED
      BY <1>1, <2>1, <2>2, <2>3, <2>4, <3>1, <3>2
  <2>5. CASE k # h
    <3>1. k \in DOMAIN gr /\ \A y \in Point : g1[y] = k <=> g[y] = k
      BY <1>4, <2>5
    <3>2. x \in gr1[k].ls <=> x \in gr[k].ls
      BY <1>5, <2>5
    <3> QED
      BY <2>1, <2>2, <2>3, <2>5, <3>1, <3>2
  <2> QED
    BY <2>4, <2>5
<1> QED
  BY <1>4, <1>9, <1>10, <1>11, <1>12 DEF Halfway, h

\* The ties of neighbours, but for those of m with points that are not of P.
Ties(m, P) ==
  [s \in Point |-> {n \in neighbors_side[s] : (s = m => n \in P) /\ (n = m => s \in P)}]

LEMMA TiesOfPoints ==
  ASSUME NEW m \in Point, NEW P
  PROVE  /\ IsTies(Ties(m, P))
         /\ \A n \in neighbors_side[m] : OneMore(Ties(m, P), m, n, Ties(m, P \cup {n}))
         /\ IsTies(neighbors_side)
         /\ P = neighbors_side[m] => Ties(m, P) = neighbors_side
<1>0. neighbors_side \in [Point -> SUBSET Point]
  BY NeighborsAreMutual DEF neighbors_side
<1>1. \A s, n \in Point : /\ n \in neighbors_side[s] => s \in neighbors_side[n] /\ n # s
                          /\ n \in Ties(m, P)[s] <=> n \in neighbors_side[s]
                                 /\ (s = m => n \in P) /\ (n = m => s \in P)
  BY NeighborsAreMutual DEF Ties
<1>2. IsTies(Ties(m, P)) /\ IsTies(neighbors_side)
  BY <1>0, <1>1 DEF IsTies, Ties
<1>3. ASSUME NEW n \in neighbors_side[m] PROVE OneMore(Ties(m, P), m, n, Ties(m, P \cup {n}))
  <2>1. n \in Point /\ n # m /\ m \in neighbors_side[n]
    BY NeighborsAreMutual
  <2>2. \A s, k \in Point : k \in Ties(m, P \cup {n})[s] <=> k \in neighbors_side[s]
          /\ (s = m => k \in P \cup {n}) /\ (k = m => s \in P \cup {n})
    BY DEF Ties
  <2> QED
    BY <1>1, <2>1, <2>2 DEF OneMore
<1>4. ASSUME P = neighbors_side[m] PROVE Ties(m, P) = neighbors_side
  <2>1. \A s \in Point : Ties(m, P)[s] = neighbors_side[s]
    BY <1>0, <1>1, <1>4 DEF Ties
  <2> QED
    BY <1>0, <2>1 DEF Ties
<1> QED
  BY <1>2, <1>3, <1>4

\* The groups of q, with their liberties and neighbours.
Reckoned(q, g, gr) ==
  /\ Counted(gr) /\ Chained(q, g, gr, neighbors_side) /\ Bordered(g, gr, neighbors_side)
  /\ \A h \in DOMAIN gr : \A x \in Point :
       x \in gr[h].ls <=> q[x] = EMPTY /\ \E k \in neighbors_side[x] : g[k] = h

LessLiberty(rem, gr, h, m) == rem = [gr EXCEPT ![h] = rem_liberty_unchecked(gr[h], m)]

LEMMA BordersAreMutual ==
  ASSUME NEW g, NEW gr, NEW E, IsTies(E), Bordered(g, gr, E)
  PROVE  MutualBorders(gr)
BY TiedBoth DEF Bordered, MutualBorders

\* A liberty taken leaves the borders, and the counts, exact.
LEMMA LibertyOfBoth ==
  ASSUME NEW q, NEW g, NEW gr, GroupsTyped(gr), NEW m \in Point, NEW E, IsTies(E),
         NEW met, Halfway(q, m, E, g, gr, met),
         NEW n \in neighbors_side[m], g[n] \in DOMAIN gr, g[n] \notin met,
         NEW own \in DOMAIN gr, gr[own].colour = gr[g[n]].colour,
         NEW rem, LessLiberty(rem, gr, g[n], m)
  PROVE  Counted(rem) /\ MutualBorders(rem) /\ g[n] \notin rem[own].neighbors
<1> DEFINE h == g[n]
           less == rem_liberty_unchecked(gr[h], m)
<1>1. m \in gr[h].ls /\ gr[h] \in GroupType /\ GroupCounted(gr[h])
  BY DEF Halfway, GroupsTyped, Counted
<1>2. SameBorder(less, gr[h]) /\ GroupCounted(less)
  BY <1>1, LibertyTaken
<1>3. DOMAIN rem = DOMAIN gr /\ rem[h] = less /\ \A k \in DOMAIN gr \ {h} : rem[k] = gr[k]
  BY DEF GroupsTyped, LessLiberty
<1> HIDE DEF less, h
<1>4. Counted(rem)
  BY <1>2, <1>3 DEF Halfway, Counted
<1>5. \A k \in DOMAIN gr : rem[k].neighbors = gr[k].neighbors
  BY <1>2, <1>3 DEF SameBorder
<1>6. MutualBorders(gr)
  BY BordersAreMutual DEF Halfway
<1>7. MutualBorders(rem)
  BY <1>3, <1>5, <1>6 DEF MutualBorders
<1>8. h \notin gr[own].neighbors
  BY DEF Halfway, Bordered, h
<1> QED
  BY <1>4, <1>5, <1>7, <1>8 DEF h

\* How far the neighbours of m were met.
HalfwayIn(q, m, P, s) == Halfway(q, m, Ties(m, P), s.cb.g, s.cb.group, s.met)

\* Each neighbour met is one more that the groups are exact for.
LEMMA MeetReckons ==
  ASSUME NEW b \in FastBoard, NEW q, NEW m \in Point, NEW c \in Player, q[m] = c,
         NEW s \in Meeting(b, q, m), NEW n \in neighbors_side[m],
         NEW P, HalfwayIn(q, m, P, s), NEW t, t = Meet(s, c, m, n)
  PROVE  HalfwayIn(q, m, P \cup {n}, t)
<1> DEFINE g == s.cb.g
           gr == s.cb.group
           h == g[n]
           own == g[m]
           met == s.met
           rem == [gr EXCEPT ![h] = rem_liberty_unchecked(gr[h], m)]
           E == Ties(m, P)
           F == Ties(m, P \cup {n})
<1>1. /\ Grouped(s.cb, q) /\ Owned(q, g, gr) /\ GroupsTyped(gr) /\ IsFast(s.cb)
      /\ own \in met \/ gr[own].stones = {m}
  BY DEF Meeting, Grouped
<1>2. /\ IsTies(E) /\ IsTies(F) /\ OneMore(E, m, n, F) /\ Halfway(q, m, E, g, gr, met)
  BY TiesOfPoints DEF HalfwayIn
<1>3. n \in Point /\ n # m /\ q[m] # EMPTY
  BY NeighborsAreMutual, Marks
<1>4. /\ own \in DOMAIN gr /\ gr[own].colour = c
      /\ h = NONE <=> q[n] = EMPTY
      /\ h # NONE => h \in DOMAIN gr /\ gr[h] \in GroupType
  BY <1>1, <1>3, Marks DEF Owned, GroupsTyped
<1>5. Met(s, c, m, n, t)
  BY MeetCases
<1>6. CASE h = NONE
  <2> DEFINE gr1 == [gr EXCEPT ![own] = add_liberty(gr[own], {n})]
  <2>1. t.cb.group = gr1 /\ t.cb.g = g /\ t.met = met
    BY <1>1, <1>5, <1>6 DEF Met, IsFast
  <2> HIDE DEF E, F, g, gr, met
  <2>2. Halfway(q, m, F, g, gr1, met)
    BY <1>1, <1>2, <1>3, <1>4, <1>6, HalfwayFree
  <2> QED
    BY <2>1, <2>2 DEF HalfwayIn, F
<1>7. CASE h # NONE /\ h \in met
  <2>1. t = s
    BY <1>5, <1>7 DEF Met
  <2> HIDE DEF E, F, g, gr, met
  <2>2. Halfway(q, m, F, g, gr, met)
    BY <1>1, <1>2, <1>3, <1>4, <1>7, HalfwayAgain
  <2> QED
    BY <2>1, <2>2 DEF HalfwayIn, F, g, gr, met
<1>8. CASE h # NONE /\ h \notin met
  <2>1. /\ GroupsTyped(rem) /\ DOMAIN rem = DOMAIN gr /\ \A k \in DOMAIN gr : SameStones(rem[k], gr[k])
        /\ KeepsStones(rem, gr)
    <3>1. KeepsStones(rem, gr)
      BY <1>1, <1>4, <1>8, LibertyRemoved, GroupUpdated
    <3> HIDE DEF rem
    <3> QED
      BY <3>1 DEF KeepsStones
  <2>2. CASE rem[h].colour # c
    <3> DEFINE gr1 == add_neighbor(rem, own, h)
    <3>1. t.cb.group = gr1 /\ t.cb.g = g /\ t.met = met \cup {h}
      BY <1>1, <1>5, <1>8, <2>2 DEF Met, IsFast
    <3>2. gr[h].colour # gr[own].colour
      BY <1>4, <1>8, <2>1, <2>2 DEF SameStones
    <3>3. gr1 = add_neighbor([gr EXCEPT ![g[n]] = rem_liberty_unchecked(gr[g[n]], m)], g[m], g[n])
      OBVIOUS
    <3> HIDE DEF E, F, g, gr, met, gr1
    <3>4. Halfway(q, m, F, g, gr1, met \cup {g[n]})
      BY <1>1, <1>2, <1>3, <1>4, <1>8, <3>2, <3>3, HalfwayOther
    <3> QED
      BY <3>1, <3>4 DEF HalfwayIn, F
  <2>3. CASE rem[h].colour = c
    <3> DEFINE mid == [s.cb EXCEPT !.group = rem]
               d == unite_groups(mid, h, own)
    <3>1. t.cb = d /\ t.met = met \cup {h}
      BY <1>5, <1>8, <2>3 DEF Met
    <3>2. mid = [s.cb EXCEPT !.group = rem]
      OBVIOUS
    <3> HIDE DEF rem, mid
    <3>3. Grouped(mid, q) /\ mid.group = rem /\ mid.g = g
      BY <1>1, <2>1, <3>2, GroupsUpdated
    <3>4. gr[h].colour = gr[own].colour
      BY <1>4, <1>8, <2>1, <2>3 DEF SameStones
    <3>5. h # own
      BY <1>1, <1>3, <1>4, <1>8 DEF Owned
    <3>6. United(mid, h, own, d)
      BY <1>4, <1>8, <2>1, <3>3, <3>4, <3>5, UniteKeeps DEF SameStones
    <3>7. Counted(rem) /\ MutualBorders(rem) /\ h \notin rem[own].neighbors
      <4>1. LessLiberty(rem, gr, g[n], m)
        BY DEF rem, LessLiberty
      <4> HIDE DEF E, g, gr, met, own
      <4> QED
        BY <1>1, <1>2, <1>4, <1>8, <3>4, <4>1, LibertyOfBoth
    <3> HIDE DEF d
    <3>8. Merged(d.g, d.group, g, rem, h, own)
      BY <1>4, <1>8, <2>1, <3>3, <3>5, <3>6, <3>7, UnitedMerges
    <3>9. rem = [gr EXCEPT ![g[n]] = rem_liberty_unchecked(gr[g[n]], m)]
      BY DEF rem
    <3> HIDE DEF E, F, g, gr, met
    <3>10. Halfway(q, m, F, d.g, d.group, met \cup {g[n]})
      BY <1>1, <1>2, <1>3, <1>4, <1>8, <3>4, <3>5, <3>8, <3>9, HalfwaySame
    <3> QED
      BY <3>1, <3>10 DEF HalfwayIn, F
  <2> QED
    BY <2>2, <2>3
<1> QED
  BY <1>6, <1>7, <1>8

\* A stone set alone is a group that has met none of its neighbours.
LEMMA AloneReckons ==
  ASSUME NEW b, NEW q, Grouped(b, q), Reckoned(q, b.g, b.group),
         NEW m \in Point, q[m] = EMPTY, NEW c \in Player, NEW d, d = Alone(b, c, m)
  PROVE  Halfway(With(q, m, c), m, Ties(m, {}), d.g, d.group, {})
<1> DEFINE q1 == With(q, m, c)
           E == Ties(m, {})
           g == b.g
           gr == b.group
           g1 == d.g
           gr1 == d.group
           new == gr1[m]
<1>1. /\ Owned(q, g, gr) /\ GroupsTyped(gr) /\ IsFast(b) /\ m \notin DOMAIN gr /\ g[m] = NONE
      /\ NONE \notin DOMAIN gr
      /\ \A h \in DOMAIN gr : gr[h].stones \subseteq Point
  BY Marks DEF Grouped, Owned, GroupsTyped, GroupType
<1>2. /\ g1 = [g EXCEPT ![m] = m] /\ DOMAIN gr1 = DOMAIN gr \cup {m}
      /\ \A h \in DOMAIN gr : gr1[h] = gr[h]
      /\ new = NewGroup(c, m, Len(b.unique_groups) + 1)
  BY <1>1 DEF Alone, IsFast
<1>3. /\ new.ls = {} /\ new.liberties = 0 /\ new.stones = {m} /\ new.neighbors = {}
      /\ new.colour = c
  BY <1>2 DEF NewGroup
<1>4. /\ \A x \in Point : g1[x] = IF x = m THEN m ELSE g[x]
      /\ \A x \in Point : q1[x] = IF x = m THEN c ELSE q[x]
  BY <1>1, <1>2 DEF Owned, With
<1>5. /\ IsTies(E) /\ \A s, n \in Point : n \in E[s] <=> n \in neighbors_side[s] /\ s # m /\ n # m
  <2>1. IsTies(E)
    BY TiesOfPoints
  <2>2. \A s, n \in Point : n \in E[s] <=>
          n \in neighbors_side[s] /\ (s = m => n \in {}) /\ (n = m => s \in {})
    BY DEF Ties
  <2> QED
    BY <2>1, <2>2
<1>6. \A x \in Point : g[x] # m
  BY <1>1, Marks DEF Owned
<1> HIDE DEF new, E, g1, gr1, q1, g, gr
<1>7. Counted(gr1)
  BY <1>2, <1>3, FS_EmptySet DEF Reckoned, Counted, GroupCounted, gr, g, new
<1>8. Chained(q1, g1, gr1, E)
  <2>1. Chained(q, g, gr, neighbors_side)
    BY DEF Reckoned, g, gr
  <2>2. Whole(q1, g1, E)
    BY <1>4, <1>5, <2>1 DEF Chained, Whole, IsTies
  <2>3. ASSUME NEW h \in DOMAIN gr1, NEW S \in SUBSET gr1[h].stones, S # {},
               \A s \in S : E[s] \cap gr1[h].stones \subseteq S
        PROVE  S = gr1[h].stones
    <3>1. CASE h = m
      BY <1>3, <2>3, <3>1 DEF new
    <3>2. CASE h # m
      <4>1. h \in DOMAIN gr /\ gr1[h].stones = gr[h].stones
        BY <1>2, <3>2
      <4>2. \A x \in gr[h].stones : x \in Point /\ x # m
        <5>1. gr[h].stones = {x \in Point : g[x] = h} /\ h # NONE
          BY <1>1, <4>1 DEF Owned
        <5> QED
          BY <1>1, <5>1
      <4>3. \A s \in S : neighbors_side[s] \cap gr[h].stones \subseteq S
        BY <1>5, <2>3, <4>1, <4>2
      <4> QED
        BY <2>1, <2>3, <4>1, <4>3 DEF Chained
    <3> QED
      BY <3>1, <3>2
  <2> QED
    BY <2>2, <2>3 DEF Chained
<1>9. Bordered(g1, gr1, E)
  <2>1. Bordered(g, gr, neighbors_side)
    BY DEF Reckoned, g, gr
  <2>2. \A h, k \in DOMAIN gr : Tied(g1, E, h, k) <=> Tied(g, neighbors_side, h, k)
    <3> SUFFICES ASSUME NEW h \in DOMAIN gr, NEW k \in DOMAIN gr
                 PROVE  Tied(g1, E, h, k) <=> Tied(g, neighbors_side, h, k)
      OBVIOUS
    <3>1. \A s, n \in Point :
            g1[s] = h /\ n \in E[s] /\ g1[n] = k <=> g[s] = h /\ n \in neighbors_side[s] /\ g[n] = k
      BY <1>1, <1>4, <1>5
    <3>2. \A s \in Point : E[s] \subseteq Point /\ neighbors_side[s] \subseteq Point
      BY <1>5, NeighborsAreMutual DEF IsTies
    <3> QED
      BY <3>1, <3>2 DEF Tied
  <2>3. \A h : ~ Tied(g1, E, h, m) /\ ~ Tied(g1, E, m, h)
    BY <1>4, <1>5, <1>6 DEF Tied, IsTies
  <2> SUFFICES ASSUME NEW j \in DOMAIN gr1, NEW k
               PROVE  k \in gr1[j].neighbors <=>
                        k \in DOMAIN gr1 /\ gr1[k].colour # gr1[j].colour /\ Tied(g1, E, j, k)
    BY DEF Bordered
  <2>4. CASE j = m
    BY <1>3, <2>3, <2>4 DEF new
  <2>5. CASE j # m
    <3>1. j \in DOMAIN gr /\ gr1[j] = gr[j]
      BY <1>2, <2>5
    <3>2. k \in gr[j].neighbors <=>
            k \in DOMAIN gr /\ gr[k].colour # gr[j].colour /\ Tied(g, neighbors_side, j, k)
      BY <2>1, <3>1 DEF Bordered
    <3>3. CASE k \in DOMAIN gr
      <4>1. gr1[k] = gr[k] /\ k \in DOMAIN gr1 /\ (Tied(g1, E, j, k) <=> Tied(g, neighbors_side, j, k))
        BY <1>2, <2>2, <3>1, <3>3
      <4> QED
        BY <3>1, <3>2, <3>3, <4>1
    <3>4. CASE k \notin DOMAIN gr
      BY <1>2, <2>3, <3>1, <3>2, <3>4
    <3> QED
      BY <3>3, <3>4
  <2> QED
    BY <2>4, <2>5
<1>10. \A h \in DOMAIN gr1 : h \in {} <=> \E k \in E[m] : g1[k] = h
  BY <1>5 DEF IsTies
<1>11. ASSUME NEW h \in DOMAIN gr1, NEW x \in Point
       PROVE  x \in gr1[h].ls <=>
                IF x = m THEN h \notin {} /\ \E k \in neighbors_side[m] : g1[k] = h
                ELSE q1[x] = EMPTY /\ \E k \in E[x] : g1[k] = h
  <2>1. neighbors_side[x] \subseteq Point /\ x \notin neighbors_side[x] /\ E[x] \subseteq Point
    BY <1>5, NeighborsAreMutual DEF IsTies
  <2>2. CASE h = m
    BY <1>3, <1>4, <1>5, <1>6, <2>1, <2>2 DEF new
  <2>3. CASE h # m
    <3>1. h \in DOMAIN gr /\ gr1[h] = gr[h]
      BY <1>2, <2>3
    <3>2. x \in gr[h].ls <=> q[x] = EMPTY /\ \E k \in neighbors_side[x] : g[k] = h
      BY <3>1 DEF Reckoned, g, gr
    <3>3. \A k \in Point : g1[k] = h <=> g[k] = h
      BY <1>1, <1>4, <2>3, <3>1
    <3>4. CASE x = m
      BY <2>1, <3>1, <3>2, <3>3, <3>4
    <3>5. CASE x # m
      <4>1. \A k \in Point : g[k] = h => k # m
        BY <1>1, <3>1
      <4> QED
        BY <1>4, <1>5, <2>1, <3>1, <3>2, <3>3, <3>5, <4>1
    <3> QED
      BY <3>4, <3>5
  <2> QED
    BY <2>2, <2>3
<1> QED
  BY <1>7, <1>8, <1>9, <1>10, <1>11 DEF Halfway, q1, E, g1, gr1

\* When all the neighbours are met the groups are exact.
LEMMA NeighborsReckoned ==
  ASSUME NEW b \in FastBoard, NEW q, NEW m \in Point, NEW c \in Player, q[m] = c,
         NEW s0, s0 = [cb |-> b, met |-> {}], s0 \in Meeting(b, q, m), HalfwayIn(q, m, {}, s0),
         NEW d, d = MeetNeighbors(b, c, m)
  PROVE  Reckoned(q, d.g, d.group)
<1> DEFINE s == Sides[m]
           V == Meeting(b, q, m)
           P(k) == {s[i] : i \in 1..k}
<1>1. PICK a \in [0..Len(s) -> V] :
        /\ a[0] = s0
        /\ \A k \in 1..Len(s) : a[k] = Meet(a[k - 1], c, m, s[k])
        /\ d = a[Len(s)].cb
  BY MeetFold
<1>2. /\ Len(s) \in Nat /\ {s[i] : i \in 1..Len(s)} = neighbors_side[m]
      /\ \A i \in 1..Len(s) : s[i] \in neighbors_side[m]
  BY NeighborsOfPoint DEF ToSet
<1> HIDE DEF s, V
<1> DEFINE T == {k \in 0..Len(s) : HalfwayIn(q, m, P(k), a[k])}
<1>3. 0 \in T
  <2>1. P(0) = {}
    OBVIOUS
  <2> HIDE DEF P
  <2>2. a[0] = s0 /\ 0 \in 0..Len(s)
    BY <1>1, <1>2
  <2>3. HalfwayIn(q, m, P(0), a[0])
    BY <2>1, <2>2
  <2> QED
    BY <2>2, <2>3
<1>4. ASSUME NEW k \in 0..(Len(s) - 1), k \in T PROVE k + 1 \in T
  <2>1. /\ k \in 0..Len(s) /\ k + 1 \in 1..Len(s) /\ k + 1 \in 0..Len(s) /\ (k + 1) - 1 = k
        /\ 1..(k + 1) = (1..k) \cup {k + 1}
    BY <1>2
  <2>2. P(k + 1) = P(k) \cup {s[k + 1]}
    BY <2>1
  <2> HIDE DEF P
  <2>3. a[k] \in V /\ s[k + 1] \in neighbors_side[m] /\ a[k + 1] = Meet(a[k], c, m, s[k + 1])
    BY <1>1, <1>2, <2>1
  <2>4. HalfwayIn(q, m, P(k) \cup {s[k + 1]}, a[k + 1])
    BY <1>4, <2>3, MeetReckons DEF V
  <2> QED
    BY <2>1, <2>2, <2>4
<1>5. HalfwayIn(q, m, neighbors_side[m], a[Len(s)])
  <2> HIDE DEF T
  <2>0. \A k \in 0..(Len(s) - 1) : k \in T => k + 1 \in T
    BY <1>4
  <2>1. \A k \in 0..Len(s) : k \in T
    BY <1>2, <1>3, <2>0, InductionUpTo
  <2>2. HalfwayIn(q, m, P(Len(s)), a[Len(s)])
    <3>1. Len(s) \in T
      BY <1>2, <2>1
    <3> QED
      BY <3>1 DEF T
  <2>3. P(Len(s)) = neighbors_side[m]
    BY <1>2 DEF P
  <2> QED
    BY <2>2, <2>3
<1>6. Halfway(q, m, neighbors_side, d.g, d.group, a[Len(s)].met)
  BY <1>1, <1>5, TiesOfPoints DEF HalfwayIn
<1>7. q[m] # EMPTY
  BY Marks
<1> QED
  BY <1>6, <1>7 DEF Halfway, Reckoned

-----------------------------------------------------------------------------
\* b is exact for the board q, but for what a stone set beforehand leaves.
Kept(b, q) ==
  b \in FastBoard /\ Grouped(b, q) /\ Around(b, q) /\ Reckoned(q, b.g, b.group)

\* A stone added is a stone of the board; nothing else of it changes.
LEMMA AddStoneKeeps ==
  ASSUME NEW b, NEW q, Kept(b, q), NEW m \in Point, q[m] = EMPTY, NEW c \in Player,
         NEW d, d = add_stone(b, c, m)
  PROVE  /\ Kept(d, With(q, m, c))
         /\ d.p = b.p /\ d.empty = b.empty
         /\ d.last_played = b.last_played /\ d.last_eaten = b.last_eaten
<1> DEFINE q1 == With(q, m, c)
           alone == Alone(b, c, m)
           mid == pos_set_occupied(alone, c, m)
           s0 == [cb |-> mid, met |-> {}]
<1>1. /\ b \in FastBoard /\ Grouped(b, q) /\ Around(b, q) /\ IsFast(b) /\ q \in [Point -> Stones]
  BY DEF Kept, Grouped, Owned
<1>2. d = MeetNeighbors(mid, c, m)
  BY DEF add_stone, Alone
<1>3. /\ Grouped(alone, q1) /\ Regrouped(alone, b)
      /\ alone.g[m] = m /\ alone.group[m].stones = {m}
  BY <1>1, AloneKeeps
<1> HIDE DEF alone
<1>4. IsFast(alone) /\ Around(alone, q)
  BY <1>1, <1>3 DEF Grouped, Regrouped, Around
<1>5. Around(mid, q1)
  BY <1>1, <1>4, OccupiedCounts
<1>6. /\ IsFast(mid) /\ mid.p = alone.p /\ mid.last_played = alone.last_played
      /\ mid.last_eaten = alone.last_eaten
      /\ mid.empty = alone.empty /\ mid.unique_groups = alone.unique_groups
      /\ mid.g = alone.g /\ mid.group = alone.group
  BY <1>4, OccupiedFields
<1> HIDE DEF mid
<1>7. Grouped(mid, q1)
  BY <1>3, <1>6 DEF Grouped
<1>8. mid \in FastBoard
  <2>1. /\ mid.p \in [Point -> Stones] /\ mid.empty \in SUBSET Point
        /\ mid.last_played \in Point \cup {NONE, PASS} /\ mid.last_eaten \in Point \cup {NONE}
    BY <1>1, <1>3, <1>6, FastBoardTyped DEF Regrouped
  <2>2. /\ mid.hash \in [Point -> PatternMaps]
        /\ mid.neighbors4 \in [Player -> [Point -> Int]]
        /\ mid.neighbors8 \in [Player -> [Point -> Int]]
    BY <1>5 DEF Around
  <2>3. /\ mid.unique_groups \in Seq(Point) /\ mid.g \in [Point -> Point \cup {NONE}]
        /\ GroupsTyped(mid.group)
    BY <1>7 DEF Grouped, Indexed, Owned
  <2> QED
    BY <1>6, <2>1, <2>2, <2>3, FastBoardTyped
<1>9. q1[m] = c
  BY <1>1, WithTyped, Marks DEF Stones
<1>10. s0 \in Meeting(mid, q1, m)
  <2>1. s0 \in [cb : FastBoard, met : SUBSET Point]
    BY <1>8
  <2>2. mid.group[mid.g[m]].stones = {m}
    BY <1>3, <1>6
  <2>3. Regrouped(mid, mid)
    BY DEF Regrouped
  <2> QED
    BY <1>7, <2>1, <2>2, <2>3 DEF Meeting
<1>11. PICK a \in [0..Len(Sides[m]) -> Meeting(mid, q1, m)] : d = a[Len(Sides[m])].cb
  BY <1>2, <1>8, <1>9, <1>10, MeetFold
<1>12. a[Len(Sides[m])] \in Meeting(mid, q1, m)
  <2>1. Len(Sides[m]) \in Nat
    BY NeighborsOfPoint
  <2> QED
    BY <2>1
<1>13. d \in FastBoard /\ Grouped(d, q1) /\ Regrouped(d, mid)
  BY <1>11, <1>12 DEF Meeting
<1>14. Around(d, q1)
  BY <1>5, <1>13 DEF Around, Regrouped
<1>15. Reckoned(q1, d.g, d.group)
  <2>1. Halfway(q1, m, Ties(m, {}), alone.g, alone.group, {})
    BY <1>1, AloneReckons DEF Kept, alone
  <2>2. HalfwayIn(q1, m, {}, s0)
    BY <1>6, <2>1 DEF HalfwayIn
  <2> QED
    BY <1>2, <1>8, <1>9, <1>10, <2>2, NeighborsReckoned
<1> QED
  BY <1>3, <1>6, <1>13, <1>14, <1>15 DEF Kept, Regrouped

-----------------------------------------------------------------------------
(* The board of a match copied. *)
\* The stones of p on the points of D.
Part(p, D) == [m \in Point |-> IF m \in D THEN p[m] ELSE EMPTY]

\* b is a copy of the board src, of whose stones those on D were added.
Copied(b, src, D) ==
  /\ Kept(b, Part(src.p, D))
  /\ b.p = src.p /\ b.last_played = src.last_played /\ b.last_eaten = src.last_eaten
  /\ b.empty = {m \in Point : src.p[m] = EMPTY}

FirstCopy(src) ==
  [cfg_init_board EXCEPT
     !.p = src.p, !.last_played = src.last_played, !.last_eaten = src.last_eaten,
     !.empty = {m \in Point : src.p[m] = EMPTY}]

CopyStone(src, b, m) == IF src.p[m] = EMPTY THEN b ELSE add_stone(b, src.p[m], m)

LEMMA BoardFields ==
  ASSUME NEW src \in Board
  PROVE  /\ src.p \in [Point -> Stones] /\ src.last_played \in Point \cup {NONE, PASS}
         /\ src.last_eaten \in Point \cup {NONE}
BY DEF Board, Stones

LEMMA FirstCopyEmpty ==
  ASSUME NEW src \in Board
  PROVE  Copied(FirstCopy(src), src, {})
<1> DEFINE b == FirstCopy(src)
           q == Part(src.p, {})
<1>1. /\ IsFast(b) /\ b.p = src.p /\ b.last_played = src.last_played
      /\ b.last_eaten = src.last_eaten /\ b.empty = {m \in Point : src.p[m] = EMPTY}
      /\ b.hash = [m \in Point |-> [n \in neighbors_3x3[m] |-> 0]]
      /\ b.neighbors4 = [c \in Player |-> [m \in Point |-> 0]]
      /\ b.neighbors8 = [c \in Player |-> [m \in Point |-> 0]]
      /\ b.unique_groups = <<>> /\ b.g = [m \in Point |-> NONE]
      /\ b.group = [h \in {} |-> NewGroup("black", h, 1)]
  <2> DEFINE f == cfg_init_board
  <2>1. /\ IsFast(f) /\ f.hash = [m \in Point |-> [n \in neighbors_3x3[m] |-> 0]]
        /\ f.neighbors4 = [c \in Player |-> [m \in Point |-> 0]]
        /\ f.neighbors8 = [c \in Player |-> [m \in Point |-> 0]]
        /\ f.unique_groups = <<>> /\ f.g = [m \in Point |-> NONE]
        /\ f.group = [h \in {} |-> NewGroup("black", h, 1)]
    BY Zenon DEF cfg_init_board, IsFast
  <2> HIDE DEF f
  <2>2. b = [f EXCEPT !.p = src.p, !.last_played = src.last_played, !.last_eaten = src.last_eaten,
                      !.empty = {m \in Point : src.p[m] = EMPTY}]
    BY DEF FirstCopy, f
  <2> HIDE DEF b
  <2>3. /\ IsFast(b) /\ b.p = src.p /\ b.last_played = src.last_played
        /\ b.last_eaten = src.last_eaten /\ b.empty = {m \in Point : src.p[m] = EMPTY}
        /\ b.hash = f.hash /\ b.neighbors4 = f.neighbors4 /\ b.neighbors8 = f.neighbors8
        /\ b.unique_groups = f.unique_groups /\ b.g = f.g /\ b.group = f.group
    BY <2>1, <2>2 DEF IsFast
  <2> QED
    BY <2>1, <2>3
<1>1a. DOMAIN b.group = {} /\ b.group \in [{} -> GroupType]
  BY <1>1
<1> HIDE DEF b
<1>2. q \in [Point -> Stones] /\ \A m \in Point : q[m] = EMPTY
  BY DEF Part, Stones
<1>3. GroupsTyped(b.group) /\ Indexed(b.group, b.unique_groups)
  BY <1>1, <1>1a DEF GroupsTyped, Indexed
<1>4. Owned(q, b.g, b.group)
  BY <1>1, <1>2, <1>1a DEF Owned
<1>5. Around(b, q)
  <2>1. \A S \in SUBSET Point : \A c \in Player : StonesIn(S, q, c) = {}
    BY <1>2, Marks DEF StonesIn
  <2>2. Cardinality({}) = 0
    BY FS_EmptySet
  <2> HIDE DEF q
  <2>3. \A m \in Point : neighbors_side[m] \in SUBSET Point /\ neighbors_3x3[m] \in SUBSET Point
    BY NeighborsAreMutual
  <2>4. \A m \in Point : b.hash[m] \in PatternMaps /\ DOMAIN b.hash[m] = neighbors_3x3[m]
          /\ \A n \in neighbors_3x3[m] : b.hash[m][n] = Mark(q[n])
    <3> TAKE m \in Point
    <3>1. b.hash[m] = [n \in neighbors_3x3[m] |-> 0]
      BY <1>1
    <3>2. \A n \in neighbors_3x3[m] : Mark(q[n]) = 0
      BY <1>2, <2>3 DEF Mark
    <3> QED
      BY <2>3, <3>1, <3>2, PatternMapsTyped
  <2>5. b.hash \in [Point -> PatternMaps]
    BY <1>1, <2>4
  <2>6. /\ b.neighbors4 \in [Player -> [Point -> Int]] /\ b.neighbors8 \in [Player -> [Point -> Int]]
        /\ \A m \in Point, c \in Player : b.neighbors4[c][m] = 0 /\ b.neighbors8[c][m] = 0
    BY <1>1
  <2> QED
    BY <2>1, <2>2, <2>3, <2>4, <2>5, <2>6 DEF Around
<1>6. Grouped(b, q)
  BY <1>1, <1>3, <1>4 DEF Grouped
<1>8. b \in FastBoard
  <2>1. b.p \in [Point -> Stones] /\ b.last_played \in Point \cup {NONE, PASS}
        /\ b.last_eaten \in Point \cup {NONE} /\ b.empty \in SUBSET Point
    BY <1>1, BoardFields
  <2>2. b.unique_groups \in Seq(Point) /\ b.g \in [Point -> Point \cup {NONE}]
    BY <1>1
  <2>3. /\ b.hash \in [Point -> PatternMaps] /\ b.neighbors4 \in [Player -> [Point -> Int]]
        /\ b.neighbors8 \in [Player -> [Point -> Int]]
    BY <1>5 DEF Around
  <2> QED
    BY <1>1, <1>3, <2>1, <2>2, <2>3, FastBoardTyped
<1>9. Reckoned(q, b.g, b.group)
  <2>1. \A s \in Point : q[s] = EMPTY
    BY <1>2
  <2>2. Counted(b.group) /\ Bordered(b.g, b.group, neighbors_side)
    BY <1>1a DEF Counted, Bordered
  <2>3. Chained(q, b.g, b.group, neighbors_side)
    BY <1>1a, <2>1 DEF Chained, Whole
  <2> QED
    BY <1>1a, <2>2, <2>3 DEF Reckoned
<1> HIDE DEF q
<1> QED
  BY <1>1, <1>5, <1>6, <1>8, <1>9 DEF Copied, Kept, b, q

LEMMA CopyStoneKeeps ==
  ASSUME NEW src \in Board, NEW D, NEW b, Copied(b, src, D), NEW m \in Point, m \notin D
  PROVE  Copied(CopyStone(src, b, m), src, D \cup {m})
<1> DEFINE q == Part(src.p, D)
           q1 == Part(src.p, D \cup {m})
           d == CopyStone(src, b, m)
           c == src.p[m]
<1>1. src.p \in [Point -> Stones] /\ c \in Stones
  BY BoardFields
<1>2. q \in [Point -> Stones] /\ q[m] = EMPTY
  BY <1>1 DEF Part, Stones
<1>3. CASE c = EMPTY
  <2>1. q1 = q
    BY <1>3 DEF Part
  <2>2. d = b
    BY <1>3 DEF CopyStone
  <2> QED
    BY <2>1, <2>2 DEF Copied
<1>4. CASE c # EMPTY
  <2>1. c \in Player /\ d = add_stone(b, c, m)
    BY <1>1, <1>4 DEF Stones, CopyStone
  <2>2. Kept(b, q)
    BY DEF Copied
  <2>3. With(q, m, c) = q1
    BY DEF With, Part
  <2> HIDE DEF d, q, q1, c
  <2>4. /\ Kept(d, With(q, m, c)) /\ d.p = b.p /\ d.empty = b.empty
        /\ d.last_played = b.last_played /\ d.last_eaten = b.last_eaten
    BY <1>2, <2>1, <2>2, AddStoneKeeps
  <2> QED
    BY <2>3, <2>4 DEF Copied, d, q1
<1> QED
  BY <1>3, <1>4

LEMMA CopyFold ==
  ASSUME NEW src \in Board
  PROVE  Copied(cfg_from_board(src), src, Point)
<1> DEFINE n == TOTAL_BOARD_SIZ
           s == [i \in 1..TOTAL_BOARD_SIZ |-> i - 1]
           W == FastBoard
           V == [k \in 0..n |-> {b \in FastBoard : \E D \in SUBSET (0..(k - 1)) : Copied(b, src, D)}]
           base == FirstCopy(src)
           F == [k \in 1..n |-> [b \in W |-> IF b \in V[k - 1] THEN CopyStone(src, b, k - 1) ELSE b]]
           One(b, m) == CHOOSE w \in {CopyStone(src, u, m) : u \in {b}} : TRUE
           h == CHOOSE g : g = [S \in SUBSET (DOMAIN s) |->
                  IF S = {} THEN base ELSE One(g[S \ {Max(S)}], s[Max(S)])]
<1>1. /\ n \in Nat /\ DOMAIN s = 1..n /\ \A k \in 1..n : s[k] = k - 1 /\ k - 1 \in Point
      /\ Point = 0..(n - 1)
  BY PointsAreFinite DEF Point
<1>2. \A b, D : Copied(b, src, D) => b \in FastBoard
  BY DEF Copied, Kept
<1>3. base \in V[0]
  <2>1. Copied(base, src, {}) /\ {} \in SUBSET (0..(0 - 1))
    BY FirstCopyEmpty
  <2> QED
    BY <1>1, <1>2, <2>1
<1>4. ASSUME NEW k \in 0..(n - 1)
      PROVE  V[k] \subseteq V[k + 1] /\ \A u \in V[k] : CopyStone(src, u, k) \in V[k + 1]
  <2>1. k \in 0..n /\ k + 1 \in 0..n /\ (k + 1) - 1 = k /\ k \in Point
    BY <1>1
  <2>2. \A D \in SUBSET (0..(k - 1)) : k \notin D /\ D \in SUBSET (0..k) /\ D \cup {k} \in SUBSET (0..k)
    BY <2>1
  <2>3. V[k + 1] = {b \in FastBoard : \E D \in SUBSET (0..k) : Copied(b, src, D)}
    BY <2>1
  <2>4. V[k] = {b \in FastBoard : \E D \in SUBSET (0..(k - 1)) : Copied(b, src, D)}
    BY <2>1
  <2> HIDE DEF V
  <2>5. V[k] \subseteq V[k + 1]
    BY <2>2, <2>3, <2>4
  <2>6. ASSUME NEW u \in V[k] PROVE CopyStone(src, u, k) \in V[k + 1]
    <3>1. PICK D \in SUBSET (0..(k - 1)) : Copied(u, src, D)
      BY <2>4
    <3>2. Copied(CopyStone(src, u, k), src, D \cup {k})
      BY <2>1, <2>2, <3>1, CopyStoneKeeps
    <3> QED
      BY <1>2, <2>2, <2>3, <3>2
  <2> QED
    BY <2>5, <2>6
<1>5. cfg_from_board(src) = h[DOMAIN s]
  BY DEF cfg_from_board, FirstCopy, CopyStone, FoldSteps, FoldLeft, MapThenFoldSet
<1>6. \A b, m : One(b, m) = CopyStone(src, b, m)
  <2> TAKE b, m
  <2>1. {CopyStone(src, u, m) : u \in {b}} = {CopyStone(src, b, m)}
    OBVIOUS
  <2> QED
    BY <2>1
<1>7. V \in [0..n -> SUBSET W]
  OBVIOUS
<1> HIDE DEF s, base, One
<1>8. /\ F \in [1..n -> [W -> W]]
      /\ \A k \in 0..(n - 1) : \A u \in V[k] : F[k + 1][u] = CopyStone(src, u, k)
      /\ \A k \in 0..(n - 1) : \A u \in V[k] : F[k + 1][u] \in V[k + 1]
  <2> HIDE DEF V, W
  <2>1. ASSUME NEW k \in 1..n, NEW u \in W
        PROVE  (IF u \in V[k - 1] THEN CopyStone(src, u, k - 1) ELSE u) \in W
    <3>1. k - 1 \in 0..(n - 1) /\ k - 1 + 1 \in 0..n
      BY <1>1
    <3>2. V[k - 1 + 1] \subseteq W
      BY <1>7, <3>1
    <3> QED
      BY <1>4, <3>1, <3>2
  <2>2. F \in [1..n -> [W -> W]]
    BY <2>1
  <2>3. ASSUME NEW k \in 0..(n - 1), NEW u \in V[k]
        PROVE  F[k + 1][u] = CopyStone(src, u, k) /\ CopyStone(src, u, k) \in V[k + 1]
    <3>1. k + 1 \in 1..n /\ (k + 1) - 1 = k /\ u \in W
      BY <1>1, <1>7
    <3>2. F[k + 1] = [b \in W |-> IF b \in V[k] THEN CopyStone(src, b, k) ELSE b]
      BY <3>1
    <3> QED
      BY <1>4, <3>1, <3>2
  <2> HIDE DEF F
  <2> QED
    BY <2>2, <2>3
<1> HIDE DEF V, F, W
<1>9. PICK g : /\ IsFold(W, n, base, F, g)
               /\ \A k \in 0..n : \A S \in SUBSET (1..k) : g[S] \in V[k]
  <2>1. \A k \in 0..(n - 1) : V[k] \subseteq V[k + 1]
    BY <1>4
  <2> HIDE DEF n
  <2> QED
    BY <1>1, <1>3, <1>7, <1>8, <2>1, FoldExistsInOrder
<1>10. h = [S \in SUBSET (DOMAIN s) |->
              IF S = {} THEN base ELSE One(h[S \ {Max(S)}], s[Max(S)])]
  <2>1. ASSUME NEW S \in SUBSET (1..n), S # {}
        PROVE  g[S] = One(g[S \ {Max(S)}], s[Max(S)])
    <3> DEFINE k == Max(S)
    <3>1. k \in S /\ (\A i \in S : i <= k) /\ k \in 1..n
      BY <1>1, <2>1, MaxOfRange
    <3>2. g[S] = F[k][g[S \ {k}]]
      BY <1>9, <2>1 DEF IsFold
    <3> HIDE DEF k
    <3>3. S \ {k} \in SUBSET (1..(k - 1)) /\ k - 1 \in 0..(n - 1) /\ k - 1 \in 0..n /\ k - 1 + 1 = k
      <4>1. \A i \in S \ {k} : i \in 1..(k - 1)
        BY <1>1, <3>1
      <4> QED
        BY <1>1, <3>1, <4>1
    <3>4. g[S \ {k}] \in V[k - 1]
      BY <1>9, <3>3
    <3>5. F[k][g[S \ {k}]] = CopyStone(src, g[S \ {k}], k - 1)
      BY <1>8, <3>3, <3>4
    <3> QED
      BY <1>1, <1>6, <3>1, <3>2, <3>5 DEF k
  <2>2. g = [S \in SUBSET (DOMAIN s) |->
               IF S = {} THEN base ELSE One(g[S \ {Max(S)}], s[Max(S)])]
    BY <1>1, <1>9, <2>1 DEF IsFold
  <2> QED
    BY <2>2, Zenon
<1> HIDE DEF h
<1> DEFINE T == {k \in 0..n : Copied(h[1..k], src, 0..(k - 1))}
<1>11. 0 \in T
  <2>1. 1..0 = {} /\ 0..(0 - 1) = {} /\ 0 \in 0..n
    BY <1>1
  <2>2. h[{}] = base
    BY <1>10
  <2> QED
    BY <2>1, <2>2, FirstCopyEmpty DEF base
<1>12. ASSUME NEW k \in 0..(n - 1), k \in T PROVE k + 1 \in T
  <2>1. k + 1 \in 1..n /\ k + 1 \in 0..n /\ k \in Point /\ (k + 1) - 1 = k /\ k \notin 0..(k - 1)
        /\ (0..(k - 1)) \cup {k} = 0..k
    BY <1>1
  <2>2. /\ 1..(k + 1) # {} /\ 1..(k + 1) \in SUBSET (1..n)
        /\ Max(1..(k + 1)) = k + 1 /\ (1..(k + 1)) \ {k + 1} = 1..k
    BY <1>1, <2>1, MaxOfInitial
  <2>3. h[1..(k + 1)] = CopyStone(src, h[1..k], k)
    <3>1. h[1..(k + 1)] = One(h[(1..(k + 1)) \ {Max(1..(k + 1))}], s[Max(1..(k + 1))])
      BY <1>1, <1>10, <2>2
    <3>2. s[k + 1] = k
      BY <1>1, <2>1
    <3> QED
      BY <1>6, <2>2, <3>1, <3>2
  <2>4. Copied(h[1..k], src, 0..(k - 1))
    BY <1>12
  <2>5. Copied(CopyStone(src, h[1..k], k), src, (0..(k - 1)) \cup {k})
    BY <2>1, <2>4, CopyStoneKeeps
  <2> QED
    BY <2>1, <2>3, <2>5
<1>13. n \in T
  <2>1. \A k \in 0..(n - 1) : k \in T => k + 1 \in T
    BY <1>12
  <2> HIDE DEF T, n
  <2>2. \A k \in 0..n : k \in T
    BY <1>1, <1>11, <2>1, InductionUpTo
  <2> QED
    BY <1>1, <2>2
<1> QED
  BY <1>1, <1>5, <1>13

\* The board a simulation starts from is exact for that of the match.
LEMMA CopyKeeps ==
  ASSUME NEW src \in Board, NEW b, b = cfg_from_board(src)
  PROVE  /\ Kept(b, b.p) /\ b.p = src.p /\ b.empty = {m \in Point : b.p[m] = EMPTY}
         /\ b.last_played = src.last_played /\ b.last_eaten = src.last_eaten
<1>1. Copied(b, src, Point)
  BY CopyFold
<1>2. Part(src.p, Point) = src.p
  BY BoardFields DEF Part
<1> QED
  BY <1>1, <1>2 DEF Copied

-----------------------------------------------------------------------------
(* A group killed. *)
Without(q, K) == [m \in Point |-> IF m \in K THEN EMPTY ELSE q[m]]

LEMMA WithoutTyped ==
  ASSUME NEW q \in [Point -> Stones], NEW K
  PROVE  /\ Without(q, K) \in [Point -> Stones]
         /\ \A n \in Point : Without(q, K)[n] = IF n \in K THEN EMPTY ELSE q[n]
BY DEF Without, Stones

LEMMA StonesTaken ==
  ASSUME NEW S \in SUBSET Point, NEW q \in [Point -> Stones], NEW K \in SUBSET Point,
         NEW c \in Player, \A m \in K : q[m] = c, NEW e \in Player,
         NEW q1, q1 = Without(q, K)
  PROVE  Cardinality(StonesIn(S, q1, e)) =
           IF e = c THEN Cardinality(StonesIn(S, q, e)) - Cardinality(S \cap K)
                    ELSE Cardinality(StonesIn(S, q, e))
<1>1. \A n \in Point : q1[n] = IF n \in K THEN EMPTY ELSE q[n]
  BY WithoutTyped
<1>2. CASE e = c
  <2>1. StonesIn(S, q1, e) = StonesIn(S, q, e) \ K
    BY <1>1, Marks DEF StonesIn
  <2>2. StonesIn(S, q, e) \cap K = S \cap K
    BY <1>2 DEF StonesIn
  <2>3. IsFiniteSet(StonesIn(S, q, e))
    BY PointsAreFinite DEF StonesIn
  <2> QED
    BY <1>2, <2>1, <2>2, <2>3, FS_Difference
<1>3. CASE e # c
  <2>1. StonesIn(S, q1, e) = StonesIn(S, q, e)
    BY <1>1, <1>3, Marks DEF StonesIn
  <2> QED
    BY <1>3, <2>1
<1> QED
  BY <1>2, <1>3

LEMMA FreeFields ==
  ASSUME NEW b, IsFast(b), NEW c, NEW K, NEW d, d = pos_set_free(b, K, c)
  PROVE  /\ IsFast(d) /\ d.p = b.p /\ d.last_played = b.last_played /\ d.last_eaten = b.last_eaten
         /\ d.empty = b.empty /\ d.unique_groups = b.unique_groups /\ d.g = b.g
         /\ d.group = b.group
BY DEF IsFast, pos_set_free

LEMMA FreeCounts ==
  ASSUME NEW b, IsFast(b), NEW q \in [Point -> Stones], Around(b, q),
         NEW K \in SUBSET Point, NEW c \in Player, \A m \in K : q[m] = c,
         NEW d, d = pos_set_free(b, K, c)
  PROVE  Around(d, Without(q, K))
<1> DEFINE q1 == Without(q, K)
           n4(n) == b.neighbors4[c][n] - Cardinality(neighbors_side[n] \cap K)
           n8(n) == b.neighbors8[c][n] - Cardinality(neighbors_3x3[n] \cap K)
           field(n, m) == IF m \in K THEN Xor(b.hash[n][m], Value(c)) ELSE b.hash[n][m]
<1>1. /\ d.neighbors4 = [b.neighbors4 EXCEPT ![c] = [n \in Point |-> n4(n)]]
      /\ d.neighbors8 = [b.neighbors8 EXCEPT ![c] = [n \in Point |-> n8(n)]]
      /\ d.hash = [n \in Point |-> [m \in neighbors_3x3[n] |-> field(n, m)]]
  BY DEF IsFast, pos_set_free
<1>2. \A n \in Point : /\ neighbors_side[n] \subseteq Point /\ neighbors_3x3[n] \subseteq Point
                       /\ Cardinality(neighbors_side[n] \cap K) \in Nat
                       /\ Cardinality(neighbors_3x3[n] \cap K) \in Nat
  BY NeighborsAreMutual, PointsAreFinite
<1>3. \A n \in Point : n4(n) \in Int /\ n8(n) \in Int
  <2>1. b.neighbors4[c] \in [Point -> Int] /\ b.neighbors8[c] \in [Point -> Int]
    BY DEF Around
  <2> TAKE n \in Point
  <2>2. b.neighbors4[c][n] \in Int /\ b.neighbors8[c][n] \in Int
    BY <2>1
  <2> QED
    BY <1>2, <2>2
<1>2a. \A S \in SUBSET Point, e \in Player :
         Cardinality(StonesIn(S, q1, e)) =
           IF e = c THEN Cardinality(StonesIn(S, q, e)) - Cardinality(S \cap K)
                    ELSE Cardinality(StonesIn(S, q, e))
  <2> HIDE DEF n4, n8, field
  <2>1. q1 = Without(q, K)
    OBVIOUS
  <2> HIDE DEF q1
  <2> QED
    BY <2>1, StonesTaken
<1>4. \A e \in Player, n \in Point :
        /\ Cardinality(StonesIn(neighbors_side[n], q1, e)) =
             IF e = c THEN n4(n) ELSE b.neighbors4[e][n]
        /\ Cardinality(StonesIn(neighbors_3x3[n], q1, e)) =
             IF e = c THEN n8(n) ELSE b.neighbors8[e][n]
  <2> TAKE e \in Player, n \in Point
  <2>1. /\ Cardinality(StonesIn(neighbors_side[n], q, e)) = b.neighbors4[e][n]
        /\ Cardinality(StonesIn(neighbors_3x3[n], q, e)) = b.neighbors8[e][n]
    BY DEF Around
  <2>2. neighbors_side[n] \in SUBSET Point /\ neighbors_3x3[n] \in SUBSET Point
    BY <1>2
  <2> QED
    BY <1>2a, <2>1, <2>2
<1> HIDE DEF n4, n8
<1>5. /\ d.neighbors4 \in [Player -> [Point -> Int]] /\ d.neighbors8 \in [Player -> [Point -> Int]]
      /\ \A e \in Player, n \in Point :
           /\ d.neighbors4[e][n] = IF e = c THEN n4(n) ELSE b.neighbors4[e][n]
           /\ d.neighbors8[e][n] = IF e = c THEN n8(n) ELSE b.neighbors8[e][n]
  <2>1. /\ b.neighbors4 \in [Player -> [Point -> Int]] /\ b.neighbors8 \in [Player -> [Point -> Int]]
    BY DEF Around
  <2>2. [n \in Point |-> n4(n)] \in [Point -> Int] /\ [n \in Point |-> n8(n)] \in [Point -> Int]
    BY <1>3
  <2> QED
    BY <1>1, <2>1, <2>2
<1>6. \A n \in Point : \A m \in neighbors_3x3[n] : field(n, m) = Mark(q1[m])
  <2> TAKE n \in Point
  <2> TAKE m \in neighbors_3x3[n]
  <2>1. b.hash[n][m] = Mark(q[m]) /\ m \in Point
    BY <1>2 DEF Around
  <2>2. q1[m] = IF m \in K THEN EMPTY ELSE q[m]
    BY <2>1, WithoutTyped
  <2>3. ASSUME m \in K PROVE field(n, m) = Mark(q1[m])
    <3>1. Mark(q[m]) = Value(c) /\ Mark(q1[m]) = 0
      BY <2>2, <2>3, Marks DEF Mark
    <3>2. Xor(Value(c), Value(c)) = 0
      BY DEF Xor
    <3> QED
      BY <2>1, <2>3, <3>1, <3>2
  <2>4. ASSUME m \notin K PROVE field(n, m) = Mark(q1[m])
    BY <2>1, <2>2, <2>4
  <2> QED
    BY <2>3, <2>4
<1>7. \A n \in Point : /\ d.hash[n] \in PatternMaps /\ DOMAIN d.hash[n] = neighbors_3x3[n]
                       /\ \A m \in neighbors_3x3[n] : d.hash[n][m] = Mark(q1[m])
  <2> TAKE n \in Point
  <2>1. d.hash[n] = [m \in neighbors_3x3[n] |-> field(n, m)]
    BY <1>1
  <2>2. \A m \in neighbors_3x3[n] : field(n, m) \in Int
    BY <1>6 DEF Mark, Value
  <2> HIDE DEF field, q1
  <2>3. d.hash[n] \in [neighbors_3x3[n] -> Int]
    BY <2>1, <2>2
  <2>4. d.hash[n] \in PatternMaps
    BY <1>2, <2>3, PatternMapsTyped
  <2> QED
    BY <1>6, <2>1, <2>4
<1>8. d.hash \in [Point -> PatternMaps]
  <2> HIDE DEF field
  <2> QED
    BY <1>1, <1>7
<1> HIDE DEF q1, field
<1> QED
  BY <1>4, <1>5, <1>7, <1>8 DEF Around, q1

\* The groups with the liberties of the points K.
LEMMA LibertiesGiven ==
  ASSUME NEW b, GroupsTyped(b.group), NEW K \in SUBSET Point, NEW c
  PROVE  KeepsStones(add_liberties_to_neighbors(b, K, c), b.group)
<1> DEFINE gr == add_liberties_to_neighbors(b, K, c)
           S(h) == {m \in K : \E n \in neighbors_side[m] : b.p[n] = c /\ b.g[n] = h}
<1>1. gr = [h \in DOMAIN b.group |-> add_liberty(b.group[h], S(h))]
  BY DEF add_liberties_to_neighbors
<1>2. \A h : S(h) \in SUBSET Point
  OBVIOUS
<1> HIDE DEF gr, S
<1>3. \A h \in DOMAIN b.group :
        gr[h] \in GroupType /\ SameStones(gr[h], b.group[h])
  BY <1>1, <1>2, LibertyKeeps DEF GroupsTyped
<1>4. DOMAIN gr = DOMAIN b.group /\ gr \in [DOMAIN gr -> GroupType]
  BY <1>1, <1>3
<1> QED
  BY <1>3, <1>4 DEF GroupsTyped, KeepsStones, gr

\* The groups that no longer have id for a neighbour.
LEMMA NeighborRemoved ==
  ASSUME NEW gr, GroupsTyped(gr), NEW id
  PROVE  KeepsStones(rem_neighbor(gr, id), gr)
<1> DEFINE gr1 == rem_neighbor(gr, id)
           less(h) == [gr[h] EXCEPT !.neighbors = @ \ {id}]
<1>1. gr1 = [h \in DOMAIN gr |-> IF h \in gr[id].neighbors THEN less(h) ELSE gr[h]]
  BY DEF rem_neighbor
<1>2. \A h \in DOMAIN gr : /\ less(h) \in GroupType /\ SameStones(less(h), gr[h])
                           /\ gr[h] \in GroupType /\ SameStones(gr[h], gr[h])
  BY DEF GroupsTyped, GroupType, SameStones
<1> HIDE DEF gr1, less
<1>3. \A h \in DOMAIN gr : gr1[h] \in GroupType /\ SameStones(gr1[h], gr[h])
  BY <1>1, <1>2
<1>4. DOMAIN gr1 = DOMAIN gr /\ gr1 \in [DOMAIN gr1 -> GroupType]
  BY <1>1, <1>3
<1> QED
  BY <1>3, <1>4 DEF GroupsTyped, KeepsStones, gr1

\* What the neighbours of a group killed, of stones K, become.
Rid(gr2, gr, id, K, own, q1, g1) ==
  /\ DOMAIN gr2 = DOMAIN gr \ {id}
  /\ \A h \in DOMAIN gr2 :
       /\ gr2[h].colour = gr[h].colour /\ gr2[h].stones = gr[h].stones
       /\ gr2[h].neighbors = gr[h].neighbors \ {id}
       /\ \A x : x \in gr2[h].ls <=>
            x \in gr[h].ls \/ (x \in K /\ \E n \in neighbors_side[x] : q1[n] = own /\ g1[n] = h)
       /\ GroupCounted(gr2[h])

\* The stones of a group killed are liberties of the groups of the other colour, which
\* lose a neighbour.
LEMMA KillReckons ==
  ASSUME NEW q, NEW g, NEW gr, GroupsTyped(gr), Owned(q, g, gr), Reckoned(q, g, gr),
         NEW id \in DOMAIN gr, NEW own \in Player, gr[id].colour # own,
         NEW K, K = gr[id].stones, NEW q1, q1 = Without(q, K),
         NEW g1, \A m \in Point : g1[m] = IF m \in K THEN NONE ELSE g[m],
         NEW gr2, Rid(gr2, gr, id, K, own, q1, g1)
  PROVE  Reckoned(q1, g1, gr2)
<1>1. /\ K = {m \in Point : g[m] = id} /\ id \in Point /\ id # NONE
      /\ \A m \in Point : q1[m] = IF m \in K THEN EMPTY ELSE q[m]
      /\ \A m \in Point : q[m] \in Stones /\ g[m] \in Point \cup {NONE}
      /\ \A m \in Point : g[m] # NONE => g[m] \in DOMAIN gr /\ gr[g[m]].colour = q[m]
      /\ \A m \in Point : g[m] = NONE <=> q[m] = EMPTY
  BY WithoutTyped, Marks DEF Owned, GroupsTyped
<1>2. \A h \in DOMAIN gr2 :
        /\ h \in DOMAIN gr /\ h # id /\ h # NONE /\ gr[h].stones = {m \in Point : g[m] = h}
        /\ \A m \in Point : g1[m] = h <=> g[m] = h
        /\ \A m \in Point : g[m] = h => q1[m] = q[m] /\ m \notin K
  BY <1>1, Marks DEF Rid, Owned, GroupsTyped
<1>3. \A s \in Point : neighbors_side[s] \subseteq Point
  BY NeighborsAreMutual
<1>4. Counted(gr2)
  BY DEF Rid, Counted
<1>5. Chained(q1, g1, gr2, neighbors_side)
  <2>1. Whole(q1, g1, neighbors_side)
    <3> SUFFICES ASSUME NEW s \in Point, NEW n \in neighbors_side[s], q1[s] # EMPTY, q1[n] = q1[s]
                 PROVE  g1[n] = g1[s]
      BY DEF Whole
    <3>1. n \in Point /\ s \notin K /\ n \notin K /\ q[s] # EMPTY /\ q[n] = q[s]
      BY <1>1, <1>3
    <3>2. g[n] = g[s]
      BY <3>1 DEF Reckoned, Chained, Whole
    <3> QED
      BY <3>1, <3>2
  <2>2. \A h \in DOMAIN gr2 : h \in DOMAIN gr /\ gr2[h].stones = gr[h].stones
    BY <1>2 DEF Rid
  <2> QED
    BY <2>1, <2>2 DEF Reckoned, Chained
<1>6. Bordered(g1, gr2, neighbors_side)
  <2> SUFFICES ASSUME NEW j \in DOMAIN gr2, NEW k
               PROVE  k \in gr2[j].neighbors <=>
                        /\ k \in DOMAIN gr2 /\ gr2[k].colour # gr2[j].colour
                        /\ Tied(g1, neighbors_side, j, k)
    BY DEF Bordered
  <2>1. k \in gr[j].neighbors <=>
          k \in DOMAIN gr /\ gr[k].colour # gr[j].colour /\ Tied(g, neighbors_side, j, k)
    BY <1>2 DEF Reckoned, Bordered
  <2>2. gr2[j].neighbors = gr[j].neighbors \ {id} /\ gr2[j].colour = gr[j].colour
    BY DEF Rid
  <2>3. CASE k \in DOMAIN gr2
    <3>1. k \in DOMAIN gr /\ k # id /\ gr2[k].colour = gr[k].colour
      BY <2>3 DEF Rid
    <3>2. Tied(g1, neighbors_side, j, k) <=> Tied(g, neighbors_side, j, k)
      BY <1>2, <1>3, <2>3 DEF Tied
    <3> QED
      BY <2>1, <2>2, <2>3, <3>1, <3>2
  <2>4. CASE k \notin DOMAIN gr2
    BY <2>1, <2>2, <2>4 DEF Rid
  <2> QED
    BY <2>3, <2>4
<1>7. ASSUME NEW h \in DOMAIN gr2, NEW x \in Point
      PROVE  x \in gr2[h].ls <=> q1[x] = EMPTY /\ \E k \in neighbors_side[x] : g1[k] = h
  <2>1. x \in gr[h].ls <=> q[x] = EMPTY /\ \E k \in neighbors_side[x] : g[k] = h
    BY <1>2 DEF Reckoned
  <2>2. x \in gr2[h].ls <=>
          x \in gr[h].ls \/ (x \in K /\ \E n \in neighbors_side[x] : q1[n] = own /\ g1[n] = h)
    BY DEF Rid
  <2>3. (\E k \in neighbors_side[x] : g1[k] = h) <=> (\E k \in neighbors_side[x] : g[k] = h)
    BY <1>2, <1>3
  <2>4. CASE x \notin K
    BY <1>1, <2>1, <2>2, <2>3, <2>4
  <2>5. CASE x \in K
    <3>1. g[x] = id /\ q[x] = gr[id].colour /\ q[x] # EMPTY /\ q1[x] = EMPTY
      BY <1>1, <2>5
    <3>2. ASSUME NEW n \in neighbors_side[x], g1[n] = h PROVE q1[n] = own
      <4>1. n \in Point /\ g[n] = h /\ q1[n] = q[n] /\ h # id /\ q[n] # EMPTY
        BY <1>1, <1>2, <1>3, <3>2
      <4>2. q[n] # q[x]
        BY <3>1, <4>1 DEF Reckoned, Chained, Whole
      <4> QED
        BY <1>1, <3>1, <4>1, <4>2, Marks DEF Stones, Player
    <3> QED
      BY <2>1, <2>2, <2>5, <3>1, <3>2
  <2> QED
    BY <2>4, <2>5
<1> QED
  BY <1>4, <1>5, <1>6, <1>7 DEF Reckoned

\* The groups after the stones of id were given and id removed.
LEMMA KillRids ==
  ASSUME NEW mid, NEW gr, gr = mid.group, GroupsTyped(gr), Counted(gr), MutualBorders(gr),
         NEW id \in DOMAIN gr, NEW K \in SUBSET Point, NEW own,
         NEW gr1, gr1 = rem_neighbor(add_liberties_to_neighbors(mid, K, own), id),
         NEW gr2, DOMAIN gr2 = DOMAIN gr \ {id}, \A h \in DOMAIN gr2 : SameGroup(gr2[h], gr1[h])
  PROVE  Rid(gr2, gr, id, K, own, mid.p, mid.g)
<1> DEFINE given == add_liberties_to_neighbors(mid, K, own)
           S(h) == {m \in K : \E n \in neighbors_side[m] : mid.p[n] = own /\ mid.g[n] = h}
<1>1. given = [h \in DOMAIN gr |-> add_liberty(gr[h], S(h))]
  BY DEF add_liberties_to_neighbors
<1>2. \A h : S(h) \in SUBSET Point
  OBVIOUS
<1> HIDE DEF given, S
<1>3. ASSUME NEW h \in DOMAIN gr
      PROVE  /\ SameBorder(given[h], gr[h]) /\ given[h].ls = gr[h].ls \cup S(h)
             /\ GroupCounted(given[h]) /\ given[h] \in GroupType
  <2>1. gr[h] \in GroupType /\ GroupCounted(gr[h]) /\ given[h] = add_liberty(gr[h], S(h))
    BY <1>1 DEF GroupsTyped, Counted
  <2> QED
    BY <1>2, <2>1, LibertiesCounted
<1>4. DOMAIN given = DOMAIN gr
  BY <1>1
<1>5. gr1 = [h \in DOMAIN gr |->
               IF h \in given[id].neighbors THEN [given[h] EXCEPT !.neighbors = @ \ {id}]
                                            ELSE given[h]]
  BY <1>4 DEF rem_neighbor, given
<1>6. ASSUME NEW h \in DOMAIN gr2
      PROVE  /\ gr2[h].colour = gr[h].colour /\ gr2[h].stones = gr[h].stones
             /\ gr2[h].neighbors = gr[h].neighbors \ {id}
             /\ gr2[h].ls = gr[h].ls \cup S(h)
             /\ GroupCounted(gr2[h])
  <2>1. h \in DOMAIN gr /\ SameGroup(gr2[h], gr1[h]) /\ SameBorder(given[h], gr[h])
        /\ given[h] \in GroupType /\ GroupCounted(given[h])
    BY <1>3
  <2>2. given[id].neighbors = gr[id].neighbors /\ given[h].neighbors = gr[h].neighbors
    BY <1>3, <2>1 DEF SameBorder
  <2>3. h \in gr[id].neighbors <=> id \in gr[h].neighbors
    BY <2>1 DEF MutualBorders
  <2>4. /\ gr1[h].neighbors = gr[h].neighbors \ {id} /\ gr1[h].colour = given[h].colour
        /\ gr1[h].stones = given[h].stones /\ gr1[h].ls = given[h].ls
        /\ gr1[h].liberties = given[h].liberties
        /\ gr1[h].liberties_min_coord = given[h].liberties_min_coord
    BY <1>5, <2>1, <2>2, <2>3 DEF GroupType
  <2> QED
    BY <1>3, <2>1, <2>4 DEF SameGroup, SameBorder, GroupCounted
<1> QED
  BY <1>6 DEF Rid, S

LEMMA KeptByBoth ==
  ASSUME NEW u, NEW v, NEW w, KeepsStones(u, v), KeepsStones(v, w)
  PROVE  KeepsStones(u, w)
BY DEF KeepsStones, SameStones

\* What a group killed leaves to its neighbours, if they are groups of a board e.
Left(e, K, own, near) == UNION {add_liberties_to_neighbors(e, K, own)[h].ls : h \in near}

\* t is s with the stones K of the group id, captured by own, removed.
Killed(s, id, own, K, t) ==
  /\ t = [cb |-> t.cb, captures |-> t.captures, removed |-> t.removed, libs |-> t.libs,
          one_stone_captured |-> s.one_stone_captured]
  /\ \E e \in FastBoard, near \in SUBSET Point : t.libs = s.libs \cup Left(e, K, own, near)
  /\ Kept(t.cb, Without(s.cb.p, K)) /\ t.cb.p = Without(s.cb.p, K)
  /\ t.cb.empty = s.cb.empty \cup K
  /\ t.cb.last_played = s.cb.last_played /\ t.cb.last_eaten = s.cb.last_eaten
  /\ t.captures = s.captures + Cardinality(K)
  /\ t.removed = s.removed \cup {<<m, s.cb.p[m]>> : m \in K}

\* A group is removed with all of its stones, and with nothing else.
LEMMA KillKeeps ==
  ASSUME NEW s, Kept(s.cb, s.cb.p), NEW id \in DOMAIN s.cb.group, NEW own \in Player,
         s.cb.group[id].colour # own, NEW t, t = cfg_board_kill_group(s, id, own)
  PROVE  /\ Killed(s, id, own, s.cb.group[id].stones, t)
         /\ s.cb.group[id].stones \in SUBSET Point /\ s.cb.group[id].colour \in Player
         /\ \A m \in s.cb.group[id].stones : s.cb.p[m] = s.cb.group[id].colour
<1> DEFINE b == s.cb
           q == b.p
           gr == b.group
           dead == gr[id]
           K == dead.stones
           q1 == Without(q, K)
           freed == pos_set_free(b, K, dead.colour)
           newp == [m \in Point |-> IF m \in K THEN EMPTY ELSE freed.p[m]]
           newg == [m \in Point |-> IF m \in K THEN NONE ELSE freed.g[m]]
           mid == [freed EXCEPT !.p = newp, !.g = newg, !.empty = freed.empty \cup K]
           gr1 == add_liberties_to_neighbors(mid, K, own)
           gr2 == rem_neighbor(gr1, id)
           end == [mid EXCEPT !.group = gr2]
           d == delloc_group(end, id)
<1>1. /\ t.cb = d /\ t.captures = s.captures + Cardinality(K)
      /\ t.removed = s.removed \cup {<<m, q[m]>> : m \in K}
      /\ t.libs = s.libs \cup Left(mid, K, own, dead.neighbors)
      /\ t = [cb |-> t.cb, captures |-> t.captures, removed |-> t.removed, libs |-> t.libs,
              one_stone_captured |-> s.one_stone_captured]
  BY DEF cfg_board_kill_group, Left
<1>2. /\ b \in FastBoard /\ Grouped(b, q) /\ Around(b, q) /\ IsFast(b)
      /\ GroupsTyped(gr) /\ Indexed(gr, b.unique_groups) /\ Owned(q, b.g, gr)
      /\ q \in [Point -> Stones] /\ b.g \in [Point -> Point \cup {NONE}] /\ DOMAIN gr \subseteq Point
  BY DEF Kept, Grouped, Owned, GroupsTyped
<1>2a. Reckoned(q, b.g, gr)
  BY DEF Kept
<1>3. /\ K = {m \in Point : b.g[m] = id} /\ id \in Point /\ id \in K
      /\ dead.colour \in Player /\ \A m \in K : q[m] = dead.colour
  <2>1. /\ K = {m \in Point : b.g[m] = id} /\ id \in Point /\ b.g[id] = id
        /\ \A m \in Point : b.g[m] # NONE => gr[b.g[m]].colour = q[m]
    BY <1>2 DEF Owned
  <2>2. id # NONE
    BY <2>1, Marks
  <2>3. dead.colour \in Player
    BY <1>2 DEF GroupsTyped, GroupType
  <2> HIDE DEF K
  <2> QED
    BY <2>1, <2>2, <2>3
<1> HIDE DEF K
<1>4. /\ IsFast(freed) /\ freed.p = q /\ freed.last_played = b.last_played
      /\ freed.last_eaten = b.last_eaten
      /\ freed.empty = b.empty /\ freed.unique_groups = b.unique_groups /\ freed.g = b.g
      /\ freed.group = gr
  BY <1>2, FreeFields
<1>5. Around(freed, q1)
  BY <1>2, <1>3, FreeCounts
<1> HIDE DEF freed
<1>6. /\ IsFast(mid) /\ mid.p = newp /\ mid.last_played = b.last_played
      /\ mid.last_eaten = b.last_eaten
      /\ mid.empty = b.empty \cup K /\ mid.unique_groups = b.unique_groups /\ mid.g = newg
      /\ mid.group = gr /\ mid.hash = freed.hash /\ mid.neighbors4 = freed.neighbors4
      /\ mid.neighbors8 = freed.neighbors8
  <2> HIDE DEF newp, newg
  <2>1. mid = [freed EXCEPT !.p = newp, !.g = newg, !.empty = freed.empty \cup K]
    OBVIOUS
  <2>2. IsFast(freed)
    BY <1>4
  <2> HIDE DEF mid
  <2>3. /\ IsFast(mid) /\ mid.p = newp /\ mid.last_played = freed.last_played
        /\ mid.last_eaten = freed.last_eaten
        /\ mid.empty = freed.empty \cup K /\ mid.unique_groups = freed.unique_groups
        /\ mid.g = newg /\ mid.group = freed.group /\ mid.hash = freed.hash
        /\ mid.neighbors4 = freed.neighbors4 /\ mid.neighbors8 = freed.neighbors8
    BY <2>1, <2>2 DEF IsFast
  <2> QED
    BY <1>4, <2>3
<1>7. newp = q1
  BY <1>4 DEF Without
<1>8. /\ newg \in [Point -> Point \cup {NONE}]
      /\ \A m \in Point : newg[m] = IF m \in K THEN NONE ELSE b.g[m]
  BY <1>2, <1>4
<1> HIDE DEF mid, newp, newg, q1
<1>9a. mid \in FastBoard /\ dead.neighbors \in SUBSET Point
  <2>1. /\ q1 \in [Point -> Stones] /\ b.empty \in SUBSET Point /\ K \in SUBSET Point
        /\ b.last_played \in Point \cup {NONE, PASS} /\ b.last_eaten \in Point \cup {NONE}
    <3>1. q1 \in [Point -> Stones]
      BY <1>2, WithoutTyped DEF q1
    <3>2. /\ b.empty \in SUBSET Point
          /\ b.last_played \in Point \cup {NONE, PASS} /\ b.last_eaten \in Point \cup {NONE}
      BY <1>2, FastBoardTyped
    <3> QED
      BY <1>3, <3>1, <3>2
  <2>2. /\ mid.hash \in [Point -> PatternMaps]
        /\ mid.neighbors4 \in [Player -> [Point -> Int]]
        /\ mid.neighbors8 \in [Player -> [Point -> Int]]
    BY <1>5, <1>6 DEF Around
  <2>3. mid.unique_groups \in Seq(Point) /\ GroupsTyped(mid.group) /\ mid.g = newg
    BY <1>2, <1>6 DEF Indexed
  <2>4. dead \in GroupType
    BY <1>2 DEF GroupsTyped
  <2>5. dead.neighbors \in SUBSET Point
    BY <2>4 DEF GroupType
  <2>6. mid.p \in [Point -> Stones] /\ mid.empty \in SUBSET Point
        /\ mid.last_played \in Point \cup {NONE, PASS} /\ mid.last_eaten \in Point \cup {NONE}
    BY <1>6, <1>7, <2>1
  <2> QED
    BY <1>6, <1>8, <2>2, <2>3, <2>5, <2>6, FastBoardTyped
<1>9. KeepsStones(gr2, gr)
  <2>1. KeepsStones(gr1, gr)
    BY <1>2, <1>3, <1>6, LibertiesGiven
  <2>2. GroupsTyped(gr1)
    BY <2>1 DEF KeepsStones
  <2>3. KeepsStones(gr2, gr1)
    <3> HIDE DEF gr1
    <3> QED
      BY <2>2, NeighborRemoved
  <2> HIDE DEF gr1, gr2
  <2> QED
    BY <2>1, <2>3, KeptByBoth
<1> HIDE DEF gr1, gr2
<1>10. /\ IsFast(end) /\ end.p = mid.p /\ end.last_played = b.last_played
       /\ end.last_eaten = b.last_eaten
       /\ end.empty = mid.empty /\ end.unique_groups = mid.unique_groups /\ end.g = newg
       /\ end.group = gr2 /\ end.hash = freed.hash /\ end.neighbors4 = freed.neighbors4
       /\ end.neighbors8 = freed.neighbors8
  BY <1>6 DEF IsFast
<1> HIDE DEF end
<1>11. GroupsTyped(end.group) /\ Indexed(end.group, end.unique_groups) /\ id \in DOMAIN end.group
       /\ DOMAIN end.group = DOMAIN gr
  <2>1. /\ GroupsTyped(gr2) /\ DOMAIN gr2 = DOMAIN gr
        /\ \A h \in DOMAIN gr : gr2[h].unique_groups_idx = gr[h].unique_groups_idx
    BY <1>9 DEF KeepsStones, SameStones
  <2>2. Indexed(gr2, b.unique_groups)
    BY <1>2, <2>1 DEF Indexed
  <2> QED
    BY <1>6, <1>10, <2>1, <2>2
<1>12. /\ GroupsTyped(d.group) /\ Indexed(d.group, d.unique_groups)
       /\ DOMAIN d.group = DOMAIN gr \ {id}
       /\ \A h \in DOMAIN d.group : SameGroup(d.group[h], end.group[h])
  BY <1>10, <1>11, DellocKeeps
<1>13. /\ IsFast(d) /\ d.p = end.p /\ d.g = end.g /\ d.hash = end.hash /\ d.empty = end.empty
       /\ d.last_played = end.last_played /\ d.last_eaten = end.last_eaten
       /\ d.neighbors4 = end.neighbors4 /\ d.neighbors8 = end.neighbors8
  <2>1. Len(end.unique_groups) \in Nat
    BY <1>11 DEF Indexed
  <2>2. Removed(end, id, d)
    BY <1>10, <2>1, DellocRemoves
  <2> QED
    BY <2>2 DEF Removed
<1> HIDE DEF d
<1>14. Owned(q1, d.g, d.group)
  <2>1. q1 \in [Point -> Stones] /\ \A m \in Point : q1[m] = IF m \in K THEN EMPTY ELSE q[m]
    BY <1>2, WithoutTyped DEF q1
  <2>2. d.g \in [Point -> Point \cup {NONE}] /\ \A m \in Point : d.g[m] = IF m \in K THEN NONE ELSE b.g[m]
    BY <1>8, <1>10, <1>13
  <2>3. \A h \in DOMAIN d.group : /\ h \in DOMAIN gr /\ h # id
          /\ d.group[h].colour = gr[h].colour /\ d.group[h].stones = gr[h].stones
    BY <1>9, <1>10, <1>12 DEF SameGroup, KeepsStones, SameStones
  <2>4. /\ \A m \in Point : b.g[m] = NONE <=> q[m] = EMPTY
        /\ \A m \in Point : b.g[m] # NONE => b.g[m] \in DOMAIN gr /\ gr[b.g[m]].colour = q[m]
        /\ \A h \in DOMAIN gr : b.g[h] = h /\ gr[h].stones = {m \in Point : b.g[m] = h}
    BY <1>2 DEF Owned
  <2>5. \A m \in Point : d.g[m] = NONE <=> q1[m] = EMPTY
    BY <2>1, <2>2, <2>4
  <2>6. \A m \in Point : d.g[m] # NONE =>
          d.g[m] \in DOMAIN d.group /\ d.group[d.g[m]].colour = q1[m]
    <3> SUFFICES ASSUME NEW m \in Point, d.g[m] # NONE
                 PROVE  d.g[m] \in DOMAIN d.group /\ d.group[d.g[m]].colour = q1[m]
      OBVIOUS
    <3>1. m \notin K /\ d.g[m] = b.g[m] /\ q1[m] = q[m]
      BY <2>1, <2>2
    <3>2. b.g[m] # id /\ b.g[m] \in DOMAIN gr /\ gr[b.g[m]].colour = q[m]
      BY <1>3, <2>4, <3>1
    <3>3. d.g[m] \in DOMAIN d.group
      BY <1>12, <3>1, <3>2
    <3> QED
      BY <2>3, <3>1, <3>2, <3>3
  <2>7. \A h \in DOMAIN d.group : d.g[h] = h /\ d.group[h].stones = {m \in Point : d.g[m] = h}
    <3> TAKE h \in DOMAIN d.group
    <3>1. h \in DOMAIN gr /\ h # id /\ h \in Point /\ b.g[h] = h /\ h # NONE
      BY <1>2, <2>3, <2>4, Marks
    <3>2. d.g[h] = h
      BY <1>3, <2>2, <3>1
    <3>3. d.group[h].stones = {m \in Point : b.g[m] = h}
      BY <2>3, <2>4, <3>1
    <3>4. \A m \in Point : b.g[m] = h <=> d.g[m] = h
      BY <1>3, <2>2, <3>1
    <3> QED
      BY <3>2, <3>3, <3>4
  <2> QED
    BY <2>1, <2>2, <2>5, <2>6, <2>7 DEF Owned
<1>15. Grouped(d, q1)
  BY <1>12, <1>13, <1>14 DEF Grouped
<1>16. Around(d, q1)
  BY <1>5, <1>10, <1>13 DEF Around
<1>17. d \in FastBoard
  <2>1. /\ d.p \in [Point -> Stones] /\ d.empty \in SUBSET Point
        /\ d.last_played \in Point \cup {NONE, PASS} /\ d.last_eaten \in Point \cup {NONE}
    <3>1. /\ b.empty \in SUBSET Point
          /\ b.last_played \in Point \cup {NONE, PASS} /\ b.last_eaten \in Point \cup {NONE}
      BY <1>2, FastBoardTyped
    <3>2. q1 \in [Point -> Stones] /\ K \in SUBSET Point
      BY <1>2, <1>3, WithoutTyped DEF q1
    <3> QED
      BY <1>6, <1>7, <1>10, <1>13, <3>1, <3>2
  <2>2. /\ d.hash \in [Point -> PatternMaps]
        /\ d.neighbors4 \in [Player -> [Point -> Int]]
        /\ d.neighbors8 \in [Player -> [Point -> Int]]
    BY <1>16 DEF Around
  <2>3. d.unique_groups \in Seq(Point) /\ d.g \in [Point -> Point \cup {NONE}]
    BY <1>12, <1>14 DEF Indexed, Owned
  <2> QED
    BY <1>12, <1>13, <2>1, <2>2, <2>3, FastBoardTyped
<1>18. /\ d.p = q1 /\ d.empty = b.empty \cup K
       /\ d.last_played = b.last_played /\ d.last_eaten = b.last_eaten
  BY <1>6, <1>7, <1>10, <1>13
<1>18a. Reckoned(q1, d.g, d.group)
  <2>1. /\ mid.group = gr /\ mid.p = q1 /\ mid.g = d.g /\ K \in SUBSET Point
        /\ DOMAIN d.group = DOMAIN gr \ {id}
        /\ \A h \in DOMAIN d.group : SameGroup(d.group[h], gr2[h])
    BY <1>3, <1>6, <1>7, <1>10, <1>12, <1>13
  <2>2. gr2 = rem_neighbor(add_liberties_to_neighbors(mid, K, own), id)
    BY DEF gr2, gr1
  <2>3. Counted(gr) /\ MutualBorders(gr)
    <3>1. IsTies(neighbors_side)
      BY <1>3, TiesOfPoints
    <3> QED
      BY <1>2a, <3>1, BordersAreMutual DEF Reckoned
  <2>0. K = gr[id].stones /\ q1 = Without(q, K) /\ gr[id].colour # own /\ id \in DOMAIN gr
    BY DEF K, q1
  <2> HIDE DEF gr, gr2, gr1, mid, q1, d, end, freed, newp, newg, q
  <2>4. Rid(d.group, gr, id, K, own, mid.p, mid.g)
    BY <1>2, <2>0, <2>1, <2>2, <2>3, KillRids
  <2>6. Rid(d.group, gr, id, K, own, q1, d.g)
    BY <2>1, <2>4
  <2>5. \A m \in Point : d.g[m] = IF m \in K THEN NONE ELSE b.g[m]
    BY <1>8, <1>10, <1>13
  <2> HIDE DEF b
  <2> QED
    BY <1>2, <1>2a, <2>0, <2>6, <2>5, KillReckons
<1>19. Killed(s, id, own, K, t)
  BY <1>1, <1>9a, <1>15, <1>16, <1>17, <1>18, <1>18a DEF Killed, Kept, q1
<1>20. K \in SUBSET Point
  BY <1>3
<1> QED
  BY <1>3, <1>19, <1>20 DEF K

LEMMA WithoutBoth ==
  ASSUME NEW q, NEW K, NEW D
  PROVE  Without(Without(q, K), D) = Without(q, K \cup D)
BY DEF Without

\* In s the stones K of the board b, of the opponent of c, were captured.
Taken(b, c, K, s) ==
  /\ \A m \in K : b.p[m] = Opponent(c)
  /\ s.cb.p = Without(b.p, K) /\ s.cb.empty = b.empty \cup K
  /\ s.cb.last_played = b.last_played /\ s.cb.last_eaten = b.last_eaten
  /\ s.captures = Cardinality(K) /\ s.removed = {<<m, b.p[m]>> : m \in K}

EveryLeft ==
  UNION {Left(e, K, own, near) :
           e \in FastBoard, K \in SUBSET Point, own \in Player, near \in SUBSET Point}

CaptureType ==
  [cb : FastBoard, captures : Nat, removed : SUBSET (Point \X Stones), libs : SUBSET EveryLeft,
   one_stone_captured : Point \cup {NONE}]

\* The values of the captures of a stone of colour c on b.
CapturesOf(b, c) ==
  {s \in CaptureType : Kept(s.cb, s.cb.p) /\ \E K \in SUBSET Point : Taken(b, c, K, s)}

LEMMA CaptureTyped ==
  ASSUME NEW s
  PROVE  s \in CaptureType <=>
           /\ s = [cb |-> s.cb, captures |-> s.captures, removed |-> s.removed, libs |-> s.libs,
                   one_stone_captured |-> s.one_stone_captured]
           /\ s.cb \in FastBoard /\ s.captures \in Nat /\ s.removed \in SUBSET (Point \X Stones)
           /\ s.libs \in SUBSET EveryLeft /\ s.one_stone_captured \in Point \cup {NONE}
<1> DEFINE F == FastBoard
           L == SUBSET EveryLeft
           R == SUBSET (Point \X Stones)
           P == Point \cup {NONE}
<1>1. CaptureType = [cb : F, captures : Nat, removed : R, libs : L, one_stone_captured : P]
  BY DEF CaptureType
<1> HIDE DEF F, L, R, P
<1>2. s \in [cb : F, captures : Nat, removed : R, libs : L, one_stone_captured : P] <=>
           /\ s = [cb |-> s.cb, captures |-> s.captures, removed |-> s.removed, libs |-> s.libs,
                   one_stone_captured |-> s.one_stone_captured]
           /\ s.cb \in F /\ s.captures \in Nat /\ s.removed \in R
           /\ s.libs \in L /\ s.one_stone_captured \in P
  OBVIOUS
<1> QED
  BY <1>1, <1>2 DEF F, L, R, P

LEMMA CapturedLast ==
  ASSUME NEW t, NEW u, NEW n,
         t = [cb |-> t.cb, captures |-> t.captures, removed |-> t.removed, libs |-> t.libs,
              one_stone_captured |-> u]
  PROVE  [t EXCEPT !.one_stone_captured = n] =
           [cb |-> t.cb, captures |-> t.captures, removed |-> t.removed, libs |-> t.libs,
            one_stone_captured |-> n]
<1> DEFINE v1 == t.cb
           v2 == t.captures
           v3 == t.removed
           v4 == t.libs
           w == [cb |-> v1, captures |-> v2, removed |-> v3, libs |-> v4,
                 one_stone_captured |-> u]
<1>1. t = w
  OBVIOUS
<1>2. [w EXCEPT !.one_stone_captured = n] =
        [cb |-> v1, captures |-> v2, removed |-> v3, libs |-> v4, one_stone_captured |-> n]
  <2> HIDE DEF v1, v2, v3, v4
  <2> QED
    OBVIOUS
<1> HIDE DEF w
<1> QED
  BY <1>1, <1>2

\* A group without a liberty, captured, is added to the stones captured.
LEMMA CaptureTakes ==
  ASSUME NEW b \in FastBoard, NEW c \in Player, NEW s \in CapturesOf(b, c), NEW n \in Point,
         s.cb.g[n] # NONE, s.cb.group[s.cb.g[n]].colour # c,
         s.cb.group[s.cb.g[n]].liberties = 0,
         NEW K \in SUBSET Point, Taken(b, c, K, s)
  PROVE  /\ Capture(s, c, n) \in CapturesOf(b, c)
         /\ Taken(b, c, K \cup s.cb.group[s.cb.g[n]].stones, Capture(s, c, n))
         /\ Capture(s, c, n).one_stone_captured = n
<1> DEFINE h == s.cb.g[n]
           t == cfg_board_kill_group(s, h, c)
           w == [t EXCEPT !.one_stone_captured = n]
           D == s.cb.group[h].stones
<1>0. s \in CaptureType /\ Kept(s.cb, s.cb.p)
  BY DEF CapturesOf
<1>1. Capture(s, c, n) = w
  BY DEF Capture
<1>2. h \in DOMAIN s.cb.group
  BY <1>0 DEF Kept, Grouped, Owned
<1>3. /\ Killed(s, h, c, D, t) /\ D \in SUBSET Point /\ s.cb.group[h].colour \in Player
      /\ \A m \in D : s.cb.p[m] = s.cb.group[h].colour
  BY <1>0, <1>2, KillKeeps
<1>4. \A m \in D : s.cb.p[m] = Opponent(c)
  BY <1>3, Marks
<1> HIDE DEF D, t, h
<1>5. b.p \in [Point -> Stones] /\ \A m \in Point : s.cb.p[m] = IF m \in K THEN EMPTY ELSE b.p[m]
  <2>1. b.p \in [Point -> Stones]
    BY FastBoardTyped
  <2>2. s.cb.p = Without(b.p, K)
    BY DEF Taken
  <2> QED
    BY <2>1, <2>2, WithoutTyped
<1>6. D \cap K = {} /\ \A m \in D : b.p[m] = Opponent(c) /\ s.cb.p[m] = b.p[m]
  BY <1>3, <1>4, <1>5, Marks
<1>7. /\ w = [cb |-> t.cb, captures |-> t.captures, removed |-> t.removed, libs |-> t.libs,
              one_stone_captured |-> n]
  <2>1. t = [cb |-> t.cb, captures |-> t.captures, removed |-> t.removed, libs |-> t.libs,
             one_stone_captured |-> s.one_stone_captured]
    BY <1>3 DEF Killed
  <2> QED
    BY <2>1, CapturedLast
<1> HIDE DEF w
<1>8. /\ w.cb = t.cb /\ w.captures = t.captures /\ w.removed = t.removed /\ w.libs = t.libs
      /\ w.one_stone_captured = n
      /\ w = [cb |-> w.cb, captures |-> w.captures, removed |-> w.removed, libs |-> w.libs,
              one_stone_captured |-> w.one_stone_captured]
  BY <1>7
<1>9. Kept(w.cb, w.cb.p) /\ w.cb \in FastBoard
  BY <1>3, <1>8 DEF Killed, Kept
<1>10. /\ s.captures = Cardinality(K) /\ s.removed = {<<m, b.p[m]>> : m \in K}
       /\ s.cb.p = Without(b.p, K) /\ s.cb.empty = b.empty \cup K
       /\ s.cb.last_played = b.last_played /\ s.cb.last_eaten = b.last_eaten
       /\ \A m \in K : b.p[m] = Opponent(c)
  BY DEF Taken
<1>11. /\ w.cb.p = Without(s.cb.p, D) /\ w.cb.empty = s.cb.empty \cup D
       /\ w.cb.last_played = s.cb.last_played /\ w.cb.last_eaten = s.cb.last_eaten
       /\ w.captures = s.captures + Cardinality(D)
       /\ w.removed = s.removed \cup {<<m, s.cb.p[m]>> : m \in D}
       /\ \E e \in FastBoard, near \in SUBSET Point : w.libs = s.libs \cup Left(e, D, c, near)
  BY <1>3, <1>8 DEF Killed
<1>12. w.captures = Cardinality(K \cup D) /\ Cardinality(K \cup D) \in Nat
  <2>1. /\ IsFiniteSet(K) /\ IsFiniteSet(D) /\ K \cap D = {}
        /\ Cardinality(K) \in Nat /\ Cardinality(D) \in Nat /\ Cardinality(K \cup D) \in Nat
    BY <1>3, <1>6, PointsAreFinite
  <2>2. Cardinality(K \cup D) = Cardinality(K) + Cardinality(D)
    <3>1. Cardinality(K \cup D) = Cardinality(K) + Cardinality(D) - Cardinality(K \cap D)
      BY <2>1, FS_Union
    <3>2. Cardinality(K \cap D) = 0
      BY <2>1, FS_EmptySet
    <3> QED
      BY <2>1, <3>1, <3>2
  <2> QED
    BY <1>10, <1>11, <2>1, <2>2
<1>13. w.removed = {<<m, b.p[m]>> : m \in K \cup D}
  BY <1>6, <1>10, <1>11
<1>14. w.cb.p = Without(b.p, K \cup D)
  BY <1>10, <1>11, WithoutBoth
<1>15. \A m \in K \cup D : b.p[m] = Opponent(c)
  BY <1>6, <1>10
<1>16. Taken(b, c, K \cup D, w) /\ K \cup D \in SUBSET Point
  BY <1>3, <1>10, <1>11, <1>12, <1>13, <1>14, <1>15 DEF Taken
<1>17. w.libs \in SUBSET EveryLeft
  <2>1. s.libs \in SUBSET EveryLeft
    BY <1>0, CaptureTyped
  <2>2. PICK e \in FastBoard, near \in SUBSET Point : w.libs = s.libs \cup Left(e, D, c, near)
    BY <1>11
  <2>3. Left(e, D, c, near) \subseteq EveryLeft
    BY <1>3, <2>2 DEF EveryLeft
  <2> QED
    BY <2>1, <2>2, <2>3
<1>18. w.removed \in SUBSET (Point \X Stones)
  BY <1>5, <1>13, <1>16
<1>19. w \in CaptureType
  BY <1>8, <1>9, <1>12, <1>17, <1>18, CaptureTyped
<1>20. w \in CapturesOf(b, c)
  BY <1>9, <1>16, <1>19 DEF CapturesOf
<1> QED
  BY <1>1, <1>8, <1>16, <1>20 DEF D, h

LEMMA CaptureKeeps ==
  ASSUME NEW b \in FastBoard, NEW c \in Player, NEW s \in CapturesOf(b, c), NEW n \in Point
  PROVE  Capture(s, c, n) \in CapturesOf(b, c)
<1>1. PICK K \in SUBSET Point : Taken(b, c, K, s)
  BY DEF CapturesOf
<1>2. CASE ~(/\ s.cb.g[n] # NONE /\ s.cb.group[s.cb.g[n]].colour # c
             /\ s.cb.group[s.cb.g[n]].liberties = 0)
  BY <1>2 DEF Capture
<1> QED
  BY <1>1, <1>2, CaptureTakes

NoCapture(b) ==
  [cb |-> b, captures |-> 0, removed |-> {}, libs |-> {}, one_stone_captured |-> NONE]

LEMMA NothingTaken ==
  ASSUME NEW b, Kept(b, b.p), NEW c
  PROVE  NoCapture(b) \in CapturesOf(b, c)
<1> DEFINE s == NoCapture(b)
<1>1. /\ s.cb = b /\ s.captures = 0 /\ s.removed = {} /\ s.libs = {}
      /\ s.one_stone_captured = NONE
      /\ s = [cb |-> s.cb, captures |-> s.captures, removed |-> s.removed, libs |-> s.libs,
              one_stone_captured |-> s.one_stone_captured]
  BY DEF NoCapture
<1> HIDE DEF s
<1>2. b \in FastBoard /\ b.p \in [Point -> Stones]
  BY FastBoardTyped DEF Kept
<1>3. s \in CaptureType
  BY <1>1, <1>2, CaptureTyped
<1>4. Without(b.p, {}) = b.p
  BY <1>2 DEF Without
<1>5. Taken(b, c, {}, s)
  BY <1>1, <1>4, FS_EmptySet DEF Taken
<1> QED
  BY <1>1, <1>3, <1>5 DEF CapturesOf, s

\* The groups beside a stone, captured one by one.
LEMMA CaptureFold ==
  ASSUME NEW b, Kept(b, b.p), NEW c \in Player, NEW m \in Point
  PROVE  LET V == CapturesOf(b, c)
             Step(u, n) == Capture(u, c, n)
             s == IF b.neighbors4[Opponent(c)][m] > 0 THEN Sides[m] ELSE <<>>
         IN \E a \in [0..Len(s) -> V] :
              /\ a[0] = NoCapture(b)
              /\ \A k \in 1..Len(s) : a[k] = Step(a[k - 1], s[k])
              /\ Captures(b, c, m) = a[Len(s)]
<1> DEFINE V == CapturesOf(b, c)
           Step(u, n) == Capture(u, c, n)
           s == IF b.neighbors4[Opponent(c)][m] > 0 THEN Sides[m] ELSE <<>>
           base == NoCapture(b)
           F == [k \in 1..Len(s) |-> [u \in V |-> Step(u, s[k])]]
           One(v, n) == CHOOSE w \in {Step(u, n) : u \in {v}} : TRUE
           h == CHOOSE g : g = [S \in SUBSET (DOMAIN s) |->
                  IF S = {} THEN base ELSE One(g[S \ {Max(S)}], s[Max(S)])]
           a == [k \in 0..Len(s) |-> h[1..k]]
<1>1. /\ s \in Seq(Point) /\ Len(s) \in Nat /\ DOMAIN s = 1..Len(s)
      /\ \A k \in 1..Len(s) : s[k] \in Point
  BY NeighborsOfPoint
<1>2. base \in V
  BY NothingTaken
<1>3. ASSUME NEW u \in V, NEW n \in Point PROVE Step(u, n) \in V
  BY <1>3, CaptureKeeps DEF Kept
<1>4. Captures(b, c, m) = h[DOMAIN s]
  BY DEF Captures, NoCapture, FoldSteps, FoldLeft, MapThenFoldSet
<1>5. \A v, n : One(v, n) = Step(v, n)
  <2> TAKE v, n
  <2>1. {Step(u, n) : u \in {v}} = {Step(v, n)}
    OBVIOUS
  <2> HIDE DEF Step
  <2> QED
    BY <2>1
<1>6. F \in [1..Len(s) -> [V -> V]]
  BY <1>1, <1>3
<1> HIDE DEF V, Step, s, base, One
<1>7. PICK g : IsFold(V, Len(s), base, F, g)
  <2> HIDE DEF F
  <2> QED
    BY <1>1, <1>2, <1>6, FoldExists
<1>8. h = [S \in SUBSET (DOMAIN s) |->
             IF S = {} THEN base ELSE One(h[S \ {Max(S)}], s[Max(S)])]
  <2>1. ASSUME NEW S \in SUBSET (1..Len(s)), S # {}
        PROVE  g[S] = One(g[S \ {Max(S)}], s[Max(S)])
    <3>1. Max(S) \in 1..Len(s)
      BY <1>1, <2>1, MaxOfRange
    <3>2. g[S \ {Max(S)}] \in V
      BY <1>7, <3>1 DEF IsFold
    <3>3. g[S] = F[Max(S)][g[S \ {Max(S)}]]
      BY <1>7, <2>1 DEF IsFold
    <3> QED
      BY <1>5, <3>1, <3>2, <3>3
  <2>2. g = [S \in SUBSET (DOMAIN s) |->
               IF S = {} THEN base ELSE One(g[S \ {Max(S)}], s[Max(S)])]
    BY <1>1, <1>7, <2>1 DEF IsFold
  <2> QED
    BY <2>2, Zenon
<1> HIDE DEF h, F
<1>9. h[{}] = base
  BY <1>8
<1>10. ASSUME NEW k \in 1..Len(s) PROVE h[1..k] = Step(h[1..(k - 1)], s[k])
  <2>1. /\ 1..k # {} /\ 1..k \in SUBSET (1..Len(s))
        /\ Max(1..k) = k /\ (1..k) \ {k} = 1..(k - 1)
    BY <1>1, MaxOfInitial
  <2> QED
    BY <1>1, <1>5, <1>8, <2>1
<1>11. \A k \in 0..Len(s) : h[1..k] \in V
  <2>1. \A k \in 1..Len(s) : h[1..(k - 1)] \in V => h[1..k] \in V
    BY <1>1, <1>3, <1>10
  <2> QED
    BY <1>1, <1>2, <1>9, <2>1, FoldValues
<1>12. a \in [0..Len(s) -> V] /\ a[0] = base /\ Captures(b, c, m) = a[Len(s)]
  <2>1. 1..0 = {}
    OBVIOUS
  <2> QED
    BY <1>1, <1>4, <1>9, <1>11, <2>1
<1>13. \A k \in 1..Len(s) : a[k] = Step(a[k - 1], s[k])
  BY <1>1, <1>10
<1> HIDE DEF a
<1> QED
  BY <1>12, <1>13 DEF V, Step, s, base

-----------------------------------------------------------------------------
(* The stones that the slow board captures. *)
\* Stones that ties join are a chain, if no stone of their colour beside them is not theirs.
LEMMA GroupsOfChains ==
  ASSUME NEW q, NEW g, NEW gr, Owned(q, g, gr), Chained(q, g, gr, neighbors_side),
         NEW m \in Point, g[m] # NONE
  PROVE  gr[g[m]].stones = Chain(q, m)
<1> DEFINE h == g[m]
           K == gr[h].stones
           same == {n \in Point : q[n] = q[m]}
<1>0. h \in DOMAIN gr
  BY DEF Owned
<1>1. /\ m \in K /\ K \in SUBSET Point /\ q[m] # EMPTY
      /\ \A x \in Point : x \in K <=> g[x] = h
      /\ \A x \in K : q[x] = q[m]
  <2>1. K = {x \in Point : g[x] = h} /\ h # NONE
    BY <1>0 DEF Owned
  <2>2. \A x \in Point : g[x] = h => gr[h].colour = q[x] /\ q[x] # EMPTY
    BY <2>1 DEF Owned
  <2> HIDE DEF K
  <2> QED
    BY <2>1, <2>2
<1>2. \A s, n \in Point : n \in neighbors_side[s] /\ q[s] # EMPTY /\ q[n] = q[s] => g[n] = g[s]
  BY DEF Chained, Whole
<1>3. \A S \in SUBSET K :
        S # {} /\ (\A s \in S : neighbors_side[s] \cap K \subseteq S) => S = K
  BY <1>0 DEF Chained
<1>4. Chain(q, m) = {n \in same : \A S \in SUBSET same :
                       (m \in S /\ \A s \in S : neighbors_side[s] \cap same \subseteq S) => n \in S}
  BY DEF Chain
<1> HIDE DEF K, h
<1>5. ASSUME NEW n \in K PROVE n \in Chain(q, m)
  <2>1. n \in same /\ K \subseteq same
    BY <1>1, <1>5
  <2>2. ASSUME NEW S \in SUBSET same, m \in S, \A s \in S : neighbors_side[s] \cap same \subseteq S
        PROVE  n \in S
    <3> DEFINE T == S \cap K
    <3>1. T \in SUBSET K /\ T # {} /\ \A s \in T : neighbors_side[s] \cap K \subseteq T
      BY <1>1, <2>1, <2>2
    <3>2. T = K
      BY <1>3, <3>1
    <3> QED
      BY <1>5, <3>2
  <2> QED
    BY <1>4, <2>1, <2>2
<1>6. ASSUME NEW n \in Chain(q, m) PROVE n \in K
  <2>1. K \in SUBSET same /\ m \in K
    BY <1>1
  <2>2. \A s \in K : neighbors_side[s] \cap same \subseteq K
    BY <1>1, <1>2
  <2> QED
    BY <1>4, <1>6, <2>1, <2>2
<1> QED
  BY <1>5, <1>6 DEF K, h

\* Two boards of one another less some whole groups: the others are the same.
LEMMA SameChains ==
  ASSUME NEW q, NEW g, NEW gr, Owned(q, g, gr), Chained(q, g, gr, neighbors_side),
         NEW K \in SUBSET Point, \A x \in K, y \in Point : g[y] = g[x] => y \in K,
         NEW q1, q1 = Without(q, K),
         NEW g1, NEW gr1, Owned(q1, g1, gr1), Chained(q1, g1, gr1, neighbors_side),
         NEW n \in Point, q1[n] # EMPTY
  PROVE  \A x \in Point : g1[x] = g1[n] <=> g[x] = g[n]
<1> DEFINE A == {x \in Point : g[x] = g[n]}
           B == {x \in Point : g1[x] = g1[n]}
<1>1. /\ n \notin K /\ q[n] # EMPTY /\ g[n] \in DOMAIN gr /\ g1[n] \in DOMAIN gr1
      /\ A = gr[g[n]].stones /\ B = gr1[g1[n]].stones
      /\ n \in A /\ n \in B
  BY DEF Without, Owned
<1>2. /\ \A x \in A : q[x] = q[n] /\ x \notin K
      /\ \A x \in B : q1[x] = q1[n]
      /\ \A x \in Point : q1[x] = IF x \in K THEN EMPTY ELSE q[x]
  BY <1>1 DEF Without, Owned
<1>3. B \subseteq A
  <2>1. \A s \in B \cap A : neighbors_side[s] \cap B \subseteq B \cap A
    <3>1. \A s \in A : \A x \in neighbors_side[s] : q[s] # EMPTY /\ q[x] = q[s] => g[x] = g[s]
      BY DEF Chained, Whole
    <3> HIDE DEF B
    <3>2. \A s \in B \cap A, x \in B : q[x] = q[s] /\ q[s] # EMPTY
      BY <1>1, <1>2 DEF B
    <3>3. \A x \in B : x \in Point
      BY DEF B
    <3> QED
      BY <3>1, <3>2, <3>3
  <2>2. B \cap A \in SUBSET gr1[g1[n]].stones /\ B \cap A # {}
    BY <1>1
  <2>3. B \cap A = gr1[g1[n]].stones
    <3> HIDE DEF A, B
    <3>1. \A S \in SUBSET gr1[g1[n]].stones :
            S # {} /\ (\A s \in S : neighbors_side[s] \cap gr1[g1[n]].stones \subseteq S)
              => S = gr1[g1[n]].stones
      BY <1>1 DEF Chained
    <3> QED
      BY <1>1, <2>1, <2>2, <3>1
  <2> HIDE DEF A, B
  <2> QED
    BY <1>1, <2>3
<1>4. A \subseteq B
  <2>1. \A s \in A \cap B : neighbors_side[s] \cap A \subseteq A \cap B
    <3>1. \A s \in B : \A x \in neighbors_side[s] : q1[s] # EMPTY /\ q1[x] = q1[s] => g1[x] = g1[s]
      BY DEF Chained, Whole
    <3> HIDE DEF A
    <3>2. \A s \in A \cap B, x \in A : q1[x] = q1[s] /\ q1[s] # EMPTY
      BY <1>1, <1>2 DEF A
    <3>3. \A x \in A : x \in Point
      BY DEF A
    <3> QED
      BY <3>1, <3>2, <3>3
  <2>2. A \cap B \in SUBSET gr[g[n]].stones /\ A \cap B # {}
    BY <1>1
  <2>3. A \cap B = gr[g[n]].stones
    <3> HIDE DEF A, B
    <3>1. \A S \in SUBSET gr[g[n]].stones :
            S # {} /\ (\A s \in S : neighbors_side[s] \cap gr[g[n]].stones \subseteq S)
              => S = gr[g[n]].stones
      BY <1>1 DEF Chained
    <3> QED
      BY <1>1, <2>1, <2>2, <3>1
  <2> HIDE DEF A, B
  <2> QED
    BY <1>1, <2>3
<1> QED
  BY <1>3, <1>4

\* A group has no liberty when no free point is beside its stones.
LEMMA NoLiberty ==
  ASSUME NEW q, NEW g, NEW gr, GroupsTyped(gr), Reckoned(q, g, gr), NEW h \in DOMAIN gr
  PROVE  gr[h].liberties = 0 <=>
           \A x \in Point : q[x] = EMPTY => \A k \in neighbors_side[x] : g[k] # h
<1>1. /\ gr[h].ls \in SUBSET Point /\ gr[h].liberties = Cardinality(gr[h].ls)
      /\ \A x \in Point : x \in gr[h].ls <=> q[x] = EMPTY /\ \E k \in neighbors_side[x] : g[k] = h
  BY DEF GroupsTyped, GroupType, Reckoned, Counted, GroupCounted
<1>2. Cardinality(gr[h].ls) = 0 <=> gr[h].ls = {}
  BY <1>1, PointsAreFinite, FS_EmptySet
<1> QED
  BY <1>1, <1>2

LEMMA SameLiberties ==
  ASSUME NEW q, NEW g, NEW gr, GroupsTyped(gr), Owned(q, g, gr), Reckoned(q, g, gr),
         NEW K \in SUBSET Point, \A x \in K, y \in Point : g[y] = g[x] => y \in K,
         NEW q1, q1 = Without(q, K),
         NEW g1, NEW gr1, GroupsTyped(gr1), Owned(q1, g1, gr1), Reckoned(q1, g1, gr1),
         NEW n \in Point, q1[n] # EMPTY, \A x \in K : q[x] = q[n]
  PROVE  gr1[g1[n]].liberties = 0 <=> gr[g[n]].liberties = 0
<1>1. \A x \in Point : g1[x] = g1[n] <=> g[x] = g[n]
  BY SameChains DEF Reckoned
<1>2. /\ q[n] # EMPTY /\ g[n] \in DOMAIN gr /\ g1[n] \in DOMAIN gr1
      /\ n \notin K
      /\ \A x \in Point : q1[x] = IF x \in K THEN EMPTY ELSE q[x]
  BY DEF Without, Owned
<1>3. \A x \in Point : neighbors_side[x] \in SUBSET Point
  BY NeighborsAreMutual
<1>4. \A x \in K : \A k \in neighbors_side[x] : g[k] # g[n]
  <2> SUFFICES ASSUME NEW x \in K, NEW k \in neighbors_side[x], g[k] = g[n] PROVE FALSE
    OBVIOUS
  <2>1. k \in Point /\ q[k] = q[n] /\ q[x] = q[n]
    BY <1>2, <1>3 DEF Owned
  <2>2. g[k] = g[x]
    BY <1>2, <2>1 DEF Reckoned, Chained, Whole
  <2> QED
    BY <1>2, <2>1, <2>2
<1>5. gr1[g1[n]].liberties = 0 <=>
        \A x \in Point : q1[x] = EMPTY => \A k \in neighbors_side[x] : g1[k] # g1[n]
  BY <1>2, NoLiberty
<1>6. gr[g[n]].liberties = 0 <=>
        \A x \in Point : q[x] = EMPTY => \A k \in neighbors_side[x] : g[k] # g[n]
  BY <1>2, NoLiberty
<1> QED
  BY <1>1, <1>2, <1>3, <1>4, <1>5, <1>6

\* The stones of the groups without a liberty, of the opponent of c, that have one at P.
Dead(b, c, P) ==
  {x \in Point : \E n \in P : /\ b.g[n] # NONE /\ b.g[x] = b.g[n]
                              /\ b.group[b.g[n]].colour # c /\ b.group[b.g[n]].liberties = 0}

\* In s just these were captured, the last of them at one_stone_captured.
Slain(b, c, P, s) ==
  /\ Taken(b, c, Dead(b, c, P), s)
  /\ Dead(b, c, P) # {} => s.one_stone_captured \in Dead(b, c, P)

\* The groups beside a play are captured whole, whatever was captured before them.
LEMMA CaptureSlays ==
  ASSUME NEW b, Kept(b, b.p), NEW c \in Player, NEW P \in SUBSET Point, NEW n \in Point,
         NEW s \in CapturesOf(b, c), Slain(b, c, P, s)
  PROVE  Slain(b, c, P \cup {n}, Capture(s, c, n))
<1> DEFINE K == Dead(b, c, P)
           D == s.cb.group[s.cb.g[n]].stones
           hit == {x \in Point : /\ b.g[n] # NONE /\ b.g[x] = b.g[n]
                                 /\ b.group[b.g[n]].colour # c /\ b.group[b.g[n]].liberties = 0}
           takes == /\ s.cb.g[n] # NONE /\ s.cb.group[s.cb.g[n]].colour # c
                    /\ s.cb.group[s.cb.g[n]].liberties = 0
<1>1. /\ Owned(b.p, b.g, b.group) /\ GroupsTyped(b.group) /\ Reckoned(b.p, b.g, b.group)
      /\ b \in FastBoard
  BY DEF Kept, Grouped
<1>2. /\ Owned(s.cb.p, s.cb.g, s.cb.group) /\ GroupsTyped(s.cb.group)
      /\ Reckoned(s.cb.p, s.cb.g, s.cb.group)
  BY DEF CapturesOf, Kept, Grouped
<1>3. /\ K \in SUBSET Point /\ \A x \in K, y \in Point : b.g[y] = b.g[x] => y \in K
      /\ Dead(b, c, P \cup {n}) = K \cup hit
  BY DEF Dead
<1>4. /\ Taken(b, c, K, s) /\ (K # {} => s.one_stone_captured \in K)
      /\ s.cb.p = Without(b.p, K) /\ \A x \in K : b.p[x] = Opponent(c)
  BY DEF Slain, Taken
<1> HIDE DEF K
<1>5. \A x \in Point : s.cb.p[x] = IF x \in K THEN EMPTY ELSE b.p[x]
  BY <1>4 DEF Without
<1>6. ASSUME s.cb.p[n] = Opponent(c)
      PROVE  /\ \A x \in Point : s.cb.g[x] = s.cb.g[n] <=> b.g[x] = b.g[n]
             /\ s.cb.group[s.cb.g[n]].liberties = 0 <=> b.group[b.g[n]].liberties = 0
  <2>1. s.cb.p[n] # EMPTY /\ b.p[n] = Opponent(c) /\ \A x \in K : b.p[x] = b.p[n]
    BY <1>4, <1>5, <1>6, Marks
  <2>2. \A x \in Point : s.cb.g[x] = s.cb.g[n] <=> b.g[x] = b.g[n]
    <3>1. Chained(b.p, b.g, b.group, neighbors_side)
          /\ Chained(s.cb.p, s.cb.g, s.cb.group, neighbors_side)
      BY <1>1, <1>2 DEF Reckoned
    <3> QED
      BY <1>1, <1>2, <1>3, <1>4, <2>1, <3>1, SameChains
  <2>3. s.cb.group[s.cb.g[n]].liberties = 0 <=> b.group[b.g[n]].liberties = 0
    BY <1>1, <1>2, <1>3, <1>4, <2>1, SameLiberties
  <2> QED
    BY <2>2, <2>3
<1>7. CASE takes
  <2>1. /\ s.cb.p[n] = s.cb.group[s.cb.g[n]].colour /\ s.cb.g[n] \in DOMAIN s.cb.group
        /\ D = {x \in Point : s.cb.g[x] = s.cb.g[n]}
    BY <1>2, <1>7 DEF Owned
  <2>2. s.cb.p[n] = Opponent(c)
    <3>1. s.cb.group[s.cb.g[n]].colour \in Player
      BY <1>2, <2>1 DEF GroupsTyped, GroupType
    <3> QED
      BY <1>7, <2>1, <3>1, Marks
  <2>3. b.p[n] = Opponent(c) /\ b.g[n] # NONE /\ b.group[b.g[n]].colour = Opponent(c)
    BY <1>1, <1>5, <2>2, Marks DEF Owned
  <2> HIDE DEF D
  <2>4. D = hit
    BY <1>6, <1>7, <2>1, <2>2, <2>3, Marks
  <2>5. /\ Taken(b, c, K \cup D, Capture(s, c, n)) /\ Capture(s, c, n).one_stone_captured = n
    BY <1>1, <1>3, <1>4, <1>7, CaptureTakes DEF D
  <2>6. n \in D
    BY <2>1
  <2> HIDE DEF hit
  <2> QED
    BY <1>3, <2>4, <2>5, <2>6 DEF Slain
<1>8. CASE ~takes
  <2>1. Capture(s, c, n) = s
    BY <1>8 DEF Capture
  <2>2. hit \subseteq K
    <3> SUFFICES ASSUME NEW x \in hit, x \notin K PROVE FALSE
      OBVIOUS
    <3>1. n \notin K
      BY <1>3
    <3>2. b.p[n] # EMPTY /\ b.p[n] = b.group[b.g[n]].colour /\ b.p[n] # c
      BY <1>1 DEF Owned
    <3>3. s.cb.p[n] = b.p[n] /\ b.p[n] \in Stones
      BY <1>1, <1>5, <3>1 DEF Owned
    <3>4. s.cb.p[n] = Opponent(c)
      BY <3>2, <3>3, Marks DEF Stones
    <3>5. s.cb.g[n] # NONE /\ s.cb.group[s.cb.g[n]].colour # c
      BY <1>2, <3>2, <3>3 DEF Owned
    <3> QED
      BY <1>6, <1>8, <3>4, <3>5
  <2>3. Dead(b, c, P \cup {n}) = K
    BY <1>3, <2>2
  <2> QED
    BY <1>4, <2>1, <2>3 DEF Slain
<1> QED
  BY <1>7, <1>8

\* Those beside a stone, in turn.
LEMMA CapturesSlay ==
  ASSUME NEW b, Kept(b, b.p), NEW c \in Player, NEW m \in Point
  PROVE  Slain(b, c, neighbors_side[m], Captures(b, c, m))
<1> DEFINE z == IF b.neighbors4[Opponent(c)][m] > 0 THEN Sides[m] ELSE <<>>
           V == CapturesOf(b, c)
           P(k) == {z[i] : i \in 1..k}
<1>1. PICK a \in [0..Len(z) -> V] :
        /\ a[0] = NoCapture(b)
        /\ \A k \in 1..Len(z) : a[k] = Capture(a[k - 1], c, z[k])
        /\ Captures(b, c, m) = a[Len(z)]
  BY CaptureFold
<1>2. /\ Len(z) \in Nat /\ \A i \in 1..Len(z) : z[i] \in Point
      /\ z = Sides[m] => P(Len(z)) = neighbors_side[m]
      /\ z # Sides[m] => P(Len(z)) = {} /\ ~(b.neighbors4[Opponent(c)][m] > 0)
  BY NeighborsOfPoint DEF ToSet
<1> HIDE DEF z, V
<1> DEFINE T == {k \in 0..Len(z) : Slain(b, c, P(k), a[k])}
<1>3. 0 \in T
  <2>1. P(0) = {}
    OBVIOUS
  <2> HIDE DEF P
  <2>2. Dead(b, c, {}) = {}
    BY DEF Dead
  <2>3. b.p \in [Point -> Stones]
    BY FastBoardTyped DEF Kept
  <2>4. Taken(b, c, {}, NoCapture(b))
    <3>1. Without(b.p, {}) = b.p
      BY <2>3 DEF Without
    <3> QED
      BY <3>1, FS_EmptySet DEF Taken, NoCapture
  <2>5. Slain(b, c, P(0), a[0])
    BY <1>1, <2>1, <2>2, <2>4 DEF Slain
  <2> QED
    BY <1>2, <2>5
<1>4. ASSUME NEW k \in 0..(Len(z) - 1), k \in T PROVE k + 1 \in T
  <2>1. /\ k \in 0..Len(z) /\ k + 1 \in 1..Len(z) /\ k + 1 \in 0..Len(z) /\ (k + 1) - 1 = k
        /\ 1..(k + 1) = (1..k) \cup {k + 1}
    BY <1>2
  <2>2. P(k + 1) = P(k) \cup {z[k + 1]} /\ P(k) \in SUBSET Point
    BY <1>2, <2>1
  <2> HIDE DEF P
  <2>3. a[k] \in V /\ z[k + 1] \in Point /\ a[k + 1] = Capture(a[k], c, z[k + 1])
    BY <1>1, <1>2, <2>1
  <2>4. Slain(b, c, P(k) \cup {z[k + 1]}, a[k + 1])
    BY <1>4, <2>2, <2>3, CaptureSlays DEF V
  <2> QED
    BY <2>1, <2>2, <2>4
<1>5. Slain(b, c, P(Len(z)), a[Len(z)])
  <2> HIDE DEF T
  <2>0. \A k \in 0..(Len(z) - 1) : k \in T => k + 1 \in T
    BY <1>4
  <2>1. \A k \in 0..Len(z) : k \in T
    BY <1>2, <1>3, <2>0, InductionUpTo
  <2>2. Len(z) \in T
    BY <1>2, <2>1
  <2> HIDE DEF P
  <2> QED
    BY <2>2 DEF T
<1>6. CASE z = Sides[m]
  <2> HIDE DEF P
  <2> QED
    BY <1>1, <1>2, <1>5, <1>6
<1>7. CASE z # Sides[m]
  <2>1. P(Len(z)) = {} /\ ~(b.neighbors4[Opponent(c)][m] > 0)
    BY <1>2, <1>7
  <2> HIDE DEF P
  <2>2. Dead(b, c, neighbors_side[m]) = {}
    <3> SUFFICES ASSUME NEW n \in neighbors_side[m], b.g[n] # NONE, b.group[b.g[n]].colour # c
                 PROVE  FALSE
      BY DEF Dead
    <3> DEFINE S == StonesIn(neighbors_side[m], b.p, Opponent(c))
    <3>1. Opponent(c) \in Player /\ b.neighbors4[Opponent(c)][m] = Cardinality(S)
      BY Marks DEF Kept, Around
    <3>2. IsFiniteSet(S) /\ Cardinality(S) \in Nat
      <4>1. S \in SUBSET Point
        BY NeighborsAreMutual DEF StonesIn
      <4> QED
        BY <4>1, PointsAreFinite
    <3>3. Cardinality(S) = 0
      BY <2>1, <3>1, <3>2
    <3>4. S = {}
      BY <3>2, <3>3, FS_EmptySet
    <3>5. n \in Point
      BY NeighborsAreMutual
    <3>6. b.p[n] = Opponent(c)
      <4>1. Owned(b.p, b.g, b.group) /\ GroupsTyped(b.group)
        BY DEF Kept, Grouped
      <4>2. b.p[n] = b.group[b.g[n]].colour /\ b.g[n] \in DOMAIN b.group
        BY <3>5, <4>1 DEF Owned
      <4>3. b.p[n] \in Player
        BY <4>1, <4>2 DEF GroupsTyped, GroupType
      <4> QED
        BY <4>2, <4>3, Marks
    <3> QED
      BY <3>4, <3>6 DEF StonesIn
  <2>3. Dead(b, c, {}) = {}
    BY DEF Dead
  <2> QED
    BY <1>1, <1>5, <2>1, <2>2, <2>3 DEF Slain
<1> QED
  BY <1>6, <1>7

\* The slow board finds the same stones.
LEMMA DeadAreCaptured ==
  ASSUME NEW b, Kept(b, b.p), NEW c \in Player, NEW m \in Point, b.p[m] = c
  PROVE  Dead(b, c, neighbors_side[m]) = Captured(b.p, m)
<1> DEFINE q == b.p
           A == {a \in neighbors_side[m] : q[a] = Opponent(q[m]) /\ ~is_alive(q, a)}
<1>1. /\ Owned(q, b.g, b.group) /\ GroupsTyped(b.group) /\ Reckoned(q, b.g, b.group)
      /\ \A a \in neighbors_side[m] : a \in Point
  BY NeighborsAreMutual DEF Kept, Grouped
<1>2. Captured(q, m) = UNION {Chain(q, n) : n \in A}
  BY DEF Captured
<1>3. ASSUME NEW a \in Point, b.g[a] # NONE
      PROVE  /\ Chain(q, a) = {x \in Point : b.g[x] = b.g[a]}
             /\ b.group[b.g[a]].liberties = 0 <=> ~is_alive(q, a)
  <2>1. /\ b.g[a] \in DOMAIN b.group
        /\ b.group[b.g[a]].stones = {x \in Point : b.g[x] = b.g[a]}
    BY <1>1, <1>3 DEF Owned
  <2>2. Chain(q, a) = {x \in Point : b.g[x] = b.g[a]}
    BY <1>1, <1>3, <2>1, GroupsOfChains DEF Reckoned
  <2>3. b.group[b.g[a]].liberties = 0 <=>
          \A x \in Point : q[x] = EMPTY => \A k \in neighbors_side[x] : b.g[k] # b.g[a]
    BY <1>1, <2>1, NoLiberty
  <2>4. is_alive(q, a) <=> \E n \in Chain(q, a) : \E x \in neighbors_side[n] : q[x] = EMPTY
    BY DEF is_alive
  <2>5. \A s \in Point : \A n \in neighbors_side[s] : n \in Point /\ s \in neighbors_side[n]
    BY NeighborsAreMutual
  <2> HIDE DEF q
  <2> QED
    BY <2>2, <2>3, <2>4, <2>5
<1>4. \A a \in neighbors_side[m] :
        q[a] = Opponent(q[m]) <=> b.g[a] # NONE /\ b.group[b.g[a]].colour # c
  <2> TAKE a \in neighbors_side[m]
  <2>1. a \in Point /\ (b.g[a] = NONE <=> q[a] = EMPTY)
        /\ (b.g[a] # NONE => b.group[b.g[a]].colour = q[a])
        /\ q[a] \in Stones /\ q[m] = c
    BY <1>1 DEF Owned
  <2> HIDE DEF q
  <2> QED
    BY <2>1, Marks DEF Stones
<1> HIDE DEF q
<1>5. ASSUME NEW x \in Dead(b, c, neighbors_side[m]) PROVE x \in Captured(q, m)
  <2>1. PICK n \in neighbors_side[m] :
          /\ b.g[n] # NONE /\ b.g[x] = b.g[n] /\ x \in Point
          /\ b.group[b.g[n]].colour # c /\ b.group[b.g[n]].liberties = 0
    BY DEF Dead
  <2>2. n \in A /\ x \in Chain(q, n)
    BY <1>1, <1>3, <1>4, <2>1
  <2> HIDE DEF A
  <2> QED
    BY <1>2, <2>2
<1>6. ASSUME NEW x \in Captured(q, m) PROVE x \in Dead(b, c, neighbors_side[m])
  <2>1. PICK n \in A : x \in Chain(q, n)
    BY <1>2
  <2>2. /\ n \in neighbors_side[m] /\ n \in Point /\ b.g[n] # NONE /\ b.group[b.g[n]].colour # c
        /\ ~is_alive(q, n)
    BY <1>1, <1>4
  <2>3. x \in Point /\ b.g[x] = b.g[n] /\ b.group[b.g[n]].liberties = 0
    BY <1>3, <2>1, <2>2
  <2> QED
    BY <2>2, <2>3 DEF Dead
<1> QED
  BY <1>5, <1>6 DEF q

-----------------------------------------------------------------------------
(* A play. *)
FreeOf(q) == {m \in Point : q[m] = EMPTY}

Occupied(b, c, m) == [b EXCEPT !.p[m] = c]

LEMMA PlacedKeeps ==
  ASSUME NEW b, Kept(b, b.p), NEW m \in Point, NEW c \in Player, NEW d, d = Occupied(b, c, m)
  PROVE  /\ Kept(d, b.p) /\ d.p = With(b.p, m, c) /\ d.empty = b.empty
         /\ d.last_played = b.last_played /\ d.last_eaten = b.last_eaten
<1> DEFINE q == With(b.p, m, c)
<1>1. b \in FastBoard /\ Grouped(b, b.p) /\ Around(b, b.p) /\ IsFast(b)
  BY DEF Kept, Grouped
<1>2. b.p \in [Point -> Stones]
  BY <1>1, FastBoardTyped
<1>3. q \in [Point -> Stones]
  BY <1>2, WithTyped DEF Stones
<1>4. d = [b EXCEPT !.p = q]
  BY DEF Occupied, With
<1> HIDE DEF q
<1>5. /\ IsFast(d) /\ d.p = q /\ d.empty = b.empty /\ d.hash = b.hash
      /\ d.last_played = b.last_played /\ d.last_eaten = b.last_eaten
      /\ d.neighbors4 = b.neighbors4 /\ d.neighbors8 = b.neighbors8
      /\ d.unique_groups = b.unique_groups /\ d.g = b.g /\ d.group = b.group
  BY <1>1, <1>4 DEF IsFast
<1>6. Grouped(d, b.p) /\ Around(d, b.p)
  BY <1>1, <1>5 DEF Grouped, Around
<1>7. d \in FastBoard
  <2>1. /\ b.last_played \in Point \cup {NONE, PASS} /\ b.last_eaten \in Point \cup {NONE}
        /\ b.hash \in [Point -> PatternMaps] /\ b.empty \in SUBSET Point
        /\ b.neighbors4 \in [Player -> [Point -> Int]]
        /\ b.neighbors8 \in [Player -> [Point -> Int]]
        /\ b.unique_groups \in Seq(Point) /\ b.g \in [Point -> Point \cup {NONE}]
        /\ GroupsTyped(b.group)
    BY <1>1, FastBoardTyped
  <2> QED
    BY <1>3, <1>5, <2>1, FastBoardTyped
<1> QED
  BY <1>5, <1>6, <1>7 DEF Kept, q

\* The play recorded, and its point no longer free.
LEMMA FinishedKeeps ==
  ASSUME NEW s \in CaptureType, Kept(s.cb, s.cb.p), NEW m \in Point,
         NEW t, t = Finished(s, m)
  PROVE  /\ Kept(t.cb, t.cb.p) /\ t.cb.p = s.cb.p /\ t.cb.empty = s.cb.empty \ {m}
         /\ t.cb.last_played = m
         /\ t.cb.last_eaten = IF s.captures = 1 THEN s.one_stone_captured ELSE NONE
         /\ t.captures = s.captures /\ t.removed = s.removed
<1> DEFINE b == s.cb
           e == IF s.captures = 1 THEN s.one_stone_captured ELSE NONE
           d == [[[b EXCEPT !.last_eaten = e] EXCEPT !.last_played = m] EXCEPT !.empty = @ \ {m}]
<1>1. b \in FastBoard /\ Grouped(b, b.p) /\ Around(b, b.p) /\ IsFast(b)
  BY DEF Kept, Grouped
<1>2. e \in Point \cup {NONE}
  BY CaptureTyped
<1>3. s = [cb |-> b, captures |-> s.captures, removed |-> s.removed, libs |-> s.libs,
           one_stone_captured |-> s.one_stone_captured]
  BY CaptureTyped
<1> HIDE DEF e
<1>4. t.cb = d /\ t.captures = s.captures /\ t.removed = s.removed
  <2>1. t = [[[s EXCEPT !.cb.last_eaten = e] EXCEPT !.cb.last_played = m]
               EXCEPT !.cb.empty = @ \ {m}]
    BY DEF Finished, e
  <2> DEFINE v == [cb |-> b, captures |-> s.captures, removed |-> s.removed, libs |-> s.libs,
                   one_stone_captured |-> s.one_stone_captured]
  <2>2. t = [[[v EXCEPT !.cb.last_eaten = e] EXCEPT !.cb.last_played = m]
               EXCEPT !.cb.empty = @ \ {m}]
    <3> HIDE DEF b, v
    <3> QED
      BY <1>3, <2>1 DEF v
  <2>3. t = [v EXCEPT !.cb = d]
    <3> HIDE DEF b
    <3> QED
      BY <2>2
  <2> QED
    BY <2>3
<1>5. /\ IsFast(d) /\ d.p = b.p /\ d.empty = b.empty \ {m} /\ d.hash = b.hash
      /\ d.last_played = m /\ d.last_eaten = e
      /\ d.neighbors4 = b.neighbors4 /\ d.neighbors8 = b.neighbors8
      /\ d.unique_groups = b.unique_groups /\ d.g = b.g /\ d.group = b.group
  <2> DEFINE free == b.empty \ {m}
  <2>1. d = [b EXCEPT !.last_eaten = e, !.last_played = m, !.empty = free]
    OBVIOUS
  <2> HIDE DEF b, d, free
  <2>2. /\ IsFast(d) /\ d.p = b.p /\ d.empty = free /\ d.hash = b.hash
        /\ d.last_played = m /\ d.last_eaten = e
        /\ d.neighbors4 = b.neighbors4 /\ d.neighbors8 = b.neighbors8
        /\ d.unique_groups = b.unique_groups /\ d.g = b.g /\ d.group = b.group
    BY <1>1, <2>1 DEF IsFast
  <2> QED
    BY <2>2 DEF free
<1> HIDE DEF d
<1>6. Grouped(d, b.p) /\ Around(d, b.p)
  BY <1>1, <1>5 DEF Grouped, Around
<1>7. d \in FastBoard
  <2>1. /\ b.p \in [Point -> Stones]
        /\ b.hash \in [Point -> PatternMaps] /\ b.empty \in SUBSET Point
        /\ b.neighbors4 \in [Player -> [Point -> Int]]
        /\ b.neighbors8 \in [Player -> [Point -> Int]]
        /\ b.unique_groups \in Seq(Point) /\ b.g \in [Point -> Point \cup {NONE}]
        /\ GroupsTyped(b.group)
    BY <1>1, FastBoardTyped
  <2> HIDE DEF b
  <2> QED
    BY <1>2, <1>5, <2>1, FastBoardTyped
<1> QED
  BY <1>4, <1>5, <1>6, <1>7 DEF Kept, e

\* The board q1 is q with a stone of colour c at m, and the stones K, captured by it,
\* removed.
Played(q, c, m, K, q1) ==
  /\ m \notin K /\ \A k \in K : q[k] = Opponent(c)
  /\ q1 = Without(With(q, m, c), K)

\* A play adds its stone, removes what it captures, and is exact for the board that
\* it leaves.
LEMMA PlayKeeps ==
  ASSUME NEW b, Kept(b, b.p), b.empty = FreeOf(b.p),
         NEW m \in Point, b.p[m] = EMPTY, NEW c \in Player,
         NEW s, s = Play(b, c, m)
  PROVE  /\ Kept(s.cb, s.cb.p) /\ s.cb.empty = FreeOf(s.cb.p) /\ s.cb.last_played = m
         /\ \E K \in SUBSET Point :
              /\ Played(b.p, c, m, K, s.cb.p)
              /\ s.captures = Cardinality(K) /\ s.removed = {<<k, b.p[k]>> : k \in K}
<1> DEFINE d == Occupied(b, c, m)
           e == add_stone(d, c, m)
           t == Captures(e, c, m)
           q == With(b.p, m, c)
<1>1. s = Finished(t, m)
  BY DEF Play, Occupied
<1>2. Kept(d, b.p) /\ d.p = q /\ d.empty = b.empty
  BY PlacedKeeps
<1> HIDE DEF d
<1>3. Kept(e, q) /\ e.p = q /\ e.empty = b.empty
  BY <1>2, AddStoneKeeps
<1> HIDE DEF e
<1>4. t \in CapturesOf(e, c)
  <2>1. Kept(e, e.p)
    BY <1>3
  <2> DEFINE z == IF e.neighbors4[Opponent(c)][m] > 0 THEN Sides[m] ELSE <<>>
             V == CapturesOf(e, c)
  <2>2. Len(z) \in Nat
    BY NeighborsOfPoint
  <2>3. \E a \in [0..Len(z) -> V] : t = a[Len(z)]
    BY <2>1, CaptureFold
  <2> HIDE DEF z, t, V
  <2>4. t \in V
    BY <2>2, <2>3
  <2> QED
    BY <2>4 DEF V
<1> HIDE DEF t
<1>5. t \in CaptureType /\ Kept(t.cb, t.cb.p)
  BY <1>4 DEF CapturesOf
<1>6. PICK K \in SUBSET Point : Taken(e, c, K, t)
  BY <1>4 DEF CapturesOf
<1>7. /\ \A k \in K : q[k] = Opponent(c)
      /\ t.cb.p = Without(q, K) /\ t.cb.empty = b.empty \cup K
      /\ t.captures = Cardinality(K) /\ t.removed = {<<k, q[k]>> : k \in K}
  BY <1>3, <1>6 DEF Taken
<1>8. /\ Kept(s.cb, s.cb.p) /\ s.cb.p = t.cb.p /\ s.cb.empty = t.cb.empty \ {m}
      /\ s.cb.last_played = m /\ s.captures = t.captures /\ s.removed = t.removed
  BY <1>1, <1>5, FinishedKeeps
<1>9. b.p \in [Point -> Stones] /\ \A n \in Point : q[n] = IF n = m THEN c ELSE b.p[n]
  <2>1. b.p \in [Point -> Stones]
    BY FastBoardTyped DEF Kept
  <2> QED
    BY <2>1, WithTyped DEF Stones
<1>10. m \notin K /\ \A k \in K : q[k] = b.p[k]
  BY <1>7, <1>9, Marks
<1>11. s.cb.empty = FreeOf(s.cb.p)
  <2>1. \A n \in Point : s.cb.p[n] = IF n \in K THEN EMPTY ELSE IF n = m THEN c ELSE b.p[n]
    BY <1>7, <1>8, <1>9 DEF Without
  <2>2. s.cb.empty = (FreeOf(b.p) \cup K) \ {m}
    BY <1>7, <1>8
  <2> QED
    BY <1>10, <2>1, <2>2, Marks DEF FreeOf
<1>12. Played(b.p, c, m, K, s.cb.p)
  BY <1>7, <1>8, <1>10 DEF Played
<1>13. s.removed = {<<k, b.p[k]>> : k \in K}
  BY <1>7, <1>8, <1>10
<1> HIDE DEF q
<1> QED
  BY <1>7, <1>8, <1>11, <1>12, <1>13

\* The state of a match that a fast board stands for.
Slow(b) == [p |-> b.p, last_played |-> b.last_played, last_eaten |-> b.last_eaten]

\* A play of the fast board is that of the slow one.
LEMMA PlayIsSlow ==
  ASSUME NEW b, Kept(b, b.p), b.empty = FreeOf(b.p),
         NEW m \in Point, b.p[m] = EMPTY, NEW c \in Player
  PROVE  Slow(Play(b, c, m).cb) = just_play_slow2(Slow(b), c, m)
<1> DEFINE d == Occupied(b, c, m)
           e == add_stone(d, c, m)
           t == Captures(e, c, m)
           s == Play(b, c, m)
           q == With(b.p, m, c)
           E == Captured(q, m)
<1>1. s = Finished(t, m)
  BY DEF Play, Occupied
<1>2. Kept(d, b.p) /\ d.p = q /\ d.empty = b.empty
  BY PlacedKeeps
<1> HIDE DEF d
<1>3. Kept(e, q) /\ e.p = q /\ e.empty = b.empty
  BY <1>2, AddStoneKeeps
<1>4. q[m] = c /\ q = Placed(Slow(b), c, m)
  <2>1. b.p \in [Point -> Stones]
    BY FastBoardTyped DEF Kept
  <2> QED
    BY <2>1 DEF With, Placed, Slow
<1> HIDE DEF e, q
<1>5. t \in CapturesOf(e, c)
  <2>1. Kept(e, e.p)
    BY <1>3
  <2> DEFINE z == IF e.neighbors4[Opponent(c)][m] > 0 THEN Sides[m] ELSE <<>>
             V == CapturesOf(e, c)
  <2>2. Len(z) \in Nat
    BY NeighborsOfPoint
  <2>3. \E a \in [0..Len(z) -> V] : t = a[Len(z)]
    BY <2>1, CaptureFold
  <2> HIDE DEF z, t, V
  <2>4. t \in V
    BY <2>2, <2>3
  <2> QED
    BY <2>4 DEF V
<1>6. /\ Taken(e, c, E, t) /\ (E # {} => t.one_stone_captured \in E)
      /\ t.cb.p = Without(q, E) /\ t.captures = Cardinality(E)
  <2>1. Slain(e, c, neighbors_side[m], t)
    BY <1>3, CapturesSlay
  <2>2. Dead(e, c, neighbors_side[m]) = E
    BY <1>3, <1>4, DeadAreCaptured
  <2> HIDE DEF t, E
  <2> QED
    BY <1>3, <2>1, <2>2 DEF Slain, Taken
<1> HIDE DEF t
<1>7. t \in CaptureType /\ Kept(t.cb, t.cb.p)
  BY <1>5 DEF CapturesOf
<1>8. /\ s.cb.p = t.cb.p /\ s.cb.last_played = m
      /\ s.cb.last_eaten = IF t.captures = 1 THEN t.one_stone_captured ELSE NONE
  BY <1>1, <1>7, FinishedKeeps
<1>9. E \in SUBSET Point
  <2>1. E = Dead(e, c, neighbors_side[m])
    BY <1>3, <1>4, DeadAreCaptured
  <2> QED
    BY <2>1 DEF Dead
<1> HIDE DEF E, s
<1>10. s.cb.last_eaten = IF Cardinality(E) = 1 THEN CHOOSE n \in E : TRUE ELSE NONE
  <2>1. CASE Cardinality(E) = 1
    <3>1. PICK x : E = {x}
      <4>1. IsFiniteSet(E)
        BY <1>9, PointsAreFinite
      <4> QED
        BY <2>1, <4>1, FS_Singleton
    <3> QED
      BY <1>6, <1>8, <2>1, <3>1
  <2> QED
    BY <1>6, <1>8, <2>1
<1>11. just_play_slow2(Slow(b), c, m) =
         [p |-> Without(q, E), last_played |-> m,
          last_eaten |-> IF Cardinality(E) = 1 THEN CHOOSE n \in E : TRUE ELSE NONE]
  BY <1>4 DEF just_play_slow2, Without, E
<1> QED
  BY <1>6, <1>8, <1>10, <1>11 DEF Slow, s

LEMMA PlayedAt ==
  ASSUME NEW q \in [Point -> Stones], NEW m \in Point, NEW c \in Player,
         NEW K \in SUBSET Point, NEW q1, Played(q, c, m, K, q1)
  PROVE  /\ q1 \in [Point -> Stones]
         /\ \A n \in Point : q1[n] = IF n \in K THEN EMPTY ELSE IF n = m THEN c ELSE q[n]
<1>1. /\ With(q, m, c) \in [Point -> Stones]
      /\ \A n \in Point : With(q, m, c)[n] = IF n = m THEN c ELSE q[n]
  BY WithTyped DEF Stones
<1>2. q1 = Without(With(q, m, c), K)
  BY DEF Played
<1> QED
  BY <1>1, <1>2, WithoutTyped

Codes(q) == {<<n, q[n]>> : n \in {k \in Point : q[k] # EMPTY}}

\* The hash handed from play to play is that of the board it leaves.
LEMMA HashUpdated ==
  ASSUME NEW q \in [Point -> Stones], NEW m \in Point, q[m] = EMPTY, NEW c \in Player,
         NEW K \in SUBSET Point, NEW q1, Played(q, c, m, K, q1)
  PROVE  zobrist_update_hash(zobrist_update_hash(Codes(q), {<<m, c>>}), {<<k, q[k]>> : k \in K})
           = Codes(q1)
<1> DEFINE taken == {<<k, q[k]>> : k \in K}
<1>1. /\ m \notin K /\ \A k \in K : q[k] = Opponent(c) /\ q[k] # EMPTY
      /\ \A n \in Point : q1[n] = IF n \in K THEN EMPTY ELSE IF n = m THEN c ELSE q[n]
      /\ c # EMPTY
  BY PlayedAt, Marks DEF Played
<1>2. <<m, c>> \notin Codes(q)
  BY DEF Codes
<1>3. taken \subseteq Codes(q)
  BY <1>1 DEF Codes
<1>4. zobrist_update_hash(zobrist_update_hash(Codes(q), {<<m, c>>}), taken)
        = (Codes(q) \cup {<<m, c>>}) \ taken
  BY <1>2, <1>3 DEF zobrist_update_hash
<1>5. (Codes(q) \cup {<<m, c>>}) \ taken = Codes(q1)
  <2>1. \A x \in Codes(q1) : x \in (Codes(q) \cup {<<m, c>>}) \ taken
    <3> TAKE x \in Codes(q1)
    <3>1. PICK n \in Point : q1[n] # EMPTY /\ x = <<n, q1[n]>>
      BY DEF Codes
    <3>2. n \notin K /\ x \notin taken
      BY <1>1, <3>1
    <3>3. x \in Codes(q) \cup {<<m, c>>}
      BY <1>1, <3>1, <3>2 DEF Codes
    <3> QED
      BY <3>2, <3>3
  <2>2. \A x \in (Codes(q) \cup {<<m, c>>}) \ taken : x \in Codes(q1)
    <3> TAKE x \in (Codes(q) \cup {<<m, c>>}) \ taken
    <3>1. CASE x = <<m, c>>
      BY <1>1, <3>1 DEF Codes
    <3>2. CASE x \in Codes(q)
      <4>1. PICK n \in Point : q[n] # EMPTY /\ x = <<n, q[n]>>
        BY <3>2 DEF Codes
      <4>2. n \notin K /\ n # m
        BY <4>1
      <4> QED
        BY <1>1, <4>1, <4>2 DEF Codes
    <3> QED
      BY <3>1, <3>2
  <2> QED
    BY <2>1, <2>2
<1> QED
  BY <1>4, <1>5

\* A pass changes the last play and the ko only.
LEMMA PassKeeps ==
  ASSUME NEW b, Kept(b, b.p), NEW d, d = just_pass(b)
  PROVE  /\ Kept(d, d.p) /\ d.p = b.p /\ d.empty = b.empty
         /\ d.last_played = PASS /\ d.last_eaten = NONE
<1>1. b \in FastBoard /\ Grouped(b, b.p) /\ Around(b, b.p) /\ IsFast(b)
  BY DEF Kept, Grouped
<1>2. /\ IsFast(d) /\ d.p = b.p /\ d.empty = b.empty /\ d.hash = b.hash
      /\ d.last_played = PASS /\ d.last_eaten = NONE
      /\ d.neighbors4 = b.neighbors4 /\ d.neighbors8 = b.neighbors8
      /\ d.unique_groups = b.unique_groups /\ d.g = b.g /\ d.group = b.group
  BY <1>1 DEF IsFast, just_pass
<1>3. Grouped(d, b.p) /\ Around(d, b.p)
  BY <1>1, <1>2 DEF Grouped, Around
<1>4. d \in FastBoard
  <2>1. /\ b.p \in [Point -> Stones]
        /\ b.hash \in [Point -> PatternMaps] /\ b.empty \in SUBSET Point
        /\ b.neighbors4 \in [Player -> [Point -> Int]]
        /\ b.neighbors8 \in [Player -> [Point -> Int]]
        /\ b.unique_groups \in Seq(Point) /\ b.g \in [Point -> Point \cup {NONE}]
        /\ GroupsTyped(b.group)
    BY <1>1, FastBoardTyped
  <2> QED
    BY <1>2, <2>1, FastBoardTyped
<1> QED
  BY <1>2, <1>3, <1>4 DEF Kept

-----------------------------------------------------------------------------
(* Points examined. *)
LEMMA GivenTyped ==
  ASSUME NEW b, GroupsTyped(b.group), NEW c, NEW K \in SUBSET Point, NEW h \in DOMAIN b.group
  PROVE  add_liberties_to_neighbors(b, K, c)[h].liberties_min_coord \in Nat
<1> DEFINE gr == add_liberties_to_neighbors(b, K, c)
<1>1. GroupsTyped(gr) /\ DOMAIN gr = DOMAIN b.group
  BY LibertiesGiven DEF KeepsStones
<1> HIDE DEF gr
<1>2. gr[h] \in GroupType
  BY <1>1 DEF GroupsTyped
<1> QED
  BY <1>2 DEF GroupType, gr

\* The groups after a point was examined: their lowest liberties are numbers still.
LEMMA LibsAfterTyped ==
  ASSUME NEW b, NEW q, Grouped(b, q), NEW c, NEW m \in Point, NEW h \in DOMAIN b.group
  PROVE  libs_after_play(b, c, m).cb.group[h].liberties_min_coord \in Nat
<1> DEFINE own    == Beside(b, c, m)
           dead   == InAtari(b, Opponent(c), m)
           stones == UNION {b.group[k].stones : k \in dead}
           given  == add_liberties_to_neighbors(b, stones, c)
           low    == given[h].liberties_min_coord
           after  == [b EXCEPT !.group = [k \in DOMAIN @ |->
                        IF k \in own
                        THEN [@[k] EXCEPT !.liberties_min_coord = given[k].liberties_min_coord]
                        ELSE @[k]]]
<1>1. /\ b.group[h] \in GroupType /\ b.group[h].liberties_min_coord \in Nat
      /\ IsFast(b) /\ GroupsTyped(b.group)
  BY DEF Grouped, GroupsTyped, GroupType
<1>2. libs_after_play(b, c, m).cb \in {b, after}
  BY DEF libs_after_play
<1>3. after.group = [k \in DOMAIN b.group |->
                       IF k \in own
                       THEN [b.group[k] EXCEPT !.liberties_min_coord = given[k].liberties_min_coord]
                       ELSE b.group[k]]
  BY <1>1 DEF IsFast
<1>4. after.group[h].liberties_min_coord \in {b.group[h].liberties_min_coord, low}
  <2> HIDE DEF after, own, given
  <2>1. [b.group[h] EXCEPT !.liberties_min_coord = low].liberties_min_coord = low
    BY <1>1 DEF GroupType
  <2>2. after.group[h] \in {b.group[h], [b.group[h] EXCEPT !.liberties_min_coord = low]}
    BY <1>3
  <2> HIDE DEF low
  <2> QED
    BY <2>1, <2>2
<1>5. low \in Nat
  <2>1. \A k \in dead : k \in DOMAIN b.group
    <3>1. \A n \in neighbors_side[m] : n \in Point
      BY NeighborsAreMutual
    <3>2. \A n \in Point : b.g[n] # NONE => b.g[n] \in DOMAIN b.group
      BY DEF Grouped, Owned
    <3> QED
      BY <3>1, <3>2 DEF InAtari, Beside
  <2>2. \A k \in DOMAIN b.group : b.group[k].stones \in SUBSET Point
    BY <1>1 DEF GroupsTyped, GroupType
  <2>3. stones \in SUBSET Point
    <3> HIDE DEF dead
    <3> QED
      BY <2>1, <2>2
  <2> HIDE DEF stones
  <2> QED
    BY <1>1, <2>3, GivenTyped
<1> QED
  BY <1>1, <1>2, <1>4, <1>5

\* The points examined leave the groups as they are, but for their lowest liberties.
LEMMA ExaminedKeeps ==
  ASSUME NEW b, Kept(b, b.p), NEW c, NEW points \in SUBSET Point,
         NEW d, d = Examined(b, c, points)
  PROVE  /\ Kept(d, d.p) /\ d.p = b.p /\ d.empty = b.empty
         /\ d.last_played = b.last_played /\ d.last_eaten = b.last_eaten
<1> DEFINE after == {libs_after_play(b, c, m).cb.group : m \in points} \cup {b.group}
           low(h) == Lowest({gr[h].liberties_min_coord : gr \in after})
           gr1 == [h \in DOMAIN b.group |-> [b.group[h] EXCEPT !.liberties_min_coord = low(h)]]
<1>1. b \in FastBoard /\ Grouped(b, b.p) /\ Around(b, b.p) /\ IsFast(b) /\ GroupsTyped(b.group)
  BY DEF Kept, Grouped
<1>2. \A h \in DOMAIN b.group : low(h) \in Nat /\ low(h) <= b.group[h].liberties_min_coord
  <2> TAKE h \in DOMAIN b.group
  <2> DEFINE S == {gr[h].liberties_min_coord : gr \in after}
  <2>1. b.group[h].liberties_min_coord \in Nat
    BY <1>1 DEF GroupsTyped, GroupType
  <2>2. \A gr \in after : gr[h].liberties_min_coord \in Nat
    BY <1>1, <2>1, LibsAfterTyped
  <2>3. S \in SUBSET Nat /\ b.group[h].liberties_min_coord \in S
    <3>1. b.group \in after
      OBVIOUS
    <3> HIDE DEF after
    <3> QED
      BY <2>2, <3>1
  <2> HIDE DEF S
  <2> QED
    BY <2>3, LeastNumber DEF Lowest, S
<1>3. d = [b EXCEPT !.group = gr1]
  BY DEF Examined
<1> HIDE DEF low, after
<1>4. \A h \in DOMAIN b.group : gr1[h] \in GroupType /\ SameStones(gr1[h], b.group[h])
  <2> TAKE h \in DOMAIN b.group
  <2>1. b.group[h] \in GroupType /\ low(h) \in Nat
    BY <1>1, <1>2 DEF GroupsTyped
  <2>2. gr1[h] = [b.group[h] EXCEPT !.liberties_min_coord = low(h)]
    OBVIOUS
  <2> QED
    BY <2>1, <2>2 DEF GroupType, SameStones
<1>5. DOMAIN gr1 = DOMAIN b.group /\ gr1 \in [DOMAIN gr1 -> GroupType]
  BY <1>4
<1> HIDE DEF gr1
<1>6. KeepsStones(gr1, b.group)
  BY <1>1, <1>4, <1>5 DEF KeepsStones, GroupsTyped
<1>7. Grouped(d, b.p) /\ Regrouped(d, b)
  BY <1>1, <1>3, <1>6, GroupsUpdated
<1>8. d \in FastBoard
  BY <1>1, <1>7, RegroupedTyped DEF Grouped
<1>9. \A h \in DOMAIN b.group : /\ SameBorder(gr1[h], b.group[h]) /\ gr1[h].ls = b.group[h].ls
                                /\ GroupCounted(b.group[h]) => GroupCounted(gr1[h])
  <2> TAKE h \in DOMAIN b.group
  <2>1. b.group[h] \in GroupType /\ low(h) \in Nat /\ low(h) <= b.group[h].liberties_min_coord
    BY <1>1, <1>2 DEF GroupsTyped
  <2>2. gr1[h] = [b.group[h] EXCEPT !.liberties_min_coord = low(h)]
    BY DEF gr1
  <2>3. /\ gr1[h].ls = b.group[h].ls /\ gr1[h].liberties = b.group[h].liberties
        /\ gr1[h].liberties_min_coord = low(h) /\ SameBorder(gr1[h], b.group[h])
    BY <2>1, <2>2 DEF GroupType, SameBorder
  <2>4. \A n \in b.group[h].ls : n \in Nat
    BY <2>1, SizeAssumption DEF GroupType, Point, TOTAL_BOARD_SIZ
  <2>5. b.group[h].liberties_min_coord \in Nat
    BY <2>1 DEF GroupType
  <2> QED
    BY <2>1, <2>3, <2>4, <2>5 DEF GroupCounted
<1>10. Reckoned(b.p, b.g, b.group)
  BY DEF Kept
<1>11. d.group = gr1 /\ d.g = b.g
  BY <1>1, <1>3 DEF IsFast
<1>12. Reckoned(b.p, d.g, gr1)
  <2>1. Counted(gr1)
    BY <1>5, <1>9, <1>10 DEF Reckoned, Counted
  <2>2. Chained(b.p, b.g, gr1, neighbors_side)
    BY <1>5, <1>9, <1>10 DEF Reckoned, Chained, SameBorder
  <2>3. Bordered(b.g, gr1, neighbors_side)
    BY <1>5, <1>9, <1>10 DEF Reckoned, Bordered, SameBorder
  <2> QED
    BY <1>5, <1>9, <1>10, <1>11, <2>1, <2>2, <2>3 DEF Reckoned
<1> QED
  BY <1>1, <1>7, <1>8, <1>11, <1>12 DEF Kept, Regrouped, Around

-----------------------------------------------------------------------------
(* What a cache may hold, and the last play. *)
CacheType == [Player -> [Point -> SUBSET {"dirty", "legal", "safe"}]]

\* A cache has a play at no stone of the board q.
Fits(known, q) ==
  \A m \in Point : q[m] # EMPTY => "legal" \notin known[m] /\ "safe" \notin known[m]

CachesFit(caches, q) == \A c \in Player : Fits(caches[c], q)

-----------------------------------------------------------------------------
LEMMA PassIsSlow ==
  ASSUME NEW b, Kept(b, b.p)
  PROVE  Slow(just_pass(b)) = pass(Slow(b)) /\ just_pass(b).last_played = PASS
<1>1. IsFast(b)
  BY DEF Kept, Grouped
<1>2. /\ just_pass(b).p = b.p /\ just_pass(b).last_played = PASS
      /\ just_pass(b).last_eaten = NONE
  BY <1>1 DEF just_pass, IsFast
<1>3. pass(Slow(b)) = [p |-> b.p, last_played |-> PASS, last_eaten |-> NONE]
  <2> DEFINE x == Slow(b)
             y == [x EXCEPT !.last_played = PASS]
  <2>1. y = [p |-> b.p, last_played |-> PASS, last_eaten |-> b.last_eaten]
    BY DEF Slow
  <2>2. pass(x) = [y EXCEPT !.last_eaten = NONE]
    BY DEF pass
  <2> HIDE DEF x, y
  <2> QED
    BY <2>1, <2>2 DEF x
<1> QED
  BY <1>2, <1>3 DEF Slow

-----------------------------------------------------------------------------
(* Chains of stones, and their liberties, on a board of stones. *)
\* A chain is of stones of one colour and holds their neighbours of that colour.
LEMMA ChainClosed ==
  ASSUME NEW p, NEW m \in Point
  PROVE  /\ Chain(p, m) \subseteq Point /\ m \in Chain(p, m)
         /\ \A n \in Chain(p, m) : p[n] = p[m]
         /\ \A n \in Chain(p, m) : \A a \in neighbors_side[n] : p[a] = p[m] => a \in Chain(p, m)
<1> DEFINE same == {n \in Point : p[n] = p[m]}
           closed(S) == m \in S /\ \A s \in S : neighbors_side[s] \cap same \subseteq S
<1>1. Chain(p, m) = {n \in same : \A S \in SUBSET same : closed(S) => n \in S}
  BY DEF Chain
<1>2. ASSUME NEW n \in Chain(p, m), NEW a \in neighbors_side[n], p[a] = p[m]
      PROVE  a \in Chain(p, m)
  <2>1. a \in same
    BY <1>1, <1>2, NeighborsAreMutual
  <2>2. ASSUME NEW S \in SUBSET same, closed(S) PROVE a \in S
    BY <1>1, <1>2, <2>1, <2>2
  <2> QED
    BY <1>1, <2>1, <2>2
<1> QED
  BY <1>1, <1>2

\* It is the least such set.
LEMMA ChainLeast ==
  ASSUME NEW p, NEW m \in Point, NEW S, m \in S,
         \A s \in S : s \in Point /\ p[s] = p[m] =>
                        \A a \in neighbors_side[s] : p[a] = p[m] => a \in S
  PROVE  Chain(p, m) \subseteq S
<1> DEFINE same == {n \in Point : p[n] = p[m]}
           T == S \cap same
<1>1. T \in SUBSET same /\ m \in T
  OBVIOUS
<1>2. \A s \in T : neighbors_side[s] \cap same \subseteq T
  OBVIOUS
<1>3. Chain(p, m) \subseteq T
  BY <1>1, <1>2 DEF Chain
<1> QED
  BY <1>3

\* It is the chain of each of its stones.
LEMMA ChainOfAny ==
  ASSUME NEW p, NEW m \in Point, NEW n \in Chain(p, m)
  PROVE  n \in Point /\ Chain(p, n) = Chain(p, m)
<1>1. n \in Point /\ p[n] = p[m]
  BY ChainClosed
<1>2. ASSUME NEW k \in Point, NEW l \in Chain(p, k)
      PROVE  l \in Point /\ Chain(p, l) \subseteq Chain(p, k)
  <2> DEFINE S == Chain(p, k)
  <2>1. /\ l \in Point /\ l \in S /\ p[l] = p[k]
        /\ \A s \in S : \A a \in neighbors_side[s] : p[a] = p[l] => a \in S
    BY ChainClosed
  <2> HIDE DEF S
  <2>2. Chain(p, l) \subseteq S
    BY <2>1, ChainLeast
  <2> QED
    BY <2>1, <2>2 DEF S
<1>3. m \in Chain(p, n)
  <2> DEFINE S == Point \ Chain(p, n)
  <2>1. SUFFICES ASSUME m \in S PROVE FALSE
    OBVIOUS
  <2>2. ASSUME NEW s \in S, s \in Point, p[s] = p[m], NEW a \in neighbors_side[s], p[a] = p[m]
        PROVE  a \in S
    <3>1. a \in Point /\ s \in neighbors_side[a]
      BY <2>2, NeighborsAreMutual
    <3>2. a \in Chain(p, n) => s \in Chain(p, n)
      BY <1>1, <2>2, <3>1, ChainClosed
    <3> QED
      BY <3>1, <3>2
  <2> HIDE DEF S
  <2>3. Chain(p, m) \subseteq S
    BY <2>1, <2>2, ChainLeast
  <2>4. n \in Chain(p, n)
    BY <1>1, ChainClosed
  <2> QED
    BY <2>3, <2>4 DEF S
<1> QED
  BY <1>1, <1>2, <1>3

\* What a chain is depends on its stones and its border only.
LEMMA ChainUnchanged ==
  ASSUME NEW p, NEW q, NEW m \in Point,
         \A n \in Chain(p, m) : q[n] = p[n],
         \A n \in Chain(p, m) : \A a \in neighbors_side[n] \ Chain(p, m) : q[a] # p[m]
  PROVE  Chain(q, m) = Chain(p, m)
<1>1. q[m] = p[m]
  BY ChainClosed
<1>2. Chain(q, m) \subseteq Chain(p, m)
  <2> DEFINE S == Chain(p, m)
  <2>1. m \in S /\ \A s \in S : \A a \in neighbors_side[s] : q[a] = q[m] => a \in S
    BY <1>1, ChainClosed
  <2> HIDE DEF S
  <2>2. Chain(q, m) \subseteq S
    BY <2>1, ChainLeast
  <2> QED
    BY <2>2 DEF S
<1>3. Chain(p, m) \subseteq Chain(q, m)
  <2> DEFINE S == Chain(q, m)
  <2>1. m \in S
    BY ChainClosed
  <2>2. ASSUME NEW s \in S, NEW a \in neighbors_side[s], p[a] = p[m] PROVE a \in S
    <3>1. a \in Chain(p, m)
      BY <1>2, <2>2, ChainClosed
    <3>2. q[a] = q[m]
      BY <1>1, <2>2, <3>1
    <3> QED
      BY <2>2, <3>2, ChainClosed
  <2> HIDE DEF S
  <2>3. Chain(p, m) \subseteq S
    BY <2>1, <2>2, ChainLeast
  <2> QED
    BY <2>3 DEF S
<1> QED
  BY <1>2, <1>3

\* The liberties of the chain of the stone n.
LibertiesAt(q, n) == Liberties(q, Chain(q, n))

LEMMA LibertiesOfChain ==
  ASSUME NEW q, NEW n \in Point
  PROVE  /\ LibertiesAt(q, n) \in SUBSET Point
         /\ \A x : x \in LibertiesAt(q, n) <=>
              x \in Point /\ q[x] = EMPTY /\ \E k \in Chain(q, n) : x \in neighbors_side[k]
         /\ is_alive(q, n) <=> LibertiesAt(q, n) # {}
<1>1. /\ Chain(q, n) \subseteq Point
      /\ \A k, x \in Point : x \in neighbors_side[k] <=> k \in neighbors_side[x]
      /\ \A k \in Point : neighbors_side[k] \subseteq Point
  BY ChainClosed, NeighborsAreMutual
<1>2. is_alive(q, n) <=> \E k \in Chain(q, n) : \E a \in neighbors_side[k] : q[a] = EMPTY
  BY DEF is_alive
<1>3. LibertiesAt(q, n) = {x \in Point : q[x] = EMPTY /\ neighbors_side[x] \cap Chain(q, n) # {}}
  BY DEF LibertiesAt, Liberties
<1> QED
  BY <1>1, <1>2, <1>3

\* The group of a stone is its chain.
LEMMA GroupOfStone ==
  ASSUME NEW b, NEW q, Kept(b, q), NEW n \in Point, q[n] # EMPTY
  PROVE  /\ b.g[n] \in DOMAIN b.group /\ b.g[n] # NONE /\ q[n] \in Player
         /\ b.group[b.g[n]].colour = q[n]
         /\ b.group[b.g[n]].stones = Chain(q, n)
         /\ \A x \in Point : x \in Chain(q, n) <=> b.g[x] = b.g[n]
         /\ b.group[b.g[n]].ls = LibertiesAt(q, n)
         /\ b.group[b.g[n]].liberties = Cardinality(LibertiesAt(q, n))
<1> DEFINE h == b.g[n]
<1>1. Owned(q, b.g, b.group) /\ GroupsTyped(b.group) /\ Reckoned(q, b.g, b.group)
  BY DEF Kept, Grouped
<1>2. /\ h \in DOMAIN b.group /\ h # NONE /\ b.group[h].colour = q[n]
      /\ b.group[h].stones = {x \in Point : b.g[x] = h}
  BY <1>1 DEF Owned
<1>3. b.group[h].stones = Chain(q, n)
  BY <1>1, <1>2, GroupsOfChains DEF Reckoned
<1>4. /\ b.group[h].ls \in SUBSET Point /\ b.group[h].colour \in Player
      /\ b.group[h].liberties = Cardinality(b.group[h].ls)
      /\ \A x \in Point : x \in b.group[h].ls <=> q[x] = EMPTY /\ \E k \in neighbors_side[x] : b.g[k] = h
  BY <1>1, <1>2 DEF GroupsTyped, GroupType, Reckoned, Counted, GroupCounted
<1>5. \A x \in Point : neighbors_side[x] \subseteq Point
  BY NeighborsAreMutual
<1> HIDE DEF h
<1>6. b.group[h].ls = LibertiesAt(q, n)
  BY <1>2, <1>3, <1>4, <1>5 DEF LibertiesAt, Liberties
<1> QED
  BY <1>2, <1>3, <1>4, <1>6 DEF h

LEMMA BesidePoint ==
  ASSUME NEW b, NEW q, Kept(b, q), NEW m \in Point, NEW c \in Player
  PROVE  /\ Beside(b, c, m) = {b.g[x] : x \in {y \in neighbors_side[m] : q[y] = c}}
         /\ FreeBeside(b, m) = {x \in neighbors_side[m] : q[x] = EMPTY}
<1>1. neighbors_side[m] \subseteq Point
  BY NeighborsAreMutual
<1>2. q \in [Point -> Stones] /\ \A x \in Point : q[x] = EMPTY <=> b.g[x] = NONE
  BY DEF Kept, Grouped, Owned
<1>3. \A x \in neighbors_side[m] : b.g[x] # NONE => b.group[b.g[x]].colour = q[x]
  BY <1>1, <1>2, GroupOfStone
<1> QED
  BY <1>1, <1>2, <1>3, Marks DEF Beside, FreeBeside

\* A liberty that is the only one.
LEMMA OneLiberty ==
  ASSUME NEW S \in SUBSET Point, NEW m \in S
  PROVE  Cardinality(S) = 1 <=> S = {m}
<1>1. IsFiniteSet(S)
  BY PointsAreFinite
<1>2. Cardinality(S) = 1 <=> \E x : S = {x}
  BY <1>1, FS_Singleton
<1> QED
  BY <1>2

LEMMA LibertyOfPlay ==
  ASSUME NEW q, NEW m \in Point, q[m] = EMPTY, NEW x \in neighbors_side[m]
  PROVE  /\ x \in Point /\ m \in LibertiesAt(q, x)
         /\ Cardinality(LibertiesAt(q, x)) = 1 <=> LibertiesAt(q, x) = {m}
<1>1. x \in Point /\ m \in neighbors_side[x]
  BY NeighborsAreMutual
<1>2. m \in LibertiesAt(q, x) /\ LibertiesAt(q, x) \in SUBSET Point
  BY <1>1, ChainClosed, LibertiesOfChain
<1> QED
  BY <1>1, <1>2, OneLiberty

LEMMA InAtariBeside ==
  ASSUME NEW b, NEW q, Kept(b, q), NEW m \in Point, q[m] = EMPTY, NEW c \in Player
  PROVE  InAtari(b, c, m) =
           {b.g[x] : x \in {y \in neighbors_side[m] : q[y] = c /\ LibertiesAt(q, y) = {m}}}
<1>1. \A x \in neighbors_side[m] :
        q[x] = c => (b.group[b.g[x]].liberties = 1 <=> LibertiesAt(q, x) = {m})
  BY LibertyOfPlay, GroupOfStone, Marks
<1> QED
  BY <1>1, BesidePoint DEF InAtari

\* A play that has a liberty, or takes one.
Playable(q, c, m) ==
  \E x \in neighbors_side[m] : \/ q[x] = EMPTY
                               \/ q[x] = c /\ LibertiesAt(q, x) # {m}
                               \/ q[x] = Opponent(c) /\ LibertiesAt(q, x) = {m}

\* The counts of stones around a point tell if all its neighbours are stones.
LEMMA SidesCounted ==
  ASSUME NEW b, NEW q, Kept(b, q), NEW m \in Point
  PROVE  b.neighbors4["black"][m] + b.neighbors4["white"][m] + out_neighbors4[m] < 4 <=>
           \E x \in neighbors_side[m] : q[x] = EMPTY
<1> DEFINE N == neighbors_side[m]
           B == StonesIn(N, q, "black")
           W == StonesIn(N, q, "white")
<1>1. /\ b.neighbors4["black"][m] = Cardinality(B) /\ b.neighbors4["white"][m] = Cardinality(W)
      /\ out_neighbors4[m] = 4 - Cardinality(N)
  BY DEF Kept, Around, out_neighbors4, Player
<1>2. /\ N \in SUBSET Point /\ q \in [Point -> Stones]
  BY NeighborsAreMutual DEF Kept, Grouped, Owned
<1>3. /\ B \cap W = {} /\ B \cup W \in SUBSET N /\ B \in SUBSET Point /\ W \in SUBSET Point
      /\ B \cup W = N <=> \A x \in N : q[x] # EMPTY
  BY <1>2, Marks DEF StonesIn, Stones, Player
<1> HIDE DEF B, W, N
<1>4. /\ Cardinality(B \cup W) = Cardinality(B) + Cardinality(W) - Cardinality({})
      /\ Cardinality({}) = 0 /\ IsFiniteSet(N)
      /\ Cardinality(B) \in Nat /\ Cardinality(W) \in Nat /\ Cardinality(N) \in Nat
  BY <1>2, <1>3, PointsAreFinite, FS_Union, FS_EmptySet
<1>5. Cardinality(B \cup W) <= Cardinality(N) /\ (Cardinality(N) = Cardinality(B \cup W) => N = B \cup W)
  BY <1>3, <1>4, FS_Subset
<1>6. Cardinality(B \cup W) < Cardinality(N) <=> B \cup W # N
  <2> DEFINE u == Cardinality(B \cup W)
             k == Cardinality(N)
  <2>0. u \in Nat
    BY <1>3, PointsAreFinite
  <2>1. u \in Nat /\ k \in Nat /\ u <= k /\ (k = u => N = B \cup W)
    BY <1>4, <1>5, <2>0
  <2>2. B \cup W = N => u = k
    OBVIOUS
  <2> HIDE DEF u, k
  <2>3. u < k <=> B \cup W # N
    BY <2>1, <2>2
  <2> QED
    BY <2>3 DEF u, k
<1> QED
  BY <1>1, <1>3, <1>4, <1>6 DEF N

LEMMA PlayableByGroups ==
  ASSUME NEW b, Kept(b, b.p), NEW m \in Point, NEW c \in Player
  PROVE  can_play_ignoring_ko(b, c, m) <=> b.p[m] = EMPTY /\ Playable(b.p, c, m)
<1> SUFFICES ASSUME b.p[m] = EMPTY
             PROVE  can_play_ignoring_ko(b, c, m) <=> Playable(b.p, c, m)
  BY DEF can_play_ignoring_ko
<1> DEFINE q == b.p
           few == b.neighbors4["black"][m] + b.neighbors4["white"][m] + out_neighbors4[m] < 4
<1>1. few <=> \E x \in neighbors_side[m] : q[x] = EMPTY
  BY SidesCounted
<1> HIDE DEF few
<1>2. FreeBeside(b, m) # {} <=> \E x \in neighbors_side[m] : q[x] = EMPTY
  BY BesidePoint
<1>3. (\E h \in Beside(b, c, m) : b.group[h].liberties # 1) <=>
        \E x \in neighbors_side[m] : q[x] = c /\ LibertiesAt(q, x) # {m}
  <2>1. \A x \in neighbors_side[m] :
          q[x] = c => (b.group[b.g[x]].liberties = 1 <=> LibertiesAt(q, x) = {m})
    BY LibertyOfPlay, GroupOfStone, Marks
  <2> QED
    BY <2>1, BesidePoint
<1>4. InAtari(b, Opponent(c), m) # {} <=>
        \E x \in neighbors_side[m] : q[x] = Opponent(c) /\ LibertiesAt(q, x) = {m}
  <2>1. Opponent(c) \in Player
    BY Marks
  <2>2. InAtari(b, Opponent(c), m) =
          {b.g[x] : x \in {y \in neighbors_side[m] : q[y] = Opponent(c) /\ LibertiesAt(q, y) = {m}}}
    BY <2>1, InAtariBeside
  <2> QED
    BY ONLY <2>2
<1>5. can_play_ignoring_ko(b, c, m) <=>
        \/ few \/ FreeBeside(b, m) # {}
        \/ \E h \in Beside(b, c, m) : b.group[h].liberties # 1
        \/ InAtari(b, Opponent(c), m) # {}
  BY DEF can_play_ignoring_ko, few
<1> HIDE DEF q
<1> QED
  BY <1>1, <1>2, <1>3, <1>4, <1>5 DEF Playable, q

LEMMA PlacedAt ==
  ASSUME NEW q \in [Point -> Stones], NEW m \in Point, NEW c \in Player
  PROVE  /\ With(q, m, c) \in [Point -> Stones]
         /\ \A n \in Point : With(q, m, c)[n] = IF n = m THEN c ELSE q[n]
BY WithTyped DEF Stones

\* A stone placed takes a liberty of the chains of the opponent, and nothing else.
LEMMA OpponentChains ==
  ASSUME NEW q \in [Point -> Stones], NEW m \in Point, q[m] = EMPTY, NEW c \in Player,
         NEW x \in Point, q[x] = Opponent(c)
  PROVE  /\ Chain(With(q, m, c), x) = Chain(q, x)
         /\ LibertiesAt(With(q, m, c), x) = LibertiesAt(q, x) \ {m}
<1> DEFINE P == With(q, m, c)
<1>1. \A n \in Point : P[n] = IF n = m THEN c ELSE q[n]
  BY PlacedAt
<1> HIDE DEF P
<1>2. /\ Chain(q, x) \subseteq Point /\ \A n \in Chain(q, x) : q[n] = q[x]
      /\ \A n \in Chain(q, x) : \A a \in neighbors_side[n] : q[a] = q[x] => a \in Chain(q, x)
      /\ \A n \in Point : neighbors_side[n] \subseteq Point
  BY ChainClosed, NeighborsAreMutual
<1>3. c # Opponent(c) /\ Opponent(c) # EMPTY
  BY Marks
<1>4. \A n \in Chain(q, x) : P[n] = q[n]
  BY <1>1, <1>2, <1>3
<1>5. \A n \in Chain(q, x) : \A a \in neighbors_side[n] \ Chain(q, x) : P[a] # q[x]
  BY <1>1, <1>2, <1>3
<1>6. Chain(P, x) = Chain(q, x)
  BY <1>4, <1>5, ChainUnchanged
<1>7. \A n \in Point : P[n] = EMPTY <=> q[n] = EMPTY /\ n # m
  BY <1>1, <1>3, Marks
<1>8. LibertiesAt(P, x) = LibertiesAt(q, x) \ {m}
  BY <1>6, <1>7 DEF LibertiesAt, Liberties
<1> QED
  BY <1>6, <1>8 DEF P

\* The stones of colour c beside m.
OwnBeside(q, c, m) == {x \in neighbors_side[m] : q[x] = c}

\* The stone is of the chains of its colour beside it.
LEMMA OwnChain ==
  ASSUME NEW q \in [Point -> Stones], NEW m \in Point, q[m] = EMPTY, NEW c \in Player
  PROVE  /\ Chain(With(q, m, c), m) = {m} \cup UNION {Chain(q, x) : x \in OwnBeside(q, c, m)}
         /\ LibertiesAt(With(q, m, c), m) =
              ({x \in neighbors_side[m] : q[x] = EMPTY}
                 \cup UNION {LibertiesAt(q, x) : x \in OwnBeside(q, c, m)}) \ {m}
<1> DEFINE P == With(q, m, c)
           O == OwnBeside(q, c, m)
           S == {m} \cup UNION {Chain(q, x) : x \in O}
<1>1. \A n \in Point : P[n] = IF n = m THEN c ELSE q[n]
  BY PlacedAt
<1> HIDE DEF P
<1>2. /\ \A x \in O : x \in Point /\ x \in neighbors_side[m] /\ q[x] = c /\ x # m
      /\ \A x \in neighbors_side[m] : q[x] = c => x \in O
      /\ \A n \in Point : neighbors_side[n] \subseteq Point /\ n \notin neighbors_side[n]
      /\ \A n, k \in Point : n \in neighbors_side[k] => k \in neighbors_side[n]
  BY NeighborsAreMutual DEF OwnBeside
<1>3. \A x \in Point : /\ Chain(q, x) \subseteq Point /\ x \in Chain(q, x)
                       /\ \A n \in Chain(q, x) : q[n] = q[x]
                       /\ \A n \in Chain(q, x) : \A a \in neighbors_side[n] :
                            q[a] = q[x] => a \in Chain(q, x)
  BY ChainClosed
<1>4. c # EMPTY
  BY Marks
<1> HIDE DEF O
<1>5. Chain(P, m) \subseteq S
  <2>1. ASSUME NEW s \in S, NEW a \in neighbors_side[s], P[a] = P[m] PROVE a \in S
    <3>1. CASE s = m
      <4>1. a \in O
        BY <1>1, <1>2, <2>1, <3>1
      <4> QED
        BY <1>2, <1>3, <4>1
    <3>2. ASSUME NEW x \in O, s \in Chain(q, x) PROVE a \in S
      <4>1. a \in Point
        BY <1>2, <1>3, <2>1, <3>2
      <4>2. CASE a = m
        BY <4>2
      <4>3. CASE a # m
        <5>1. q[a] = q[x]
          BY <1>1, <1>2, <2>1, <4>1, <4>3
        <5> QED
          BY <1>2, <1>3, <2>1, <3>2, <5>1
      <4> QED
        BY <4>2, <4>3
    <3> QED
      BY <3>1, <3>2
  <2>2. m \in S
    OBVIOUS
  <2> HIDE DEF S
  <2> QED
    BY <2>1, <2>2, ChainLeast
<1>6. S \subseteq Chain(P, m)
  <2> DEFINE T == Chain(P, m)
  <2>1. /\ m \in T /\ T \subseteq Point
        /\ \A n \in T : \A a \in neighbors_side[n] : P[a] = P[m] => a \in T
    BY ChainClosed
  <2> HIDE DEF T
  <2>2. ASSUME NEW x \in O PROVE Chain(q, x) \subseteq T
    <3>1. x \in T /\ x \in Point /\ q[x] = c
      BY <1>1, <1>2, <2>1
    <3>2. \A s \in T : \A a \in neighbors_side[s] : q[a] = q[x] => a \in T
      BY <1>1, <1>2, <1>4, <2>1, <3>1
    <3> QED
      BY <3>1, <3>2, ChainLeast
  <2> QED
    BY <2>1, <2>2 DEF T
<1>7. Chain(P, m) = S
  BY <1>5, <1>6
<1>8. \A x : x \in LibertiesAt(P, m) <=>
         x \in Point /\ P[x] = EMPTY /\ \E k \in S : x \in neighbors_side[k]
  BY <1>7, LibertiesOfChain
<1>9. \A x \in Point : P[x] = EMPTY <=> q[x] = EMPTY /\ x # m
  BY <1>1, <1>4
<1>10. \A x \in Point : (\E k \in S : x \in neighbors_side[k]) <=>
         x \in neighbors_side[m] \/ \E y \in O : \E k \in Chain(q, y) : x \in neighbors_side[k]
  OBVIOUS
<1>11. \A y \in O : \A x : x \in LibertiesAt(q, y) <=>
         x \in Point /\ q[x] = EMPTY /\ \E k \in Chain(q, y) : x \in neighbors_side[k]
  BY <1>2, LibertiesOfChain
<1> HIDE DEF S
<1>12. LibertiesAt(P, m) = ({x \in neighbors_side[m] : q[x] = EMPTY}
                             \cup UNION {LibertiesAt(q, x) : x \in O}) \ {m}
  BY <1>2, <1>8, <1>9, <1>10, <1>11
<1> QED
  BY <1>7, <1>12 DEF P, O, S

\* What a stone placed captures: the chains beside it that it takes the last liberty of.
LEMMA CapturedChains ==
  ASSUME NEW q \in [Point -> Stones], NEW m \in Point, q[m] = EMPTY, NEW c \in Player
  PROVE  Captured(With(q, m, c), m) =
           UNION {Chain(q, x) : x \in {y \in neighbors_side[m] :
                                         q[y] = Opponent(c) /\ LibertiesAt(q, y) = {m}}}
<1> DEFINE P == With(q, m, c)
           A == {a \in neighbors_side[m] : P[a] = Opponent(P[m]) /\ ~is_alive(P, a)}
           B == {y \in neighbors_side[m] : q[y] = Opponent(c) /\ LibertiesAt(q, y) = {m}}
<1>1. P[m] = c /\ \A a \in neighbors_side[m] : a \in Point /\ P[a] = q[a]
  BY PlacedAt, NeighborsAreMutual
<1>2. \A a \in neighbors_side[m] : q[a] = Opponent(c) =>
        /\ Chain(P, a) = Chain(q, a)
        /\ is_alive(P, a) <=> LibertiesAt(q, a) \ {m} # {}
        /\ m \in LibertiesAt(q, a)
  BY <1>1, OpponentChains, LibertiesOfChain, LibertyOfPlay
<1>3. Captured(P, m) = UNION {Chain(P, n) : n \in A}
  BY DEF Captured
<1> HIDE DEF P
<1>4. A = B /\ \A a \in A : Chain(P, a) = Chain(q, a)
  BY <1>1, <1>2
<1> QED
  BY <1>3, <1>4 DEF P

\* The slow board finds legal, but for the ko, what is Playable.
LEMMA PlayableIsLegal ==
  ASSUME NEW q \in [Point -> Stones], NEW m \in Point, q[m] = EMPTY, NEW c \in Player
  PROVE  Captured(With(q, m, c), m) # {} \/ is_alive(With(q, m, c), m) <=> Playable(q, c, m)
<1> DEFINE P == With(q, m, c)
           N == neighbors_side[m]
<1>1. Captured(P, m) # {} <=> \E x \in N : q[x] = Opponent(c) /\ LibertiesAt(q, x) = {m}
  <2>1. \A x \in N : x \in Chain(q, x)
    BY NeighborsAreMutual, ChainClosed
  <2>2. Captured(P, m) =
          UNION {Chain(q, x) : x \in {y \in N : q[y] = Opponent(c) /\ LibertiesAt(q, y) = {m}}}
    BY CapturedChains
  <2> QED
    BY ONLY <2>1, <2>2
<1>2. is_alive(P, m) <=> LibertiesAt(P, m) # {}
  BY LibertiesOfChain
<1>3. LibertiesAt(P, m) = ({x \in N : q[x] = EMPTY}
                             \cup UNION {LibertiesAt(q, x) : x \in OwnBeside(q, c, m)}) \ {m}
  BY OwnChain
<1>4. /\ m \notin N /\ \A x \in N : m \in LibertiesAt(q, x)
      /\ \A x : x \in OwnBeside(q, c, m) <=> x \in N /\ q[x] = c
  BY NeighborsAreMutual, LibertyOfPlay DEF OwnBeside
<1> HIDE DEF P, N
<1>5. LibertiesAt(P, m) # {} <=>
        \E x \in N : q[x] = EMPTY \/ (q[x] = c /\ LibertiesAt(q, x) # {m})
  BY <1>3, <1>4
<1> QED
  BY <1>1, <1>2, <1>5 DEF Playable, P, N

LEMMA PlacedIsWith ==
  ASSUME NEW b, b.p \in [Point -> Stones], NEW m \in Point, NEW c \in Player
  PROVE  Placed(Slow(b), c, m) = With(b.p, m, c)
BY DEF Placed, Slow, With

\* A stone alone with one liberty is one whose other neighbours are of the opponent.
LEMMA AloneInAtari ==
  ASSUME NEW q \in [Point -> Stones], NEW l \in Point, q[l] # EMPTY,
         NEW m \in neighbors_side[l], q[m] = EMPTY
  PROVE  Chain(q, l) = {l} /\ LibertiesAt(q, l) = {m} <=>
           \A a \in neighbors_side[l] : a = m \/ (q[a] # EMPTY /\ q[a] # q[l])
<1>1. /\ m \in Point /\ \A a \in neighbors_side[l] : a \in Point /\ a # l
      /\ l \in Chain(q, l)
      /\ \A a \in neighbors_side[l] : q[a] = q[l] => a \in Chain(q, l)
  BY NeighborsAreMutual, ChainClosed
<1>2. \A x : x \in LibertiesAt(q, l) <=>
              x \in Point /\ q[x] = EMPTY /\ \E k \in Chain(q, l) : x \in neighbors_side[k]
  BY LibertiesOfChain
<1>3. ASSUME \A a \in neighbors_side[l] : q[a] # q[l] PROVE Chain(q, l) = {l}
  <2> DEFINE S == {l}
  <2>1. l \in S /\ \A s \in S : s \in Point /\ q[s] = q[l] =>
                        \A a \in neighbors_side[s] : q[a] = q[l] => a \in S
    BY <1>3
  <2> HIDE DEF S
  <2>2. Chain(q, l) \subseteq S
    BY <2>1, ChainLeast
  <2> QED
    BY <1>1, <2>2 DEF S
<1>4. ASSUME Chain(q, l) = {l}, LibertiesAt(q, l) = {m}, NEW a \in neighbors_side[l], a # m
      PROVE  q[a] # EMPTY /\ q[a] # q[l]
  BY <1>1, <1>2, <1>4
<1>5. ASSUME \A a \in neighbors_side[l] : a = m \/ (q[a] # EMPTY /\ q[a] # q[l])
      PROVE  Chain(q, l) = {l} /\ LibertiesAt(q, l) = {m}
  <2>1. Chain(q, l) = {l}
    BY <1>3, <1>5
  <2>2. \A x : x \in LibertiesAt(q, l) <=> x \in Point /\ q[x] = EMPTY /\ x \in neighbors_side[l]
    BY <1>2, <2>1
  <2> QED
    BY <1>1, <1>5, <2>1, <2>2
<1> QED
  BY <1>4, <1>5

\* The ko of the groups is that of the stones around the last play.
LEMMA SameKo ==
  ASSUME NEW b, Kept(b, b.p), NEW c \in Player, KoAgainst(b, c), NEW m \in Point
  PROVE  ko_violation(b, m) <=> test_ko(Slow(b), c, m)
<1> DEFINE q == b.p
           l == b.last_played
           P == With(q, m, c)
<1>1. q \in [Point -> Stones]
  BY FastBoardTyped DEF Kept
<1>2. test_ko(Slow(b), c, m) <=> m = b.last_eaten /\ surrounded_stone(P, l)
  BY <1>1, PlacedIsWith DEF test_ko, Slow
<1>3. ko_violation(b, m) <=>
        b.last_eaten = m /\ GroupAt(b, l).stones = {l} /\ GroupAt(b, l).liberties = 1
  BY DEF ko_violation
<1>4. SUFFICES ASSUME b.last_eaten = m
               PROVE  GroupAt(b, l).stones = {l} /\ GroupAt(b, l).liberties = 1
                        <=> surrounded_stone(P, l)
  BY <1>2, <1>3
<1>5. /\ l \in neighbors_side[m] /\ q[m] = EMPTY /\ l \in Point /\ l # m /\ m \in neighbors_side[l]
      /\ q[l] = Opponent(c) /\ q[l] # EMPTY /\ Opponent(c) \in Player /\ Opponent(Opponent(c)) = c
      /\ \A a \in neighbors_side[l] : a \in Point
  <2>1. l \in neighbors_side[m] /\ q[m] = EMPTY /\ q[l] = Opponent(c)
    BY <1>4 DEF KoAgainst
  <2>2. Opponent(c) \in Player /\ Opponent(Opponent(c)) = c
    BY DEF Player, Opponent
  <2> HIDE DEF q, l
  <2> QED
    BY <2>1, <2>2, NeighborsAreMutual, Marks
<1>6. GroupAt(b, l).stones = Chain(q, l) /\ GroupAt(b, l).liberties = Cardinality(LibertiesAt(q, l))
  BY <1>5, GroupOfStone DEF GroupAt
<1>7. Cardinality(LibertiesAt(q, l)) = 1 <=> LibertiesAt(q, l) = {m}
  BY <1>5, LibertyOfPlay
<1>8. surrounded_stone(P, l) <=> \A a \in neighbors_side[l] : P[a] = Opponent(P[l])
  BY DEF surrounded_stone, Opponent
<1>9. /\ P[l] = Opponent(c) /\ \A a \in neighbors_side[l] : P[a] = IF a = m THEN c ELSE q[a]
  BY <1>1, <1>5, PlacedAt
<1> HIDE DEF P
<1>10. \A a \in neighbors_side[l] : q[a] = c <=> q[a] # EMPTY /\ q[a] # q[l]
  <2> TAKE a \in neighbors_side[l]
  <2>1. q[a] \in Player \cup {EMPTY} /\ c # Opponent(c) /\ c # EMPTY
    BY <1>1, <1>5, Marks DEF Stones
  <2> HIDE DEF q, l
  <2> QED
    BY <1>5, <2>1, Marks
<1> HIDE DEF q, l
<1>11. Chain(q, l) = {l} /\ LibertiesAt(q, l) = {m} <=>
         \A a \in neighbors_side[l] : a = m \/ (q[a] # EMPTY /\ q[a] # q[l])
  BY <1>1, <1>5, AloneInAtari
<1> QED
  BY <1>5, <1>6, <1>7, <1>8, <1>9, <1>10, <1>11

\* The fast board finds legal what the slow one does.
LEMMA SameLegality ==
  ASSUME NEW b, Kept(b, b.p), NEW c \in Player, KoAgainst(b, c), NEW m \in Point
  PROVE  can_play(b, c, m) <=> can_play_slow(Slow(b), c, m)
<1> DEFINE q == b.p
           few == b.neighbors4["black"][m] + b.neighbors4["white"][m] + out_neighbors4[m] < 4
           P == With(q, m, c)
<1>1. q \in [Point -> Stones]
  BY FastBoardTyped DEF Kept
<1>2. can_play(b, c, m) <=> can_play_ignoring_ko(b, c, m) /\ (few \/ ~ko_violation(b, m))
  BY DEF can_play
<1>3. few => ~test_ko(Slow(b), c, m)
  <2>1. few <=> \E x \in neighbors_side[m] : q[x] = EMPTY
    BY SidesCounted
  <2>2. test_ko(Slow(b), c, m) => b.last_eaten = m
    BY DEF test_ko, Slow
  <2>3. b.last_eaten = m => \A a \in neighbors_side[m] : q[a] = Opponent(c)
    BY DEF KoAgainst
  <2> HIDE DEF q, few
  <2> QED
    BY <2>1, <2>2, <2>3, Marks
<1>4. ko_violation(b, m) <=> test_ko(Slow(b), c, m)
  BY SameKo
<1>5. can_play_slow(Slow(b), c, m) <=>
        q[m] = EMPTY /\ ~test_ko(Slow(b), c, m) /\ (Cardinality(Captured(P, m)) > 0 \/ is_alive(P, m))
  BY <1>1, PlacedIsWith DEF can_play_slow, captured, Slow
<1>6. ASSUME q[m] = EMPTY
      PROVE  Cardinality(Captured(P, m)) > 0 \/ is_alive(P, m) <=> Playable(q, c, m)
  <2>1. Captured(P, m) # {} \/ is_alive(P, m) <=> Playable(q, c, m)
    BY <1>1, <1>6, PlayableIsLegal
  <2>2. Captured(P, m) \in SUBSET Point
    <3>1. \A y \in neighbors_side[m] : Chain(q, y) \subseteq Point
      BY ChainClosed, NeighborsAreMutual
    <3> QED
      BY <1>1, <1>6, <3>1, CapturedChains
  <2> HIDE DEF P, q
  <2>3. Cardinality(Captured(P, m)) > 0 <=> Captured(P, m) # {}
    BY <2>2, PointsAreFinite, FS_EmptySet
  <2> QED
    BY <2>1, <2>3
<1>7. can_play_ignoring_ko(b, c, m) <=> q[m] = EMPTY /\ Playable(q, c, m)
  BY PlayableByGroups
<1> HIDE DEF few, P, q
<1> QED
  BY <1>2, <1>3, <1>4, <1>5, <1>6, <1>7

\* After a play the ko is against the opponent.
LEMMA PlayLeavesKo ==
  ASSUME NEW b, Kept(b, b.p), b.empty = FreeOf(b.p),
         NEW m \in Point, b.p[m] = EMPTY, NEW c \in Player,
         NEW d, d = Play(b, c, m).cb
  PROVE  KoAgainst(d, Opponent(c))
<1> DEFINE q == b.p
           P == With(q, m, c)
           E == Captured(P, m)
           B == {y \in neighbors_side[m] : q[y] = Opponent(c) /\ LibertiesAt(q, y) = {m}}
<1>1. q \in [Point -> Stones]
  BY FastBoardTyped DEF Kept
<1>2. Slow(d) = just_play_slow2(Slow(b), c, m)
  BY PlayIsSlow
<1>3. /\ d.last_played = m
      /\ d.last_eaten = IF Cardinality(E) = 1 THEN CHOOSE n \in E : TRUE ELSE NONE
      /\ d.p = [n \in Point |-> IF n \in E THEN EMPTY ELSE P[n]]
  <2> DEFINE p1 == [n \in Point |-> IF n \in E THEN EMPTY ELSE P[n]]
             e1 == IF Cardinality(E) = 1 THEN CHOOSE n \in E : TRUE ELSE NONE
  <2>1. Placed(Slow(b), c, m) = P
    BY <1>1, PlacedIsWith
  <2>2. just_play_slow2(Slow(b), c, m) = [p |-> p1, last_played |-> m, last_eaten |-> e1]
    BY <2>1 DEF just_play_slow2
  <2> HIDE DEF p1, e1
  <2>3. d.p = p1 /\ d.last_played = m /\ d.last_eaten = e1
    BY <1>2, <2>2 DEF Slow
  <2> QED
    BY <2>3 DEF p1, e1
<1>4. E = UNION {Chain(q, x) : x \in B}
  BY <1>1, CapturedChains
<1>5. \A n \in Point : P[n] = IF n = m THEN c ELSE q[n]
  BY <1>1, PlacedAt
<1> HIDE DEF P, E, q
<1> SUFFICES ASSUME d.last_eaten \in Point
             PROVE  /\ m \in neighbors_side[d.last_eaten] /\ d.p[d.last_eaten] = EMPTY
                    /\ \A a \in neighbors_side[d.last_eaten] : d.p[a] = Opponent(Opponent(c))
  BY <1>3 DEF KoAgainst
<1>6. \A x \in B : x \in Point /\ Chain(q, x) \subseteq Point
  BY ChainClosed, NeighborsAreMutual
<1>7. E \in SUBSET Point
  BY <1>4, <1>6
<1>8. PICK k : E = {k}
  <2>1. Cardinality(E) = 1
    BY <1>3, Marks
  <2> QED
    BY <1>7, <2>1, PointsAreFinite, FS_Singleton
<1>9. d.last_eaten = k
  <2>1. Cardinality(E) = 1
    BY <1>3, Marks
  <2> QED
    BY <1>3, <1>8, <2>1
<1>10. /\ k \in neighbors_side[m] /\ q[k] = Opponent(c) /\ LibertiesAt(q, k) = {m}
       /\ Chain(q, k) = {k}
  <2>1. PICK x \in B : k \in Chain(q, x)
    BY <1>4, <1>8
  <2>2. x \in Chain(q, x) /\ Chain(q, x) \subseteq E
    BY <1>4, <1>6, <2>1, ChainClosed
  <2> QED
    BY <1>8, <2>1, <2>2
<1>11. /\ k \in Point /\ m \in neighbors_side[k] /\ m # k
       /\ \A a \in neighbors_side[k] : a \in Point /\ a # k
  BY <1>10, NeighborsAreMutual
<1>12. q[m] = EMPTY /\ q[k] # EMPTY /\ Opponent(Opponent(c)) = c
  <2>1. Opponent(c) # EMPTY
    BY Marks
  <2> QED
    BY <1>10, <2>1 DEF q, Player, Opponent
<1>13. \A a \in neighbors_side[k] : a = m \/ (q[a] # EMPTY /\ q[a] # q[k])
  BY <1>1, <1>10, <1>11, <1>12, AloneInAtari DEF q
<1>14. \A a \in neighbors_side[k] : a = m \/ q[a] = c
  BY <1>1, <1>10, <1>11, <1>13, Marks DEF Stones, q
<1>15. \A a \in neighbors_side[k] : d.p[a] = c
  BY <1>3, <1>5, <1>8, <1>11, <1>14
<1> QED
  BY <1>3, <1>8, <1>9, <1>11, <1>12, <1>15

-----------------------------------------------------------------------------
(* What is asked of a point before a play. *)
\* The stones of the opponent of c beside m, in atari.
TakenBeside(q, c, m) ==
  {x \in neighbors_side[m] : q[x] = Opponent(c) /\ LibertiesAt(q, x) = {m}}

FreeSides(q, m) == {x \in neighbors_side[m] : q[x] = EMPTY}

\* The liberties that ProbableLibs counts, and m.
Counting(q, c, m) ==
  {m} \cup FreeSides(q, m) \cup TakenBeside(q, c, m)
  \cup UNION {LibertiesAt(q, x) : x \in OwnBeside(q, c, m)}

Touch(A, B) == \E s \in A : \E n \in neighbors_side[s] : n \in B

\* The chains of several stones, to be taken, beside those united.
Bordering(q, c, m) ==
  {Chain(q, x) : x \in {y \in TakenBeside(q, c, m) :
     Chain(q, y) # {y} /\ \E z \in OwnBeside(q, c, m) : Touch(Chain(q, y), Chain(q, z))}}

\* Sets that a function tells apart are as many as their images.
LEMMA ImagesCounted ==
  ASSUME NEW S, NEW T, NEW f \in [S -> T], IsFiniteSet(S),
         \A x, y \in S : f[x] = f[y] => x = y,
         \A t \in T : \E x \in S : f[x] = t
  PROVE  Cardinality(S) = Cardinality(T)
<1>1. f \in Bijection(S, T)
  BY DEF Bijection, Injection, Surjection, IsInjective
<1>2. ExistsBijection(S, T)
  BY <1>1 DEF ExistsBijection
<1> QED
  BY <1>2, FS_Bijection

LEMMA SidesNamed ==
  ASSUME NEW q, NEW c \in Player, NEW m \in Point
  PROVE  /\ TakenBeside(q, c, m) \subseteq neighbors_side[m]
         /\ OwnBeside(q, c, m) \subseteq neighbors_side[m]
         /\ FreeSides(q, m) \subseteq neighbors_side[m]
         /\ neighbors_side[m] \subseteq Point
         /\ \A x \in TakenBeside(q, c, m) : q[x] = Opponent(c) /\ q[x] # EMPTY /\ q[x] # c
         /\ \A x \in OwnBeside(q, c, m) : q[x] = c /\ q[x] # EMPTY
BY NeighborsAreMutual, Marks DEF TakenBeside, OwnBeside, FreeSides

\* Chains are neighbours as groups when stones of theirs are.
LEMMA GroupsTouch ==
  ASSUME NEW b, NEW q, Kept(b, q), NEW y \in Point, NEW z \in Point,
         q[y] # EMPTY, q[z] # EMPTY, q[y] # q[z]
  PROVE  b.g[z] \in b.group[b.g[y]].neighbors <=> Touch(Chain(q, y), Chain(q, z))
<1>1. /\ b.g[y] \in DOMAIN b.group /\ b.g[z] \in DOMAIN b.group
      /\ b.group[b.g[z]].colour # b.group[b.g[y]].colour
      /\ \A x \in Point : x \in Chain(q, y) <=> b.g[x] = b.g[y]
      /\ \A x \in Point : x \in Chain(q, z) <=> b.g[x] = b.g[z]
  BY GroupOfStone
<1>2. Bordered(b.g, b.group, neighbors_side)
  BY DEF Kept, Reckoned
<1>3. b.g[z] \in b.group[b.g[y]].neighbors <=> Tied(b.g, neighbors_side, b.g[y], b.g[z])
  BY <1>1, <1>2 DEF Bordered
<1>4. /\ Chain(q, y) \subseteq Point /\ \A s \in Point : neighbors_side[s] \subseteq Point
  BY ChainClosed, NeighborsAreMutual
<1> QED
  BY <1>1, <1>3, <1>4 DEF Tied, Touch

\* ProbableLibs, by the chains around the point.
LEMMA ProbableByChains ==
  ASSUME NEW b, NEW q, Kept(b, q), NEW m \in Point, q[m] = EMPTY, NEW c \in Player
  PROVE  ProbableLibs(b, c, m) =
           IF Cardinality(Counting(q, c, m)) > 2 THEN 2
           ELSE Lower(Cardinality(Bordering(q, c, m)) + Cardinality(Counting(q, c, m)) - 1, 2)
<1> DEFINE own  == Beside(b, c, m)
           dead == InAtari(b, Opponent(c), m)
           ls   == {m} \cup FreeBeside(b, m) \cup {n \in neighbors_side[m] : b.g[n] \in dead}
                   \cup UNION {b.group[h].ls : h \in own}
           more == {h \in dead : Cardinality(b.group[h].stones) > 1
                                 /\ b.group[h].neighbors \cap own # {}}
           O == OwnBeside(q, c, m)
           T == TakenBeside(q, c, m)
<1>1. /\ T \subseteq neighbors_side[m] /\ O \subseteq neighbors_side[m]
      /\ neighbors_side[m] \subseteq Point
      /\ \A x \in T : q[x] = Opponent(c) /\ q[x] # EMPTY /\ q[x] # c
      /\ \A x \in O : q[x] = c /\ q[x] # EMPTY
  BY SidesNamed
<1>2. own = {b.g[x] : x \in O} /\ FreeBeside(b, m) = FreeSides(q, m)
  BY BesidePoint DEF OwnBeside, FreeSides
<1>3. dead = {b.g[x] : x \in T}
  BY InAtariBeside, Marks DEF TakenBeside
<1>4. {n \in neighbors_side[m] : b.g[n] \in dead} = T
  <2>1. ASSUME NEW n \in neighbors_side[m], NEW x \in T, b.g[n] = b.g[x] PROVE n \in T
    <3>1. n \in Point /\ n \in Chain(q, x)
      BY <1>1, <2>1, GroupOfStone
    <3>2. q[n] = q[x] /\ Chain(q, n) = Chain(q, x)
      BY <1>1, <3>1, ChainClosed, ChainOfAny
    <3>3. LibertiesAt(q, n) = LibertiesAt(q, x)
      BY <3>2 DEF LibertiesAt
    <3> QED
      BY <3>2, <3>3 DEF TakenBeside
  <2> HIDE DEF dead, T
  <2> QED
    BY <1>1, <1>3, <2>1
<1>5. \A x \in O : b.group[b.g[x]].ls = LibertiesAt(q, x)
  BY <1>1, GroupOfStone
<1> HIDE DEF own, dead
<1>6. ls = Counting(q, c, m)
  BY <1>2, <1>4, <1>5 DEF Counting
<1>7. Cardinality(more) = Cardinality(Bordering(q, c, m))
  <2> DEFINE f == [h \in more |-> b.group[h].stones]
             B == Bordering(q, c, m)
             U == {y \in T : Chain(q, y) # {y} /\ \E z \in O : Touch(Chain(q, y), Chain(q, z))}
  <2>1. B = {Chain(q, x) : x \in U}
    BY DEF Bordering
  <2>2. \A x \in T : /\ b.group[b.g[x]].stones = Chain(q, x) /\ x \in Chain(q, x)
                     /\ \A n \in Chain(q, x) : b.g[n] = b.g[x]
                     /\ Cardinality(Chain(q, x)) > 1 <=> Chain(q, x) # {x}
    <3> TAKE x \in T
    <3>1. /\ x \in Point /\ b.group[b.g[x]].stones = Chain(q, x) /\ x \in Chain(q, x)
          /\ Chain(q, x) \in SUBSET Point /\ \A n \in Chain(q, x) : b.g[n] = b.g[x]
      BY <1>1, GroupOfStone, ChainClosed
    <3>2. Cardinality(Chain(q, x)) = 1 <=> Chain(q, x) = {x}
      BY <3>1, OneLiberty
    <3>3. Cardinality(Chain(q, x)) \in Nat /\ Cardinality(Chain(q, x)) # 0
      BY <3>1, PointsAreFinite, FS_EmptySet
    <3> QED
      BY <3>1, <3>2, <3>3
  <2>3. \A x \in T : b.group[b.g[x]].neighbors \cap own # {} <=>
                       \E z \in O : Touch(Chain(q, x), Chain(q, z))
    <3>1. \A x \in T, z \in O :
            b.g[z] \in b.group[b.g[x]].neighbors <=> Touch(Chain(q, x), Chain(q, z))
      BY <1>1, GroupsTouch
    <3> HIDE DEF T, O
    <3> QED
      BY <1>2, <3>1
  <2> HIDE DEF T, O
  <2>4. more = {b.g[x] : x \in U}
    BY <1>3, <2>2, <2>3
  <2>5. \A x \in U : f[b.g[x]] = Chain(q, x) /\ b.g[x] \in more
    BY <2>2, <2>4
  <2> HIDE DEF more, U
  <2>6. f \in [more -> B]
    <3>1. ASSUME NEW h \in more PROVE f[h] \in B
      <4>1. PICK x \in U : h = b.g[x]
        BY <2>4
      <4>2. f[h] = Chain(q, x)
        BY <2>5, <4>1
      <4> HIDE DEF f
      <4> QED
        BY <2>1, <4>2
    <3>2. DOMAIN f = more /\ f = [h \in more |-> f[h]]
      OBVIOUS
    <3> HIDE DEF f, B
    <3> QED
      BY <3>1, <3>2
  <2>7. \A h, k \in more : f[h] = f[k] => h = k
    <3> SUFFICES ASSUME NEW x \in U, NEW y \in U, Chain(q, x) = Chain(q, y) PROVE b.g[x] = b.g[y]
      BY <2>4, <2>5
    <3> QED
      BY <2>2 DEF U
  <2>8. \A t \in B : \E h \in more : f[h] = t
    BY <2>1, <2>4, <2>5
  <2>9. IsFiniteSet(more)
    <3>1. U \subseteq Point
      BY <1>1 DEF U
    <3>2. more \in SUBSET Point
      <4>1. \A x \in Point : q[x] # EMPTY => b.g[x] \in Point
        BY GroupOfStone DEF Kept, Grouped, GroupsTyped
      <4>2. \A x \in U : q[x] # EMPTY
        BY <1>1 DEF U
      <4> QED
        BY <2>4, <3>1, <4>1, <4>2
    <3> QED
      BY <3>2, PointsAreFinite
  <2> HIDE DEF f, B
  <2>10. Cardinality(more) = Cardinality(B)
    BY <2>6, <2>7, <2>8, <2>9, ImagesCounted
  <2> QED
    BY <2>10 DEF B
<1>8. ProbableLibs(b, c, m) =
        IF Cardinality(ls) > 2 THEN 2 ELSE Lower(Cardinality(more) + Cardinality(ls) - 1, 2)
  BY DEF ProbableLibs, own, dead
<1> HIDE DEF ls, more
<1> QED
  BY <1>6, <1>7, <1>8

\* The stones captured by a play at m.
LEMMA TakenChains ==
  ASSUME NEW q \in [Point -> Stones], NEW m \in Point, q[m] = EMPTY, NEW c \in Player,
         NEW K, K = Captured(With(q, m, c), m)
  PROVE  /\ K = UNION {Chain(q, x) : x \in TakenBeside(q, c, m)}
         /\ K \in SUBSET Point
         /\ \A k \in K : q[k] = Opponent(c) /\ LibertiesAt(q, k) = {m}
         /\ \A k \in K : Chain(q, k) \subseteq K
         /\ K \cap neighbors_side[m] = TakenBeside(q, c, m)
<1>1. K = UNION {Chain(q, x) : x \in TakenBeside(q, c, m)}
  BY CapturedChains DEF TakenBeside
<1>2. \A x \in TakenBeside(q, c, m) :
        /\ x \in neighbors_side[m] /\ x \in Point /\ q[x] = Opponent(c)
        /\ Chain(q, x) \subseteq Point /\ x \in Chain(q, x)
        /\ \A k \in Chain(q, x) : q[k] = q[x] /\ Chain(q, k) = Chain(q, x)
  BY SidesNamed, ChainClosed, ChainOfAny
<1>3. \A x \in TakenBeside(q, c, m) : LibertiesAt(q, x) = {m}
  BY DEF TakenBeside
<1>4. \A k \in K : q[k] = Opponent(c) /\ LibertiesAt(q, k) = {m} /\ Chain(q, k) \subseteq K
  <2> TAKE k \in K
  <2>1. PICK x \in TakenBeside(q, c, m) : k \in Chain(q, x)
    BY <1>1
  <2>2. Chain(q, k) = Chain(q, x) /\ q[k] = Opponent(c)
    BY <1>2, <2>1
  <2>3. LibertiesAt(q, k) = LibertiesAt(q, x)
    BY <2>2 DEF LibertiesAt
  <2> QED
    BY <1>1, <1>3, <2>2, <2>3
<1>5. K \cap neighbors_side[m] \subseteq TakenBeside(q, c, m)
  BY <1>4 DEF TakenBeside
<1> QED
  BY <1>1, <1>2, <1>4, <1>5

\* The board that a play leaves.
Leaves(q, c, m) ==
  [n \in Point |-> IF n \in Captured(With(q, m, c), m) THEN EMPTY ELSE With(q, m, c)[n]]

\* The liberties of the stone played there.
ExactLiberties(q, c, m) ==
  ((FreeSides(q, m) \cup UNION {LibertiesAt(q, x) : x \in OwnBeside(q, c, m)}) \ {m})
  \cup {k \in Captured(With(q, m, c), m) :
          \E n \in neighbors_side[k] : n = m \/ \E x \in OwnBeside(q, c, m) : n \in Chain(q, x)}

LEMMA LibertiesLeft ==
  ASSUME NEW q \in [Point -> Stones], NEW m \in Point, q[m] = EMPTY, NEW c \in Player
  PROVE  /\ LibertiesAt(Leaves(q, c, m), m) = ExactLiberties(q, c, m)
         /\ ExactLiberties(q, c, m) \in SUBSET Point /\ m \notin ExactLiberties(q, c, m)
<1> DEFINE P == With(q, m, c)
           K == Captured(P, m)
           L == Leaves(q, c, m)
           O == OwnBeside(q, c, m)
           C == Chain(P, m)
<1>1. \A n \in Point : P[n] = IF n = m THEN c ELSE q[n]
  BY PlacedAt
<1>2. \A n \in Point : L[n] = IF n \in K THEN EMPTY ELSE P[n]
  BY DEF Leaves
<1>3. K \in SUBSET Point /\ \A k \in K : q[k] = Opponent(c)
  BY TakenChains
<1>4. /\ C = {m} \cup UNION {Chain(q, x) : x \in O}
      /\ LibertiesAt(P, m) = (FreeSides(q, m) \cup UNION {LibertiesAt(q, x) : x \in O}) \ {m}
  BY OwnChain DEF FreeSides
<1>5. C \subseteq Point /\ (\A n \in C : P[n] = P[m])
      /\ \A n \in C : \A a \in neighbors_side[n] : P[a] = P[m] => a \in C
  BY ChainClosed
<1>6. /\ c # EMPTY /\ Opponent(c) # c /\ Opponent(c) # EMPTY
      /\ \A n \in Point : neighbors_side[n] \subseteq Point
      /\ \A n, a \in Point : n \in neighbors_side[a] <=> a \in neighbors_side[n]
  BY Marks, NeighborsAreMutual
<1>7. m \notin K
  BY <1>3, <1>6
<1>8. \A x : x \in LibertiesAt(P, m) <=>
        x \in Point /\ P[x] = EMPTY /\ \E k \in C : x \in neighbors_side[k]
  BY LibertiesOfChain
<1>9. ExactLiberties(q, c, m) =
        LibertiesAt(P, m) \cup {k \in K : \E n \in neighbors_side[k] : n \in C}
  <2>1. \A n : n \in C <=> n = m \/ \E x \in O : n \in Chain(q, x)
    BY <1>4
  <2>2. ExactLiberties(q, c, m) =
        ((FreeSides(q, m) \cup UNION {LibertiesAt(q, x) : x \in O}) \ {m})
        \cup {k \in K : \E n \in neighbors_side[k] : n = m \/ \E x \in O : n \in Chain(q, x)}
    BY DEF ExactLiberties
  <2> HIDE DEF O, C, K, P
  <2> QED
    BY <1>4, <2>1, <2>2
<1>10. Chain(L, m) = C
  <2> HIDE DEF P, K, L
  <2>1. \A n \in C : L[n] = P[n]
    BY <1>1, <1>2, <1>3, <1>5, <1>6
  <2>2. \A n \in C : \A a \in neighbors_side[n] \ C : L[a] # P[m]
    BY <1>1, <1>2, <1>3, <1>5, <1>6
  <2> QED
    BY <2>1, <2>2, ChainUnchanged
<1>11. \A x : x \in LibertiesAt(L, m) <=>
        x \in Point /\ L[x] = EMPTY /\ \E k \in C : x \in neighbors_side[k]
  BY <1>10, LibertiesOfChain
<1> HIDE DEF P, K, L, O, C
<1>12. LibertiesAt(L, m) = ExactLiberties(q, c, m)
  <2>1. \A x \in Point : L[x] = EMPTY <=> x \in K \/ P[x] = EMPTY
    BY <1>2
  <2>2. \A x \in Point : (\E n \in neighbors_side[x] : n \in C) <=> \E k \in C : x \in neighbors_side[k]
    BY <1>5, <1>6
  <2> QED
    BY <1>3, <1>8, <1>9, <1>11, <2>1, <2>2
<1> QED
  BY <1>1, <1>3, <1>6, <1>7, <1>8, <1>9, <1>12 DEF L, K, P

\* Points counted.
LEMMA FewPoints ==
  ASSUME NEW S \in SUBSET Point
  PROVE  /\ Cardinality(S) \in Nat
         /\ Cardinality(S) = 0 <=> S = {}
         /\ Cardinality(S) = 1 <=> \E x : S = {x}
         /\ \A x, y \in S : x # y => Cardinality(S) >= 2
         /\ Cardinality(S) >= 2 => \A x : \E y \in S : y # x
         /\ \A T \in SUBSET S : Cardinality(T) <= Cardinality(S)
         /\ \A x \in S : Cardinality(S \ {x}) = Cardinality(S) - 1
<1>1. IsFiniteSet(S) /\ Cardinality(S) \in Nat
  BY PointsAreFinite
<1>2. /\ Cardinality(S) = 0 <=> S = {}
      /\ Cardinality(S) = 1 <=> \E x : S = {x}
      /\ \A T \in SUBSET S : Cardinality(T) <= Cardinality(S)
      /\ \A x \in S : Cardinality(S \ {x}) = Cardinality(S) - 1
  <2>1. \A T \in SUBSET S : Cardinality(T) <= Cardinality(S)
    BY <1>1, FS_Subset
  <2>2. \A x \in S : Cardinality(S \ {x}) = Cardinality(S) - 1
    BY <1>1, FS_RemoveElement
  <2> QED
    BY <1>1, <2>1, <2>2, FS_EmptySet, FS_Singleton
<1>3. \A x, y \in S : x # y => Cardinality(S) # 0 /\ Cardinality(S) # 1
  BY <1>2
<1>4. Cardinality(S) # 0 /\ Cardinality(S) # 1 => \A x : \E y \in S : y # x
  BY <1>2
<1>5. Cardinality(S) >= 2 <=> Cardinality(S) # 0 /\ Cardinality(S) # 1
  <2> DEFINE n == Cardinality(S)
  <2> HIDE DEF n
  <2>1. n \in Nat => (n >= 2 <=> n # 0 /\ n # 1)
    OBVIOUS
  <2> QED
    BY <1>1, <2>1 DEF n
<1>6. (\A x, y \in S : x # y => Cardinality(S) >= 2)
      /\ (Cardinality(S) >= 2 => \A x : \E y \in S : y # x)
  <2> DEFINE big == Cardinality(S) >= 2
             other == Cardinality(S) # 0 /\ Cardinality(S) # 1
  <2>1. /\ big <=> other
        /\ \A x, y \in S : x # y => other
        /\ other => \A x : \E y \in S : y # x
    BY <1>3, <1>4, <1>5
  <2> HIDE DEF big, other
  <2>2. (\A x, y \in S : x # y => big) /\ (big => \A x : \E y \in S : y # x)
    BY <2>1
  <2> QED
    BY <2>2 DEF big
<1> QED
  BY <1>1, <1>2, <1>6

FreeAround(q, m) == {n \in neighbors_3x3[m] : q[n] = EMPTY}

\* What the counts of stones beside m leave free.
LEMMA SidesLeft ==
  ASSUME NEW b, NEW q, Kept(b, q), NEW m \in Point
  PROVE  /\ b.neighbors4["black"][m] + b.neighbors4["white"][m] + out_neighbors4[m]
              = 4 - Cardinality(FreeSides(q, m))
         /\ b.neighbors8["black"][m] + b.neighbors8["white"][m] + out_neighbors8[m]
              = 8 - Cardinality(FreeAround(q, m))
         /\ \A c \in Player : b.neighbors4[c][m] \in Nat /\ b.neighbors8[c][m] \in Nat
         /\ out_neighbors4[m] \in Int /\ out_neighbors8[m] \in Int
         /\ b.neighbors4["black"][m] + b.neighbors4["white"][m] = 0 <=>
              \A n \in neighbors_side[m] : q[n] = EMPTY
<1>1. ASSUME NEW N \in SUBSET Point
      PROVE  /\ Cardinality(StonesIn(N, q, "black")) + Cardinality(StonesIn(N, q, "white"))
                  = Cardinality(N) - Cardinality({n \in N : q[n] = EMPTY})
             /\ Cardinality(StonesIn(N, q, "black")) + Cardinality(StonesIn(N, q, "white")) \in Nat
             /\ Cardinality(StonesIn(N, q, "black")) + Cardinality(StonesIn(N, q, "white")) = 0
                  <=> \A n \in N : q[n] = EMPTY
  <2> DEFINE B == StonesIn(N, q, "black")
             W == StonesIn(N, q, "white")
             F == {n \in N : q[n] = EMPTY}
  <2>1. q \in [Point -> Stones]
    BY DEF Kept, Grouped, Owned
  <2>2. /\ B \in SUBSET Point /\ W \in SUBSET Point /\ F \in SUBSET Point
        /\ B \cap W = {} /\ (B \cup W) \cap F = {} /\ (B \cup W) \cup F = N
        /\ B \cup W \in SUBSET Point
        /\ (\A n \in N : q[n] = EMPTY) <=> B = {} /\ W = {}
    BY <2>1, Marks DEF StonesIn, Stones, Player
  <2> HIDE DEF B, W, F
  <2> DEFINE b1 == Cardinality(B)
             w1 == Cardinality(W)
             f1 == Cardinality(F)
             u1 == Cardinality(B \cup W)
             n1 == Cardinality(N)
  <2>3. /\ IsFiniteSet(B) /\ IsFiniteSet(W) /\ IsFiniteSet(F) /\ IsFiniteSet(B \cup W)
        /\ b1 \in Nat /\ w1 \in Nat /\ f1 \in Nat /\ u1 \in Nat /\ n1 \in Nat
        /\ b1 = 0 <=> B = {}
        /\ w1 = 0 <=> W = {}
    BY <2>2, PointsAreFinite, FewPoints
  <2>4. u1 = b1 + w1 - Cardinality({})
    BY <2>2, <2>3, FS_Union
  <2>5. n1 = u1 + f1 - Cardinality({})
    BY <2>2, <2>3, FS_Union
  <2>6. Cardinality({}) = 0
    BY FS_EmptySet
  <2> HIDE DEF b1, w1, f1, u1, n1
  <2>7. b1 + w1 = n1 - f1 /\ b1 + w1 \in Nat /\ (b1 + w1 = 0 <=> b1 = 0 /\ w1 = 0)
    BY <2>3, <2>4, <2>5, <2>6
  <2>8. b1 + w1 = 0 <=> B = {} /\ W = {}
    BY <2>3, <2>7
  <2> QED
    BY <2>2, <2>7, <2>8 DEF b1, w1, f1, n1, B, W, F
<1>2. /\ b.neighbors4["black"][m] = Cardinality(StonesIn(neighbors_side[m], q, "black"))
      /\ b.neighbors4["white"][m] = Cardinality(StonesIn(neighbors_side[m], q, "white"))
      /\ b.neighbors8["black"][m] = Cardinality(StonesIn(neighbors_3x3[m], q, "black"))
      /\ b.neighbors8["white"][m] = Cardinality(StonesIn(neighbors_3x3[m], q, "white"))
  BY DEF Kept, Around, Player
<1>3. /\ out_neighbors4[m] = 4 - Cardinality(neighbors_side[m])
      /\ out_neighbors8[m] = 8 - Cardinality(neighbors_3x3[m])
      /\ neighbors_side[m] \in SUBSET Point /\ neighbors_3x3[m] \in SUBSET Point
      /\ FreeSides(q, m) = {n \in neighbors_side[m] : q[n] = EMPTY}
      /\ FreeSides(q, m) \in SUBSET Point
      /\ FreeAround(q, m) = {n \in neighbors_3x3[m] : q[n] = EMPTY}
      /\ FreeAround(q, m) \in SUBSET Point
  BY NeighborsAreMutual DEF out_neighbors4, out_neighbors8, FreeSides, FreeAround
<1>5. \A N \in SUBSET Point : Cardinality(StonesIn(N, q, "black")) \in Nat
                             /\ Cardinality(StonesIn(N, q, "white")) \in Nat
  <2> TAKE N \in SUBSET Point
  <2>1. StonesIn(N, q, "black") \in SUBSET Point /\ StonesIn(N, q, "white") \in SUBSET Point
    BY DEF StonesIn
  <2> QED
    BY <2>1, PointsAreFinite
<1>6. b.neighbors4["black"][m] + b.neighbors4["white"][m] + out_neighbors4[m]
        = 4 - Cardinality(FreeSides(q, m))
  <2> DEFINE x == b.neighbors4["black"][m]
             y == b.neighbors4["white"][m]
             o == out_neighbors4[m]
             F == FreeSides(q, m)
             N == neighbors_side[m]
  <2>1. /\ x + y = Cardinality(N) - Cardinality(F) /\ x \in Nat /\ y \in Nat
        /\ N \in SUBSET Point /\ F \in SUBSET Point /\ o = 4 - Cardinality(N)
    BY <1>1, <1>2, <1>3, <1>5
  <2>2. Cardinality(N) \in Nat /\ Cardinality(F) \in Nat
    BY <2>1, PointsAreFinite
  <2> HIDE DEF x, y, o, F, N
  <2>3. x + y + o = 4 - Cardinality(F)
    BY <2>1, <2>2
  <2> QED
    BY <2>3 DEF x, y, o, F
<1>7. b.neighbors8["black"][m] + b.neighbors8["white"][m] + out_neighbors8[m]
        = 8 - Cardinality(FreeAround(q, m))
  <2> DEFINE x == b.neighbors8["black"][m]
             y == b.neighbors8["white"][m]
             o == out_neighbors8[m]
             F == FreeAround(q, m)
             N == neighbors_3x3[m]
  <2>1. /\ x + y = Cardinality(N) - Cardinality(F) /\ x \in Nat /\ y \in Nat
        /\ N \in SUBSET Point /\ F \in SUBSET Point /\ o = 8 - Cardinality(N)
    BY <1>1, <1>2, <1>3, <1>5
  <2>2. Cardinality(N) \in Nat /\ Cardinality(F) \in Nat
    BY <2>1, PointsAreFinite
  <2> HIDE DEF x, y, o, F, N
  <2>3. x + y + o = 8 - Cardinality(F)
    BY <2>1, <2>2
  <2> QED
    BY <2>3 DEF x, y, o, F
<1>8. \A c \in Player : b.neighbors4[c][m] \in Nat /\ b.neighbors8[c][m] \in Nat
  BY <1>2, <1>3, <1>5, Marks DEF Player
<1>9. out_neighbors4[m] \in Int /\ out_neighbors8[m] \in Int
  <2>1. Cardinality(neighbors_side[m]) \in Nat /\ Cardinality(neighbors_3x3[m]) \in Nat
    BY <1>3, PointsAreFinite
  <2> QED
    BY <1>3, <2>1
<1> QED
  BY <1>1, <1>2, <1>3, <1>6, <1>7, <1>8, <1>9

-----------------------------------------------------------------------------
(* Columns and rows of the board. *)
\* b is the point beside a in its row, or in its column.
InRow(a, b) == Y(b) = Y(a) /\ (X(b) = X(a) + 1 \/ X(b) = X(a) - 1)

InColumn(a, b) == X(b) = X(a) /\ (Y(b) = Y(a) + 1 \/ Y(b) = Y(a) - 1)

LEMMA Coordinates ==
  ASSUME NEW a \in Point
  PROVE  /\ X(a) \in 0..(BOARD_SIZ - 1) /\ Y(a) \in 0..(BOARD_SIZ - 1)
         /\ X(a) \in Int /\ Y(a) \in Int /\ BOARD_SIZ \in Nat
         /\ a = BOARD_SIZ * Y(a) + X(a) /\ a \in Nat
<1>1. a \in Nat /\ BOARD_SIZ \in Nat
  BY PointsAreFinite, SizeAssumption
<1>2. X(a) \in 0..(BOARD_SIZ - 1) /\ Y(a) \in Nat /\ a = BOARD_SIZ * Y(a) + X(a) /\ Y(a) < BOARD_SIZ
  BY <1>1, Quotients, RowsOfPoints
<1> QED
  BY <1>1, <1>2

LEMMA PointAt ==
  ASSUME NEW x \in 0..(BOARD_SIZ - 1), NEW y \in 0..(BOARD_SIZ - 1)
  PROVE  \E e \in Point : X(e) = x /\ Y(e) = y
<1> DEFINE e == BOARD_SIZ * y + x
<1>1. BOARD_SIZ \in Nat /\ x \in Nat /\ y \in Nat /\ y < BOARD_SIZ
  BY SizeAssumption
<1>2. e \in Nat
  BY <1>1
<1>3. X(e) = x /\ Y(e) = y
  BY <1>1, <1>2, Quotients
<1>4. e \in Point
  BY <1>1, <1>2, <1>3, RowsOfPoints
<1> QED
  BY <1>3, <1>4

LEMMA SamePlace ==
  ASSUME NEW a \in Point, NEW b \in Point, X(a) = X(b), Y(a) = Y(b)
  PROVE  a = b
BY Coordinates

LEMMA BesideInGrid ==
  ASSUME NEW a \in Point, NEW b \in Point
  PROVE  b \in neighbors_side[a] <=> InRow(a, b) \/ InColumn(a, b)
<1>1. /\ X(a) \in 0..(BOARD_SIZ - 1) /\ Y(a) \in 0..(BOARD_SIZ - 1) /\ a = BOARD_SIZ * Y(a) + X(a)
      /\ X(b) \in 0..(BOARD_SIZ - 1) /\ Y(b) \in 0..(BOARD_SIZ - 1) /\ b = BOARD_SIZ * Y(b) + X(b)
      /\ a \in Nat /\ b \in Nat /\ BOARD_SIZ \in Nat
  BY Coordinates
<1>2. \A x \in 0..(BOARD_SIZ - 1), y \in Nat : b = BOARD_SIZ * y + x => X(b) = x /\ Y(b) = y
  BY <1>1, Quotients
<1>3. b \in neighbors_side[a] <=> IsSide(a, b)
  BY NeighborsOfPoint
<1>4. ASSUME X(a) > 0, b = a - 1 PROVE InRow(a, b)
  <2>1. X(a) - 1 \in 0..(BOARD_SIZ - 1) /\ b = BOARD_SIZ * Y(a) + (X(a) - 1) /\ Y(a) \in Nat
    BY <1>1, <1>4
  <2> QED
    BY <1>2, <2>1 DEF InRow
<1>5. ASSUME X(a) < BOARD_SIZ - 1, b = a + 1 PROVE InRow(a, b)
  <2>1. X(a) + 1 \in 0..(BOARD_SIZ - 1) /\ b = BOARD_SIZ * Y(a) + (X(a) + 1) /\ Y(a) \in Nat
    BY <1>1, <1>5
  <2> QED
    BY <1>2, <2>1 DEF InRow
<1>6. ASSUME Y(a) > 0, b = a - BOARD_SIZ PROVE InColumn(a, b)
  <2>1. Y(a) - 1 \in Nat /\ b = BOARD_SIZ * (Y(a) - 1) + X(a)
    BY <1>1, <1>6
  <2> QED
    BY <1>1, <1>2, <2>1 DEF InColumn
<1>7. ASSUME Y(a) < BOARD_SIZ - 1, b = a + BOARD_SIZ PROVE InColumn(a, b)
  <2>1. Y(a) + 1 \in Nat /\ b = BOARD_SIZ * (Y(a) + 1) + X(a)
    BY <1>1, <1>7
  <2> QED
    BY <1>1, <1>2, <2>1 DEF InColumn
<1>8. ASSUME InRow(a, b) PROVE IsSide(a, b)
  BY <1>1, <1>8 DEF InRow, IsSide
<1>9. ASSUME InColumn(a, b) PROVE IsSide(a, b)
  <2>1. CASE X(b) = X(a) /\ Y(b) = Y(a) + 1
    <3>1. b = a + BOARD_SIZ /\ Y(a) < BOARD_SIZ - 1
      BY <1>1, <2>1
    <3> QED
      BY <3>1 DEF IsSide
  <2>2. CASE X(b) = X(a) /\ Y(b) = Y(a) - 1
    <3>1. b = a - BOARD_SIZ /\ Y(a) > 0
      BY <1>1, <2>2
    <3> QED
      BY <3>1 DEF IsSide
  <2> QED
    BY <1>9, <2>1, <2>2 DEF InColumn
<1> QED
  BY <1>3, <1>4, <1>5, <1>6, <1>7, <1>8, <1>9 DEF IsSide

\* The fourth corner of a square.
LEMMA FourthCorner ==
  ASSUME NEW s \in Point, NEW d \in neighbors_side[s], NEW u \in neighbors_side[s],
         \/ InRow(s, d) /\ InColumn(s, u)
         \/ InColumn(s, d) /\ InRow(s, u)
  PROVE  \E e \in neighbors_diag[s] : e # s /\ e \in neighbors_side[d] /\ e \in neighbors_side[u]
<1>1. d \in Point /\ u \in Point
  BY NeighborsAreMutual
<1>2. /\ X(s) \in 0..(BOARD_SIZ - 1) /\ Y(s) \in 0..(BOARD_SIZ - 1)
      /\ X(d) \in 0..(BOARD_SIZ - 1) /\ Y(d) \in 0..(BOARD_SIZ - 1)
      /\ X(u) \in 0..(BOARD_SIZ - 1) /\ Y(u) \in 0..(BOARD_SIZ - 1)
      /\ \A a \in Point : X(a) \in Int /\ Y(a) \in Int
  BY <1>1, Coordinates
<1>3. CASE InRow(s, d) /\ InColumn(s, u)
  <2>1. PICK e \in Point : X(e) = X(d) /\ Y(e) = Y(u)
    BY <1>2, PointAt
  <2>2. InColumn(d, e) /\ InRow(u, e) /\ e # s /\ X(s) - X(e) \in {-1, 1} /\ Y(s) - Y(e) \in {-1, 1}
    BY <1>2, <1>3, <2>1 DEF InRow, InColumn
  <2> QED
    BY <1>1, <2>2, BesideInGrid DEF neighbors_diag
<1>4. CASE InColumn(s, d) /\ InRow(s, u)
  <2>1. PICK e \in Point : X(e) = X(u) /\ Y(e) = Y(d)
    BY <1>2, PointAt
  <2>2. InRow(d, e) /\ InColumn(u, e) /\ e # s /\ X(s) - X(e) \in {-1, 1} /\ Y(s) - Y(e) \in {-1, 1}
    BY <1>2, <1>4, <2>1 DEF InRow, InColumn
  <2> QED
    BY <1>1, <2>2, BesideInGrid DEF neighbors_diag
<1> QED
  BY <1>3, <1>4

\* Of three points beside s, one is at a corner with one of the others.
LEMMA Corners ==
  ASSUME NEW s \in Point, NEW d \in neighbors_side[s], NEW m \in neighbors_side[s],
         NEW n \in neighbors_side[s], d # m, d # n, m # n
  PROVE  \E e \in Point : e # s /\ e \in neighbors_side[d]
                          /\ (e \in neighbors_side[m] \/ e \in neighbors_side[n])
<1>1. d \in Point /\ m \in Point /\ n \in Point /\ neighbors_diag[s] \subseteq Point
  BY NeighborsAreMutual DEF neighbors_diag
<1>2. \A a \in {d, m, n} : InRow(s, a) \/ InColumn(s, a)
  BY <1>1, BesideInGrid
<1>3. \A a \in Point : X(a) \in Int /\ Y(a) \in Int
  BY Coordinates
<1>4. ~(InRow(s, d) /\ InRow(s, m) /\ InRow(s, n))
  <2>1. SUFFICES ASSUME InRow(s, d), InRow(s, m), InRow(s, n) PROVE FALSE
    OBVIOUS
  <2>2. X(d) = X(m) \/ X(d) = X(n) \/ X(m) = X(n)
    BY <2>1 DEF InRow
  <2> QED
    BY <1>1, <2>1, <2>2, SamePlace DEF InRow
<1>5. ~(InColumn(s, d) /\ InColumn(s, m) /\ InColumn(s, n))
  <2>1. SUFFICES ASSUME InColumn(s, d), InColumn(s, m), InColumn(s, n) PROVE FALSE
    OBVIOUS
  <2>2. Y(d) = Y(m) \/ Y(d) = Y(n) \/ Y(m) = Y(n)
    BY <2>1 DEF InColumn
  <2> QED
    BY <1>1, <2>1, <2>2, SamePlace DEF InColumn
<1>6. PICK u \in {m, n} : \/ InRow(s, d) /\ InColumn(s, u)
                          \/ InColumn(s, d) /\ InRow(s, u)
  BY <1>2, <1>4, <1>5
<1>7. \E e \in neighbors_diag[s] : e # s /\ e \in neighbors_side[d] /\ e \in neighbors_side[u]
  BY <1>6, FourthCorner
<1> QED
  BY <1>1, <1>6, <1>7

LEMMA SmallSets ==
  ASSUME NEW S \in SUBSET Point, NEW p1, NEW p2, NEW p3, NEW p4
  PROVE  /\ S \subseteq {p1, p2, p3, p4} => Cardinality(S) <= 4
         /\ \A p5 : S \subseteq {p1, p2, p3, p4, p5} => Cardinality(S) <= 5
         /\ \A x, y, z \in S : x # y /\ x # z /\ y # z => Cardinality(S) >= 3
<1>1. ASSUME NEW T \in SUBSET Point, NEW x, NEW k \in Nat,
             \A U \in SUBSET Point : U \subseteq T \ {x} => Cardinality(U) <= k
      PROVE  Cardinality(T) <= k + 1
  <2> DEFINE t == Cardinality(T)
             u == Cardinality(T \ {x})
  <2>1. t \in Nat /\ u <= k
    BY <1>1, FewPoints
  <2>2. x \in T => u = t - 1
    BY FewPoints
  <2>3. x \notin T => T \ {x} = T
    OBVIOUS
  <2>4. t = u \/ u = t - 1
    BY <2>2, <2>3
  <2> HIDE DEF t, u
  <2>5. t <= k + 1
    BY <2>1, <2>4
  <2> QED
    BY <2>5 DEF t
<1>2. \A U \in SUBSET Point : U = {} => Cardinality(U) <= 0
  BY FS_EmptySet
<1>3. \A a : \A U \in SUBSET Point : U \subseteq {a} => Cardinality(U) <= 1
  <2> TAKE a
  <2> TAKE U \in SUBSET Point
  <2> HAVE U \subseteq {a}
  <2>1. \A V \in SUBSET Point : V \subseteq U \ {a} => Cardinality(V) <= 0
    BY <1>2
  <2>2. Cardinality(U) <= 0 + 1
    BY <1>1, <2>1
  <2> QED
    BY <2>2
<1>4. \A a, b : \A U \in SUBSET Point : U \subseteq {a, b} => Cardinality(U) <= 2
  <2> TAKE a, b
  <2> TAKE U \in SUBSET Point
  <2> HAVE U \subseteq {a, b}
  <2>1. \A V \in SUBSET Point : V \subseteq U \ {a} => Cardinality(V) <= 1
    BY <1>3
  <2>2. Cardinality(U) <= 1 + 1
    BY <1>1, <2>1
  <2> QED
    BY <2>2
<1>5. \A a, b, c : \A U \in SUBSET Point : U \subseteq {a, b, c} => Cardinality(U) <= 3
  <2> TAKE a, b, c
  <2> TAKE U \in SUBSET Point
  <2> HAVE U \subseteq {a, b, c}
  <2>1. \A V \in SUBSET Point : V \subseteq U \ {a} => Cardinality(V) <= 2
    BY <1>4
  <2>2. Cardinality(U) <= 2 + 1
    BY <1>1, <2>1
  <2> QED
    BY <2>2
<1>6. \A a, b, c, d : \A U \in SUBSET Point : U \subseteq {a, b, c, d} => Cardinality(U) <= 4
  <2> TAKE a, b, c, d
  <2> TAKE U \in SUBSET Point
  <2> HAVE U \subseteq {a, b, c, d}
  <2>1. ASSUME NEW V \in SUBSET Point, V \subseteq U \ {a} PROVE Cardinality(V) <= 3
    <3>1. V \subseteq {b, c, d}
      BY <2>1
    <3> QED
      BY <1>5, <3>1
  <2>2. Cardinality(U) <= 3 + 1
    BY <1>1, <2>1
  <2> QED
    BY <2>2
<1>7. ASSUME NEW p5, S \subseteq {p1, p2, p3, p4, p5} PROVE Cardinality(S) <= 5
  <2>1. ASSUME NEW V \in SUBSET Point, V \subseteq S \ {p5} PROVE Cardinality(V) <= 4
    <3>1. V \subseteq {p1, p2, p3, p4}
      BY <1>7, <2>1
    <3> QED
      BY <1>6, <3>1
  <2>2. Cardinality(S) <= 4 + 1
    BY <1>1, <2>1
  <2> QED
    BY <2>2
<1>8. ASSUME NEW x \in S, NEW y \in S, NEW z \in S, x # y, x # z, y # z
      PROVE  Cardinality(S) >= 3
  <2>1. Cardinality(S \ {x}) = Cardinality(S) - 1 /\ S \ {x} \in SUBSET Point /\ Cardinality(S) \in Nat
    BY FewPoints
  <2>2. y \in S \ {x} /\ z \in S \ {x} /\ y # z
    BY <1>8
  <2>3. Cardinality(S \ {x}) >= 2
    BY <2>1, <2>2, FewPoints
  <2> QED
    BY <2>1, <2>3
<1> QED
  BY <1>6, <1>7, <1>8

\* A stone of a chain of several has another beside it.
LEMMA LongChain ==
  ASSUME NEW q, NEW n \in Point, Chain(q, n) # {n}
  PROVE  \E d \in neighbors_side[n] : d \in Chain(q, n) /\ q[d] = q[n]
<1>1. n \in Chain(q, n) /\ \A a \in neighbors_side[n] : q[a] = q[n] => a \in Chain(q, n)
  BY ChainClosed
<1>2. ASSUME \A a \in neighbors_side[n] : q[a] # q[n] PROVE FALSE
  <2> DEFINE S == {n}
  <2>1. n \in S /\ \A s \in S : s \in Point /\ q[s] = q[n] =>
                        \A a \in neighbors_side[s] : q[a] = q[n] => a \in S
    BY <1>2
  <2> HIDE DEF S
  <2>2. Chain(q, n) \subseteq S
    BY <2>1, ChainLeast
  <2> QED
    BY <1>1, <2>2 DEF S
<1> QED
  BY <1>1, <1>2

\* A chain of several stones captured beside those united leaves two liberties, even
\* if only one point was counted: the points of the board are corners of squares.
LEMMA BorderingLeavesTwo ==
  ASSUME NEW q \in [Point -> Stones], NEW m \in Point, q[m] = EMPTY, NEW c \in Player,
         NEW s, Counting(q, c, m) = {m, s}, s # m, Bordering(q, c, m) # {}
  PROVE  \E x, y \in ExactLiberties(q, c, m) : x # y
<1> DEFINE T == TakenBeside(q, c, m)
           O == OwnBeside(q, c, m)
           F == FreeSides(q, m)
           K == Captured(With(q, m, c), m)
           E == ExactLiberties(q, c, m)
           D == Chain(q, s)
<1>1. /\ T \subseteq neighbors_side[m] /\ O \subseteq neighbors_side[m] /\ F \subseteq neighbors_side[m]
      /\ neighbors_side[m] \subseteq Point /\ m \notin neighbors_side[m]
      /\ \A x \in T : q[x] = Opponent(c) /\ LibertiesAt(q, x) = {m}
      /\ \A x \in O : q[x] = c
      /\ \A x \in neighbors_side[m] : /\ q[x] = c => x \in O
                                      /\ q[x] = EMPTY => x \in F
                                      /\ q[x] = Opponent(c) /\ LibertiesAt(q, x) = {m} => x \in T
  BY SidesNamed, NeighborsAreMutual DEF TakenBeside, OwnBeside, FreeSides
<1>2. F \subseteq {m, s} /\ T \subseteq {m, s} /\ \A x \in O : LibertiesAt(q, x) \subseteq {m, s}
  <2>1. F \subseteq Counting(q, c, m) /\ T \subseteq Counting(q, c, m)
        /\ \A x \in O : LibertiesAt(q, x) \subseteq Counting(q, c, m)
    BY DEF Counting
  <2> QED
    BY <2>1
<1>3. PICK y \in T, z \in O : Chain(q, y) # {y} /\ Touch(Chain(q, y), Chain(q, z))
  BY DEF Bordering
<1> HIDE DEF T, O, F
<1>4. y = s /\ s \in T /\ T = {s}
  BY <1>1, <1>2, <1>3
<1>5. /\ s \in Point /\ s \in neighbors_side[m] /\ m \in neighbors_side[s] /\ q[s] = Opponent(c)
      /\ LibertiesAt(q, s) = {m} /\ s \in D /\ D \subseteq Point
  BY <1>1, <1>4, NeighborsAreMutual, ChainClosed
<1>6. F = {}
  BY <1>1, <1>2, <1>5, Marks DEF F, FreeSides
<1>7. /\ K = D /\ \A k \in D : q[k] = Opponent(c) /\ LibertiesAt(q, k) = {m}
  <2>1. /\ K = UNION {Chain(q, x) : x \in T}
        /\ \A k \in K : q[k] = Opponent(c) /\ LibertiesAt(q, k) = {m}
    BY TakenChains DEF T
  <2> HIDE DEF K
  <2> QED
    BY <1>4, <2>1
<1>8. \A k \in D : \A a \in neighbors_side[k] : q[a] = Opponent(c) => a \in D
  BY <1>5, ChainClosed
<1>9. \A k \in D : \A a \in neighbors_side[k] : q[a] = EMPTY => a = m
  <2> TAKE k \in D
  <2> TAKE a \in neighbors_side[k]
  <2> HAVE q[a] = EMPTY
  <2>1. k \in Point /\ a \in Point /\ k \in Chain(q, k)
    BY <1>5, NeighborsAreMutual, ChainClosed
  <2>2. a \in LibertiesAt(q, k)
    BY <2>1, LibertiesOfChain
  <2> QED
    BY <1>7, <2>2
<1>10. \A k \in D : \A n \in neighbors_side[k] : n = m \/ (\E x \in O : n \in Chain(q, x)) => k \in E
  <2>1. \A k \in K : \A n \in neighbors_side[k] : n = m \/ (\E x \in O : n \in Chain(q, x)) => k \in E
    BY DEF ExactLiberties, O
  <2> HIDE DEF K, E
  <2> QED
    BY <1>7, <2>1
<1>11. s \in E
  BY <1>5, <1>10
<1>12. m \notin D /\ ~(\E k \in D : k # s /\ m \in neighbors_side[k])
  <2>1. m \notin D
    BY <1>7, Marks
  <2>2. ASSUME NEW k \in D, k # s, m \in neighbors_side[k] PROVE FALSE
    <3>1. k \in neighbors_side[m]
      BY <1>5, <2>2, NeighborsAreMutual
    <3> QED
      BY <1>1, <1>4, <1>7, <2>2, <3>1
  <2> QED
    BY <2>1, <2>2
<1>13. /\ z \in Point /\ q[z] = c /\ Chain(q, z) \subseteq Point /\ z \in Chain(q, z)
       /\ \A n \in Chain(q, z) : q[n] = c
       /\ \A n \in Chain(q, z) : \A a \in neighbors_side[n] : q[a] = c => a \in Chain(q, z)
  BY <1>1, <1>3, ChainClosed
<1>14. PICK k \in D : \E n \in neighbors_side[k] : n \in Chain(q, z)
  BY <1>3, <1>4 DEF Touch
<1>15. CASE k # s
  <2>1. k \in E
    BY <1>3, <1>10, <1>14
  <2> QED
    BY <1>11, <1>15, <2>1
<1>16. CASE k = s
  <2>1. PICK n \in neighbors_side[s] : n \in Chain(q, z)
    BY <1>14, <1>16
  <2>2. PICK d \in neighbors_side[s] : d \in D /\ q[d] = q[s]
    BY <1>3, <1>4, <1>5, LongChain
  <2>3. d # m /\ d # n /\ m # n /\ d # s
    BY <1>5, <1>7, <1>13, <2>1, <2>2, Marks, NeighborsAreMutual
  <2>4. PICK e \in Point : e # s /\ e \in neighbors_side[d]
                           /\ (e \in neighbors_side[m] \/ e \in neighbors_side[n])
    BY <1>5, <2>1, <2>2, <2>3, Corners
  <2>5. d \in neighbors_side[e] /\ d \in Point /\ n \in Point
    BY <1>5, <1>13, <2>1, <2>2, <2>4, NeighborsAreMutual
  <2>6. q[e] # EMPTY
    BY <1>9, <1>12, <2>2, <2>3, <2>4
  <2>7. q[e] = c \/ q[e] = Opponent(c)
    BY <2>4, <2>6, Marks DEF Stones
  <2>8. CASE q[e] = c
    <3>1. \E x \in O : e \in Chain(q, x)
      <4>1. CASE e \in neighbors_side[m]
        BY <1>1, <2>4, <2>8, <4>1, ChainClosed
      <4>2. CASE e \in neighbors_side[n]
        BY <1>3, <1>13, <2>1, <2>8, <4>2
      <4> QED
        BY <2>4, <4>1, <4>2
    <3>2. d \in E
      BY <1>10, <2>2, <2>4, <3>1
    <3> QED
      BY <1>11, <2>3, <3>2
  <2>9. CASE q[e] = Opponent(c)
    <3>1. e \in D
      BY <1>8, <2>2, <2>4, <2>9
    <3>2. CASE e \in neighbors_side[m]
      <4>1. m \in neighbors_side[e]
        BY <2>4, <3>2, NeighborsAreMutual
      <4> QED
        BY <1>12, <2>4, <3>1, <4>1
    <3>3. CASE e \in neighbors_side[n]
      <4>1. n \in neighbors_side[e]
        BY <2>4, <2>5, <3>3, NeighborsAreMutual
      <4>2. e \in E
        BY <1>3, <1>10, <2>1, <3>1, <4>1
      <4> QED
        BY <1>11, <2>4, <4>2
    <3> QED
      BY <2>4, <3>2, <3>3
  <2> QED
    BY <2>7, <2>8, <2>9
<1> QED
  BY <1>15, <1>16

\* ProbableLibs counts the liberties a play leaves, up to two.
LEMMA ProbableIsExact ==
  ASSUME NEW b, NEW q, Kept(b, q), NEW m \in Point, q[m] = EMPTY, NEW c \in Player
  PROVE  ProbableLibs(b, c, m) = Lower(Cardinality(ExactLiberties(q, c, m)), 2)
<1> DEFINE T == TakenBeside(q, c, m)
           O == OwnBeside(q, c, m)
           F == FreeSides(q, m)
           K == Captured(With(q, m, c), m)
           E == ExactLiberties(q, c, m)
           C == Counting(q, c, m)
           B == Bordering(q, c, m)
<1>0. q \in [Point -> Stones]
  BY DEF Kept, Grouped, Owned
<1>1. /\ T \subseteq neighbors_side[m] /\ O \subseteq neighbors_side[m] /\ F \subseteq neighbors_side[m]
      /\ neighbors_side[m] \subseteq Point /\ m \notin neighbors_side[m]
      /\ \A x \in neighbors_side[m] : m \in neighbors_side[x]
  BY SidesNamed, NeighborsAreMutual
<1>2. /\ C = {m} \cup F \cup T \cup UNION {LibertiesAt(q, x) : x \in O}
      /\ E = ((F \cup UNION {LibertiesAt(q, x) : x \in O}) \ {m})
             \cup {k \in K : \E n \in neighbors_side[k] : n = m \/ \E x \in O : n \in Chain(q, x)}
      /\ B = {Chain(q, x) : x \in {y \in T :
                Chain(q, y) # {y} /\ \E z \in O : Touch(Chain(q, y), Chain(q, z))}}
  BY DEF Counting, ExactLiberties, Bordering
<1>3. /\ K = UNION {Chain(q, x) : x \in T} /\ K \cap neighbors_side[m] = T
      /\ \A k \in K : k \in Point
      /\ E \in SUBSET Point /\ m \notin E
  BY <1>0, TakenChains, LibertiesLeft
<1>4. C \in SUBSET Point
  <2>1. \A x \in O : LibertiesAt(q, x) \subseteq Point
    BY <1>1, LibertiesOfChain
  <2> HIDE DEF C, O, F, T
  <2> QED
    BY <1>1, <1>2, <2>1
<1>5. ProbableLibs(b, c, m) =
        IF Cardinality(C) > 2 THEN 2 ELSE Lower(Cardinality(B) + Cardinality(C) - 1, 2)
  BY ProbableByChains
<1>6. B \in SUBSET (SUBSET Point)
  <2>1. \A x \in T : Chain(q, x) \subseteq Point
    BY <1>1, ChainClosed
  <2> HIDE DEF B, O, T
  <2> QED
    BY <1>2, <2>1
<1>7. IsFiniteSet(B) /\ Cardinality(B) \in Nat /\ (B = {} => Cardinality(B) = 0)
      /\ (B # {} => Cardinality(B) # 0)
  <2>1. IsFiniteSet(SUBSET Point)
    BY PointsAreFinite, FS_SUBSET
  <2>2. IsFiniteSet(B)
    BY <1>6, <2>1, FS_Subset
  <2> HIDE DEF B
  <2> QED
    BY <2>2, FS_CardinalityType, FS_EmptySet
<1> HIDE DEF C, B, E, T, O, F, K
<1>8. C \ {m} \subseteq E /\ m \in C
  <2>1. \A x \in T : x \in K /\ m \in neighbors_side[x]
    BY <1>1, <1>3
  <2> QED
    BY <1>1, <1>2, <2>1
<1>9. T = {} => B = {}
  BY <1>2
<1>10. ASSUME B = {} PROVE E = C \ {m}
  <2>1. ASSUME NEW k \in K, NEW n \in neighbors_side[k], n = m \/ \E x \in O : n \in Chain(q, x)
        PROVE  k \in T
    <3>1. PICK y \in T : k \in Chain(q, y)
      BY <1>3
    <3>2. CASE n = m
      <4>1. k \in neighbors_side[m]
        BY <1>3, <2>1, <3>2, NeighborsAreMutual
      <4> QED
        BY <1>3, <4>1
    <3>3. ASSUME NEW x \in O, n \in Chain(q, x) PROVE k \in T
      <4>1. Touch(Chain(q, y), Chain(q, x))
        BY <2>1, <3>1, <3>3 DEF Touch
      <4>2. Chain(q, y) = {y}
        BY <1>2, <1>10, <4>1
      <4> QED
        BY <3>1, <4>2
    <3> QED
      BY <2>1, <3>2, <3>3
  <2> QED
    BY <1>1, <1>2, <1>3, <1>8, <2>1
<1> DEFINE k1 == Cardinality(C)
           n1 == Cardinality(B)
           e1 == Cardinality(E)
<1>11. /\ k1 \in Nat /\ n1 \in Nat /\ e1 \in Nat /\ Cardinality(C \ {m}) = k1 - 1
       /\ k1 - 1 <= e1 /\ k1 # 0
  <2>1. k1 \in Nat /\ e1 \in Nat /\ Cardinality(C \ {m}) = k1 - 1 /\ k1 # 0
    BY <1>3, <1>4, <1>8, FewPoints
  <2>2. Cardinality(C \ {m}) <= e1
    BY <1>3, <1>8, FewPoints
  <2> QED
    BY <1>7, <2>1, <2>2
<1>12. n1 = 0 => e1 = k1 - 1
  BY <1>7, <1>10, <1>11
<1>13. k1 = 1 => n1 = 0
  <2> SUFFICES ASSUME k1 = 1 PROVE n1 = 0
    OBVIOUS
  <2>1. C = {m}
    BY <1>4, <1>8, OneLiberty
  <2>2. T = {}
    BY <1>1, <1>2, <2>1
  <2> QED
    BY <1>7, <1>9, <2>2
<1>14. k1 = 2 /\ n1 # 0 => e1 >= 2
  <2> SUFFICES ASSUME k1 = 2, n1 # 0 PROVE e1 >= 2
    OBVIOUS
  <2>1. C \ {m} \in SUBSET Point /\ Cardinality(C \ {m}) = 1
    BY <1>4, <1>11
  <2>2. PICK s : C \ {m} = {s}
    BY <2>1, FewPoints
  <2>3. C = {m, s} /\ s # m /\ B # {}
    BY <1>7, <1>8, <2>2
  <2>4. \E x, y \in E : x # y
    BY <1>0, <2>3, BorderingLeavesTwo DEF C, B, E
  <2> QED
    BY <1>3, <2>4, FewPoints
<1> HIDE DEF k1, n1, e1
<1>15. (IF k1 > 2 THEN 2 ELSE Lower(n1 + k1 - 1, 2)) = Lower(e1, 2)
  <2>1. CASE k1 > 2
    BY <1>11, <2>1 DEF Lower
  <2>2. CASE k1 = 1
    BY <1>11, <1>12, <1>13, <2>2 DEF Lower
  <2>3. CASE k1 = 2 /\ n1 = 0
    BY <1>11, <1>12, <2>3 DEF Lower
  <2>4. CASE k1 = 2 /\ n1 # 0
    BY <1>11, <1>14, <2>4 DEF Lower
  <2> QED
    BY <1>11, <2>1, <2>2, <2>3, <2>4
<1> QED
  BY <1>5, <1>15 DEF k1, n1, e1, C, B, E

\* A point with more than five around it is not at an edge.
LEMMA Inside ==
  ASSUME NEW m \in Point, Cardinality(neighbors_3x3[m]) > 5
  PROVE  X(m) > 0 /\ X(m) < BOARD_SIZ - 1 /\ Y(m) > 0 /\ Y(m) < BOARD_SIZ - 1
<1> DEFINE N == neighbors_3x3[m]
<1>1. /\ m \in Nat /\ BOARD_SIZ \in Nat /\ N \in SUBSET Point /\ Cardinality(N) \in Nat
      /\ X(m) \in 0..(BOARD_SIZ - 1) /\ Y(m) \in 0..(BOARD_SIZ - 1)
      /\ m = BOARD_SIZ * Y(m) + X(m)
  BY Coordinates, NeighborsAreMutual, PointsAreFinite
<1>2. ASSUME NEW n \in N
      PROVE  \E x, y \in {-1, 0, 1} : /\ ~(x = 0 /\ y = 0) /\ n = m + BOARD_SIZ * y + x
                                      /\ X(n) = X(m) + x /\ Y(n) = Y(m) + y
                                      /\ X(m) + x \in 0..(BOARD_SIZ - 1) /\ Y(m) + y \in 0..(BOARD_SIZ - 1)
  <2>1. /\ n \in Point /\ n # m /\ X(n) \in 0..(BOARD_SIZ - 1) /\ Y(n) \in 0..(BOARD_SIZ - 1)
        /\ n = BOARD_SIZ * Y(n) + X(n)
    BY <1>1, <1>2, Coordinates, NeighborsAreMutual
  <2>2. X(n) - X(m) \in {-1, 0, 1} /\ Y(n) - Y(m) \in {-1, 0, 1}
    <3>1. CASE n \in neighbors_side[m]
      <4>1. InRow(m, n) \/ InColumn(m, n)
        BY <2>1, <3>1, BesideInGrid
      <4> QED
        BY <1>1, <2>1, <4>1 DEF InRow, InColumn
    <3>2. CASE n \in neighbors_diag[m]
      <4>1. X(m) - X(n) \in {-1, 1} /\ Y(m) - Y(n) \in {-1, 1}
        BY <3>2 DEF neighbors_diag
      <4> QED
        BY <1>1, <2>1, <4>1
    <3> QED
      BY <1>2, <3>1, <3>2 DEF neighbors_3x3
  <2> DEFINE x == X(n) - X(m)
             y == Y(n) - Y(m)
  <2>3. /\ X(n) = X(m) + x /\ Y(n) = Y(m) + y /\ x \in {-1, 0, 1} /\ y \in {-1, 0, 1}
    BY <1>1, <2>1, <2>2
  <2> HIDE DEF x, y
  <2>4. BOARD_SIZ * (Y(m) + y) = BOARD_SIZ * Y(m) + BOARD_SIZ * y
    BY <1>1, <2>3
  <2>5. n = m + BOARD_SIZ * y + x
    <3> DEFINE p == BOARD_SIZ * Y(m)
               r == BOARD_SIZ * y
    <3>1. /\ n = (p + r) + X(n) /\ m = p + X(m) /\ X(n) = X(m) + x
          /\ p \in Int /\ r \in Int /\ x \in Int /\ X(m) \in Int
      BY <1>1, <2>1, <2>3, <2>4
    <3> HIDE DEF p, r
    <3>2. n = m + r + x
      BY <3>1
    <3> QED
      BY <3>2 DEF r
  <2>6. ~(x = 0 /\ y = 0)
    BY <1>1, <2>1, <2>5
  <2> QED
    BY <2>1, <2>3, <2>5, <2>6
<1>3. ASSUME X(m) = 0 PROVE N \subseteq {m + 1, m - BOARD_SIZ, m + BOARD_SIZ, m - BOARD_SIZ + 1, m + BOARD_SIZ + 1}
  BY <1>1, <1>2, <1>3
<1>4. ASSUME X(m) = BOARD_SIZ - 1
      PROVE  N \subseteq {m - 1, m - BOARD_SIZ, m + BOARD_SIZ, m - BOARD_SIZ - 1, m + BOARD_SIZ - 1}
  BY <1>1, <1>2, <1>4
<1>5. ASSUME Y(m) = 0
      PROVE  N \subseteq {m - 1, m + 1, m + BOARD_SIZ - 1, m + BOARD_SIZ, m + BOARD_SIZ + 1}
  BY <1>1, <1>2, <1>5
<1>6. ASSUME Y(m) = BOARD_SIZ - 1
      PROVE  N \subseteq {m - 1, m + 1, m - BOARD_SIZ - 1, m - BOARD_SIZ, m - BOARD_SIZ + 1}
  BY <1>1, <1>2, <1>6
<1>7. \A p1, p2, p3, p4, p5 : ~(N \subseteq {p1, p2, p3, p4, p5})
  <2> TAKE p1, p2, p3, p4, p5
  <2>1. N \subseteq {p1, p2, p3, p4, p5} => Cardinality(N) <= 5
    BY <1>1, SmallSets
  <2> QED
    BY <1>1, <2>1
<1> HIDE DEF N
<1>8. X(m) # 0 /\ X(m) # BOARD_SIZ - 1 /\ Y(m) # 0 /\ Y(m) # BOARD_SIZ - 1
  BY <1>3, <1>4, <1>5, <1>6, <1>7
<1> QED
  BY <1>1, <1>8

\* A point has no more than four points beside it, and four at its corners.
LEMMA EightAround ==
  ASSUME NEW m \in Point
  PROVE  /\ Cardinality(neighbors_side[m]) <= 4 /\ Cardinality(neighbors_diag[m]) <= 4
         /\ Cardinality(neighbors_3x3[m]) <= 8
         /\ neighbors_3x3[m] = neighbors_side[m] \cup neighbors_diag[m]
<1> DEFINE S == neighbors_side[m]
           D == neighbors_diag[m]
<1>1. S \in SUBSET Point /\ D \in SUBSET Point
  BY NeighborsAreMutual DEF neighbors_diag
<1>2. S \subseteq {m - 1, m + 1, m - BOARD_SIZ, m + BOARD_SIZ}
  BY NeighborsOfPoint DEF IsSide
<1>3. D \subseteq {m - BOARD_SIZ - 1, m - BOARD_SIZ + 1, m + BOARD_SIZ - 1, m + BOARD_SIZ + 1}
  <2> SUFFICES ASSUME NEW n \in D
               PROVE  n \in {m - BOARD_SIZ - 1, m - BOARD_SIZ + 1, m + BOARD_SIZ - 1, m + BOARD_SIZ + 1}
    OBVIOUS
  <2>1. /\ n \in Point /\ X(m) - X(n) \in {-1, 1} /\ Y(m) - Y(n) \in {-1, 1}
    BY DEF neighbors_diag
  <2>2. /\ m = BOARD_SIZ * Y(m) + X(m) /\ n = BOARD_SIZ * Y(n) + X(n)
        /\ X(m) \in Int /\ Y(m) \in Int /\ X(n) \in Int /\ Y(n) \in Int /\ BOARD_SIZ \in Nat
    BY <2>1, Coordinates
  <2>3. BOARD_SIZ * (Y(m) + 1) = BOARD_SIZ * Y(m) + BOARD_SIZ
        /\ BOARD_SIZ * (Y(m) - 1) = BOARD_SIZ * Y(m) - BOARD_SIZ
    BY <2>2
  <2>4. Y(n) = Y(m) + 1 \/ Y(n) = Y(m) - 1
    BY <2>1, <2>2
  <2>5. X(n) = X(m) + 1 \/ X(n) = X(m) - 1
    BY <2>1, <2>2
  <2> DEFINE p == BOARD_SIZ * Y(m)
             r == BOARD_SIZ * Y(n)
  <2>6. /\ m = p + X(m) /\ n = r + X(n) /\ p \in Int /\ r \in Int
        /\ r = p + BOARD_SIZ \/ r = p - BOARD_SIZ
    BY <2>2, <2>3, <2>4
  <2>7. X(m) \in Int /\ BOARD_SIZ \in Int
    BY <2>2
  <2> DEFINE x == X(m)
  <2> HIDE DEF p, r, x
  <2>8. /\ x \in Int /\ BOARD_SIZ \in Int /\ p \in Int /\ m = p + x
        /\ n = r + (x + 1) \/ n = r + (x - 1)
        /\ r = p + BOARD_SIZ \/ r = p - BOARD_SIZ
    BY <2>5, <2>6, <2>7 DEF x
  <2> QED
    BY ONLY <2>8
<1>4. neighbors_3x3[m] = S \cup D
  BY DEF neighbors_3x3
<1> HIDE DEF S, D
<1>5. Cardinality(S) <= 4 /\ Cardinality(D) <= 4
  <2>1. Cardinality(S) <= 4
    BY <1>1, <1>2, SmallSets
  <2>2. Cardinality(D) <= 4
    BY <1>1, <1>3, SmallSets
  <2> QED
    BY <2>1, <2>2
<1>6. /\ IsFiniteSet(S) /\ IsFiniteSet(D) /\ S \cap D \in SUBSET Point
      /\ Cardinality(S \cup D) = Cardinality(S) + Cardinality(D) - Cardinality(S \cap D)
      /\ Cardinality(S) \in Nat /\ Cardinality(D) \in Nat /\ Cardinality(S \cap D) \in Nat
  <2>1. IsFiniteSet(S) /\ IsFiniteSet(D) /\ S \cap D \in SUBSET Point
    BY <1>1, PointsAreFinite
  <2> QED
    BY <1>1, <2>1, FS_Union, PointsAreFinite
<1>7. Cardinality(S \cup D) <= 8
  <2> DEFINE u == Cardinality(S \cup D)
             s1 == Cardinality(S)
             d1 == Cardinality(D)
             i1 == Cardinality(S \cap D)
  <2>1. u = s1 + d1 - i1 /\ s1 \in Nat /\ d1 \in Nat /\ i1 \in Nat /\ s1 <= 4 /\ d1 <= 4
    BY <1>5, <1>6
  <2> HIDE DEF u, s1, d1, i1
  <2>2. u <= 8
    BY <2>1
  <2> QED
    BY <2>2 DEF u
<1> QED
  BY <1>4, <1>5, <1>7 DEF S, D

\* A point beside one that is not at an edge is beside two of its corners.
LEMMA TwoCorners ==
  ASSUME NEW m \in Point, Cardinality(neighbors_3x3[m]) > 5, NEW x \in neighbors_side[m]
  PROVE  \E u, d \in neighbors_3x3[m] :
           /\ u # d /\ u # x /\ d # x /\ u # m /\ d # m
           /\ u \in neighbors_side[x] /\ d \in neighbors_side[x]
<1>1. /\ X(m) \in 0..(BOARD_SIZ - 1) /\ Y(m) \in 0..(BOARD_SIZ - 1) /\ BOARD_SIZ \in Nat
      /\ X(m) > 0 /\ X(m) < BOARD_SIZ - 1 /\ Y(m) > 0 /\ Y(m) < BOARD_SIZ - 1
      /\ x \in Point /\ X(x) \in 0..(BOARD_SIZ - 1) /\ Y(x) \in 0..(BOARD_SIZ - 1)
      /\ InRow(m, x) \/ InColumn(m, x)
  BY Coordinates, Inside, NeighborsAreMutual, BesideInGrid
<1>2. \A n \in neighbors_diag[m] : n \in neighbors_3x3[m]
  BY DEF neighbors_3x3
<1>3. CASE InRow(m, x)
  <2>1. PICK u \in Point : X(u) = X(x) /\ Y(u) = Y(m) - 1
    <3>1. Y(m) - 1 \in 0..(BOARD_SIZ - 1)
      BY <1>1
    <3> QED
      BY <1>1, <3>1, PointAt
  <2>2. PICK d \in Point : X(d) = X(x) /\ Y(d) = Y(m) + 1
    <3>1. Y(m) + 1 \in 0..(BOARD_SIZ - 1)
      BY <1>1
    <3> QED
      BY <1>1, <3>1, PointAt
  <2>3. /\ InColumn(x, u) /\ InColumn(x, d) /\ u # d /\ u # x /\ d # x /\ u # m /\ d # m
    BY <1>1, <1>3, <2>1, <2>2 DEF InRow, InColumn
  <2>4. /\ X(m) - X(u) \in {-1, 1} /\ Y(m) - Y(u) \in {-1, 1}
        /\ X(m) - X(d) \in {-1, 1} /\ Y(m) - Y(d) \in {-1, 1}
    BY <1>1, <1>3, <2>1, <2>2 DEF InRow
  <2>5. u \in neighbors_diag[m] /\ d \in neighbors_diag[m]
    BY <2>4 DEF neighbors_diag
  <2> QED
    BY <1>1, <1>2, <2>3, <2>5, BesideInGrid
<1>4. CASE InColumn(m, x)
  <2>1. PICK u \in Point : X(u) = X(m) - 1 /\ Y(u) = Y(x)
    <3>1. X(m) - 1 \in 0..(BOARD_SIZ - 1)
      BY <1>1
    <3> QED
      BY <1>1, <3>1, PointAt
  <2>2. PICK d \in Point : X(d) = X(m) + 1 /\ Y(d) = Y(x)
    <3>1. X(m) + 1 \in 0..(BOARD_SIZ - 1)
      BY <1>1
    <3> QED
      BY <1>1, <3>1, PointAt
  <2>3. /\ InRow(x, u) /\ InRow(x, d) /\ u # d /\ u # x /\ d # x /\ u # m /\ d # m
    BY <1>1, <1>4, <2>1, <2>2 DEF InRow, InColumn
  <2>4. /\ X(m) - X(u) \in {-1, 1} /\ Y(m) - Y(u) \in {-1, 1}
        /\ X(m) - X(d) \in {-1, 1} /\ Y(m) - Y(d) \in {-1, 1}
    BY <1>1, <1>4, <2>1, <2>2 DEF InColumn
  <2>5. u \in neighbors_diag[m] /\ d \in neighbors_diag[m]
    BY <2>4 DEF neighbors_diag
  <2> QED
    BY <1>1, <1>2, <2>3, <2>5, BesideInGrid
<1> QED
  BY <1>1, <1>3, <1>4

\* The free points beside m are liberties of a stone there.
LEMMA FreeSidesLeft ==
  ASSUME NEW q \in [Point -> Stones], NEW m \in Point, q[m] = EMPTY, NEW c \in Player
  PROVE  /\ FreeSides(q, m) \in SUBSET ExactLiberties(q, c, m)
         /\ Cardinality(FreeSides(q, m)) <= Cardinality(ExactLiberties(q, c, m))
         /\ Cardinality(FreeSides(q, m)) \in Nat /\ Cardinality(ExactLiberties(q, c, m)) \in Nat
<1>1. FreeSides(q, m) \in SUBSET ExactLiberties(q, c, m)
  <2>1. FreeSides(q, m) \subseteq neighbors_side[m] /\ m \notin neighbors_side[m]
    BY NeighborsAreMutual DEF FreeSides
  <2> QED
    BY <2>1 DEF ExactLiberties
<1>2. ExactLiberties(q, c, m) \in SUBSET Point
  BY LibertiesLeft
<1> QED
  BY <1>1, <1>2, FewPoints

LEMMA AtariCaptures ==
  ASSUME NEW b, NEW q, Kept(b, q), NEW m \in Point, q[m] = EMPTY, NEW c \in Player,
         NEW K, K = Captured(With(q, m, c), m)
  PROVE  /\ K \in SUBSET Point
         /\ InAtari(b, Opponent(c), m) # {} <=> Cardinality(K) > 0
         /\ UNION {b.group[h].stones : h \in InAtari(b, Opponent(c), m)} = K
         /\ TakenBeside(q, c, m) # {} <=> Cardinality(K) > 0
<1>1. q \in [Point -> Stones]
  BY DEF Kept, Grouped, Owned
<1>2. K = UNION {Chain(q, x) : x \in TakenBeside(q, c, m)} /\ K \in SUBSET Point
  BY <1>1, TakenChains
<1>3. InAtari(b, Opponent(c), m) = {b.g[x] : x \in TakenBeside(q, c, m)}
  BY InAtariBeside, Marks DEF TakenBeside
<1>4. \A x \in TakenBeside(q, c, m) : b.group[b.g[x]].stones = Chain(q, x) /\ x \in Chain(q, x)
  BY SidesNamed, GroupOfStone, ChainClosed
<1>5. Cardinality(K) > 0 <=> K # {}
  <2>1. Cardinality(K) \in Nat /\ (Cardinality(K) = 0 <=> K = {})
    BY <1>2, FewPoints
  <2> QED
    BY <2>1
<1> DEFINE T == TakenBeside(q, c, m)
<1> HIDE DEF T
<1>6. /\ K = UNION {Chain(q, x) : x \in T} /\ InAtari(b, Opponent(c), m) = {b.g[x] : x \in T}
      /\ \A x \in T : b.group[b.g[x]].stones = Chain(q, x) /\ x \in Chain(q, x)
  BY <1>2, <1>3, <1>4 DEF T
<1> QED
  BY <1>2, <1>5, <1>6 DEF T

LEMMA SafeIsExact ==
  ASSUME NEW b, NEW q, Kept(b, q), NEW m \in Point, q[m] = EMPTY, NEW c \in Player
  PROVE  safe_to_play(b, c, m) = Lower(Cardinality(ExactLiberties(q, c, m)), 2)
<1> DEFINE e1 == Cardinality(ExactLiberties(q, c, m))
           f1 == Cardinality(FreeSides(q, m))
           w  == b.neighbors4["white"][m]
           k  == b.neighbors4["black"][m]
           o  == out_neighbors4[m]
<1>1. f1 \in Nat /\ e1 \in Nat /\ f1 <= e1
  BY FreeSidesLeft DEF Kept, Grouped, Owned
<1>2. k + w + o = 4 - f1 /\ w \in Nat /\ k \in Nat /\ o \in Int
  BY SidesLeft DEF Player
<1>3. ProbableLibs(b, c, m) = Lower(e1, 2)
  BY ProbableIsExact
<1>4. safe_to_play(b, c, m) = IF w + k + o < 3 THEN 2 ELSE ProbableLibs(b, c, m)
  BY DEF safe_to_play
<1> HIDE DEF e1, f1, w, k, o
<1>5. w + k + o < 3 => Lower(e1, 2) = 2
  BY <1>1, <1>2 DEF Lower
<1> QED
  BY <1>3, <1>4, <1>5 DEF e1

\* With six free points around it a point has two beside it, and takes nothing.
LEMMA WideOpen ==
  ASSUME NEW q \in [Point -> Stones], NEW m \in Point, q[m] = EMPTY, NEW c \in Player,
         Cardinality(FreeAround(q, m)) > 5
  PROVE  Cardinality(FreeSides(q, m)) >= 2 /\ TakenBeside(q, c, m) = {}
<1> DEFINE N  == neighbors_3x3[m]
           A  == FreeAround(q, m)
           S  == FreeSides(q, m)
           D  == {n \in neighbors_diag[m] : q[n] = EMPTY}
           R  == N \ A
           a1 == Cardinality(A)
           s1 == Cardinality(S)
           d1 == Cardinality(D)
           n1 == Cardinality(N)
           r1 == Cardinality(R)
           i1 == Cardinality(S \cap D)
<1>1. /\ N \in SUBSET Point /\ N = neighbors_side[m] \cup neighbors_diag[m] /\ n1 <= 8
      /\ Cardinality(neighbors_diag[m]) <= 4 /\ neighbors_diag[m] \in SUBSET Point
      /\ neighbors_side[m] \in SUBSET Point
  BY EightAround, NeighborsAreMutual DEF neighbors_diag
<1>2. /\ A \in SUBSET Point /\ S \in SUBSET Point /\ D \in SUBSET Point /\ R \in SUBSET Point
      /\ A = S \cup D /\ D \in SUBSET neighbors_diag[m] /\ A \in SUBSET N /\ N \cap A = A
      /\ S \cap D \in SUBSET Point
  BY <1>1 DEF FreeSides, FreeAround
<1>3. d1 <= 4
  <2>1. d1 <= Cardinality(neighbors_diag[m]) /\ d1 \in Nat /\ Cardinality(neighbors_diag[m]) \in Nat
    BY <1>1, <1>2, FewPoints
  <2> HIDE DEF d1
  <2> QED
    BY <1>1, <2>1
<1> HIDE DEF A, S, D, N
<1>4. /\ a1 = s1 + d1 - i1 /\ r1 = n1 - a1
      /\ a1 \in Nat /\ s1 \in Nat /\ d1 \in Nat /\ n1 \in Nat /\ r1 \in Nat /\ i1 \in Nat
  <2>1. IsFiniteSet(S) /\ IsFiniteSet(D) /\ IsFiniteSet(N)
    BY <1>1, <1>2, PointsAreFinite
  <2>2. a1 = s1 + d1 - i1
    BY <1>2, <2>1, FS_Union
  <2>3. r1 = n1 - Cardinality(N \cap A)
    BY <2>1, FS_Difference
  <2> QED
    BY <1>1, <1>2, <2>2, <2>3, PointsAreFinite
<1>5. a1 > 5
  BY DEF A, N
<1> HIDE DEF a1, s1, d1, n1, r1, i1
<1>6. s1 >= 2 /\ r1 <= 2 /\ n1 > 5
  BY <1>1, <1>3, <1>4, <1>5
<1>7. ASSUME NEW x \in TakenBeside(q, c, m) PROVE FALSE
  <2>1. x \in neighbors_side[m] /\ x \in Point /\ q[x] # EMPTY /\ LibertiesAt(q, x) = {m}
    BY SidesNamed DEF TakenBeside
  <2>2. PICK u, d \in N : /\ u # d /\ u # x /\ d # x /\ u # m /\ d # m
                          /\ u \in neighbors_side[x] /\ d \in neighbors_side[x]
    BY <1>6, <2>1, TwoCorners DEF n1, N
  <2>3. \A a \in neighbors_side[x] : q[a] = EMPTY => a = m
    <3>1. x \in Chain(q, x) /\ neighbors_side[x] \subseteq Point
      BY <2>1, ChainClosed, NeighborsAreMutual
    <3>2. \A a \in neighbors_side[x] : q[a] = EMPTY => a \in LibertiesAt(q, x)
      BY <2>1, <3>1, LibertiesOfChain
    <3> QED
      BY <2>1, <3>2
  <2>4. x \in R /\ u \in R /\ d \in R
    BY <1>1, <2>1, <2>2, <2>3 DEF A, FreeAround
  <2>5. r1 >= 3
    BY <1>2, <2>2, <2>4, SmallSets DEF r1
  <2> QED
    BY <1>4, <1>6, <2>5
<1> QED
  BY <1>6, <1>7 DEF s1, S

LEMMA SafeWithCaptures ==
  ASSUME NEW b, NEW q, Kept(b, q), NEW m \in Point, q[m] = EMPTY, NEW c \in Player
  PROVE  safe_to_play2(b, c, m) =
           [libs |-> Lower(Cardinality(ExactLiberties(q, c, m)), 2),
            caps |-> Cardinality(Captured(With(q, m, c), m)) > 0]
<1> DEFINE e1 == Cardinality(ExactLiberties(q, c, m))
           f1 == Cardinality(FreeSides(q, m))
           a1 == Cardinality(FreeAround(q, m))
           w  == b.neighbors8["white"][m]
           k  == b.neighbors8["black"][m]
           o  == out_neighbors8[m]
           caps == Cardinality(Captured(With(q, m, c), m)) > 0
<1>0. q \in [Point -> Stones]
  BY DEF Kept, Grouped, Owned
<1>1. f1 \in Nat /\ e1 \in Nat /\ f1 <= e1
  BY <1>0, FreeSidesLeft
<1>2. k + w + o = 8 - a1 /\ w \in Nat /\ k \in Nat /\ o \in Int
  <2>1. k + w + o = 8 - a1
    BY SidesLeft
  <2>2. w \in Nat /\ k \in Nat /\ o \in Int
    BY SidesLeft DEF Player
  <2> QED
    BY <2>1, <2>2
<1>3. a1 \in Nat
  <2>1. FreeAround(q, m) \in SUBSET Point
    BY NeighborsAreMutual DEF FreeAround
  <2> QED
    BY <2>1, PointsAreFinite
<1>4. ProbableLibs(b, c, m) = Lower(e1, 2)
  BY ProbableIsExact
<1>5. (InAtari(b, Opponent(c), m) # {}) <=> caps
  BY AtariCaptures
<1>6. a1 > 5 => f1 >= 2 /\ ~caps
  BY <1>0, WideOpen, AtariCaptures
<1>7. safe_to_play2(b, c, m) =
        IF w + k + o < 3 THEN [libs |-> 2, caps |-> FALSE]
        ELSE [libs |-> ProbableLibs(b, c, m), caps |-> InAtari(b, Opponent(c), m) # {}]
  BY DEF safe_to_play2
<1> HIDE DEF e1, f1, a1, w, k, o
<1>8. w + k + o < 3 => Lower(e1, 2) = 2 /\ ~caps
  <2>1. w + k + o < 3 => a1 > 5
    BY <1>2, <1>3
  <2>2. f1 >= 2 => Lower(e1, 2) = 2
    BY <1>1 DEF Lower
  <2> QED
    BY <1>6, <2>1, <2>2
<1>9. (InAtari(b, Opponent(c), m) # {}) = caps
  BY <1>5
<1>10. CASE w + k + o < 3
  <2>1. caps = FALSE
    BY <1>8, <1>10
  <2> HIDE DEF caps
  <2> QED
    BY <1>7, <1>8, <1>10, <2>1 DEF caps, e1
<1>11. CASE ~(w + k + o < 3)
  <2> HIDE DEF caps
  <2> QED
    BY <1>4, <1>7, <1>9, <1>11 DEF caps, e1
<1> QED
  BY <1>10, <1>11

LEMMA CapturesForetold ==
  ASSUME NEW b, NEW q, Kept(b, q), NEW m \in Point, q[m] = EMPTY, NEW c \in Player
  PROVE  caps_after_play(b, c, m) <=> Cardinality(Captured(With(q, m, c), m)) > 0
<1>1. InAtari(b, Opponent(c), m) # {} <=> Cardinality(Captured(With(q, m, c), m)) > 0
  BY AtariCaptures
<1>2. ASSUME InAtari(b, Opponent(c), m) # {} PROVE b.neighbors4[Opponent(c)][m] # 0
  <2>1. InAtari(b, Opponent(c), m) =
          {b.g[x] : x \in {y \in neighbors_side[m] : q[y] = Opponent(c) /\ LibertiesAt(q, y) = {m}}}
    BY InAtariBeside, Marks
  <2>2. PICK x \in neighbors_side[m] : q[x] = Opponent(c)
    BY <1>2, <2>1
  <2>3. b.neighbors4[Opponent(c)][m] = Cardinality(StonesIn(neighbors_side[m], q, Opponent(c)))
    BY Marks DEF Kept, Around
  <2>4. /\ x \in StonesIn(neighbors_side[m], q, Opponent(c))
        /\ StonesIn(neighbors_side[m], q, Opponent(c)) \in SUBSET Point
    BY <2>2, NeighborsAreMutual DEF StonesIn
  <2> QED
    BY <2>3, <2>4, FewPoints
<1> QED
  BY <1>1, <1>2 DEF caps_after_play

\* The groups given the liberties of the stones K captured.
LEMMA GroupGiven ==
  ASSUME NEW b, NEW q, q = b.p, Kept(b, q), NEW K \in SUBSET Point, NEW c \in Player,
         NEW x \in Point, q[x] = c
  PROVE  add_liberties_to_neighbors(b, K, c)[b.g[x]].ls =
           LibertiesAt(q, x) \cup {k \in K : \E n \in neighbors_side[k] : n \in Chain(q, x)}
<1> DEFINE h == b.g[x]
           S(i) == {k \in K : \E n \in neighbors_side[k] : b.p[n] = c /\ b.g[n] = i}
<1>1. /\ h \in DOMAIN b.group /\ b.group[h].ls = LibertiesAt(q, x)
      /\ \A n \in Point : n \in Chain(q, x) <=> b.g[n] = h
  BY GroupOfStone, Marks
<1>2. b.group[h] \in GroupType
  BY <1>1 DEF Kept, Grouped, GroupsTyped
<1>3. add_liberties_to_neighbors(b, K, c)[h] = add_liberty(b.group[h], S(h))
  BY <1>1 DEF add_liberties_to_neighbors
<1>4. S(h) = {k \in K : \E n \in neighbors_side[k] : n \in Chain(q, x)}
  <2>1. \A n \in Chain(q, x) : q[n] = c
    BY ChainClosed
  <2>2. \A k \in K : \A n \in neighbors_side[k] :
          b.p[n] = c /\ b.g[n] = h <=> n \in Chain(q, x)
    BY <1>1, <2>1, NeighborsAreMutual
  <2> HIDE DEF h
  <2> QED
    BY <2>2
<1>5. S(h) \in SUBSET Point
  OBVIOUS
<1> HIDE DEF S, h
<1>6. add_liberty(b.group[h], S(h)).ls = b.group[h].ls \cup S(h)
  <2>1. WithLiberties(add_liberty(b.group[h], S(h)), b.group[h], S(h))
    BY <1>2, <1>5, LibertyAdded
  <2> QED
    BY <2>1 DEF WithLiberties
<1> QED
  BY <1>1, <1>3, <1>4, <1>6 DEF h

LEMMA LibsAfterIsExact ==
  ASSUME NEW b, NEW q, q = b.p, Kept(b, q), NEW m \in Point, q[m] = EMPTY, NEW c \in Player
  PROVE  /\ libs_after_play(b, c, m).libs = Cardinality(ExactLiberties(q, c, m))
         /\ libs_after_play(b, c, m).caps = Cardinality(Captured(With(q, m, c), m))
<1> DEFINE own    == Beside(b, c, m)
           dead   == InAtari(b, Opponent(c), m)
           stones == UNION {b.group[h].stones : h \in dead}
           given  == add_liberties_to_neighbors(b, stones, c)
           ls     == {m} \cup FreeBeside(b, m) \cup (stones \cap neighbors_side[m])
                     \cup UNION {given[h].ls : h \in own}
           none   == b.neighbors4["black"][m] + b.neighbors4["white"][m] = 0
           K == Captured(With(q, m, c), m)
           E == ExactLiberties(q, c, m)
           O == OwnBeside(q, c, m)
           F == FreeSides(q, m)
           T == TakenBeside(q, c, m)
<1>0. q \in [Point -> Stones]
  BY DEF Kept, Grouped, Owned
<1>1. /\ libs_after_play(b, c, m).libs = IF none THEN 4 - out_neighbors4[m] ELSE Cardinality(ls) - 1
      /\ libs_after_play(b, c, m).caps = IF none THEN 0 ELSE Cardinality(stones)
  BY DEF libs_after_play
<1>2. stones = K /\ K \in SUBSET Point
  BY AtariCaptures
<1>3. /\ K = UNION {Chain(q, x) : x \in T} /\ K \cap neighbors_side[m] = T
      /\ E \in SUBSET Point /\ m \notin E
      /\ E = ((F \cup UNION {LibertiesAt(q, x) : x \in O}) \ {m})
             \cup {k \in K : \E n \in neighbors_side[k] : n = m \/ \E x \in O : n \in Chain(q, x)}
  BY <1>0, TakenChains, LibertiesLeft DEF ExactLiberties
<1>4. /\ neighbors_side[m] \subseteq Point /\ m \notin neighbors_side[m]
      /\ \A k \in Point : m \in neighbors_side[k] <=> k \in neighbors_side[m]
      /\ F = {x \in neighbors_side[m] : q[x] = EMPTY}
      /\ \A x \in O : x \in Point /\ q[x] = c /\ x \in neighbors_side[m]
      /\ \A x \in T : q[x] = Opponent(c) /\ x \in neighbors_side[m]
      /\ c # EMPTY /\ Opponent(c) # EMPTY
  <2>1. /\ neighbors_side[m] \subseteq Point /\ m \notin neighbors_side[m]
        /\ \A k \in Point : m \in neighbors_side[k] <=> k \in neighbors_side[m]
    BY NeighborsAreMutual
  <2> QED
    BY <2>1, Marks DEF FreeSides, OwnBeside, TakenBeside
<1>5. CASE none
  <2>1. \A x \in neighbors_side[m] : q[x] = EMPTY
    BY <1>5, SidesLeft
  <2> HIDE DEF F, T, O, E, K, ls, own, stones
  <2>2. F = neighbors_side[m] /\ T = {} /\ O = {}
    BY <1>4, <2>1
  <2>3. K = {} /\ E = neighbors_side[m]
    BY <1>3, <1>4, <2>2
  <2>4. out_neighbors4[m] = 4 - Cardinality(neighbors_side[m]) /\ Cardinality(neighbors_side[m]) \in Nat
    BY <1>4, PointsAreFinite DEF out_neighbors4
  <2>5. 4 - out_neighbors4[m] = Cardinality(neighbors_side[m])
    BY <2>4
  <2> QED
    BY <1>1, <1>5, <2>3, <2>5, FS_EmptySet DEF E, K
<1>6. CASE ~none
  <2>1. /\ own = {b.g[x] : x \in O} /\ FreeBeside(b, m) = F
    BY BesidePoint DEF OwnBeside, FreeSides
  <2>2. \A x \in O : given[b.g[x]].ls =
          LibertiesAt(q, x) \cup {k \in K : \E n \in neighbors_side[k] : n \in Chain(q, x)}
    <3> TAKE x \in O
    <3>1. x \in Point /\ q[x] = c /\ K \in SUBSET Point
      BY <1>2, <1>4
    <3> HIDE DEF K, O
    <3>2. add_liberties_to_neighbors(b, K, c)[b.g[x]].ls =
            LibertiesAt(q, x) \cup {k \in K : \E n \in neighbors_side[k] : n \in Chain(q, x)}
      BY <3>1, GroupGiven
    <3> HIDE DEF stones
    <3> QED
      BY <1>2, <3>2
  <2> HIDE DEF given, own, stones, F, T, O, E, K
  <2>3. ls = {m} \cup F \cup T \cup
               UNION {LibertiesAt(q, x) \cup {k \in K : \E n \in neighbors_side[k] : n \in Chain(q, x)} :
                        x \in O}
    BY <1>2, <1>3, <2>1, <2>2
  <2> HIDE DEF ls
  <2>4. ls = {m} \cup E
    <3>1. \A x \in T : x \in K /\ m \in neighbors_side[x]
      BY <1>2, <1>3, <1>4
    <3>2. \A k \in K : m \in neighbors_side[k] => k \in T
      BY <1>2, <1>3, <1>4
    <3> QED
      BY <1>3, <2>3, <3>1, <3>2
  <2>5. Cardinality(ls) - 1 = Cardinality(E)
    <3>1. ls \in SUBSET Point /\ m \in ls /\ ls \ {m} = E
      BY <1>3, <2>4
    <3>2. Cardinality(ls \ {m}) = Cardinality(ls) - 1
      BY <3>1, FewPoints
    <3> QED
      BY <3>1, <3>2
  <2> QED
    BY <1>1, <1>2, <1>6, <2>5 DEF K, E
<1> QED
  BY <1>5, <1>6

-----------------------------------------------------------------------------
(* What a play does not change. *)
\* What a play leaves, point by point.
LEMMA LeftAt ==
  ASSUME NEW q \in [Point -> Stones], NEW m \in Point, q[m] = EMPTY, NEW c \in Player,
         NEW K, K = Captured(With(q, m, c), m)
  PROVE  /\ Leaves(q, c, m) \in [Point -> Stones] /\ Leaves(q, c, m)[m] = c /\ m \notin K
         /\ \A n \in Point : Leaves(q, c, m)[n] = IF n \in K THEN EMPTY ELSE IF n = m THEN c ELSE q[n]
<1> DEFINE P == With(q, m, c)
<1>1. P \in [Point -> Stones] /\ \A n \in Point : P[n] = IF n = m THEN c ELSE q[n]
  BY PlacedAt
<1>2. \A k \in K : q[k] = Opponent(c)
  BY TakenChains
<1>3. m \notin K /\ EMPTY \in Stones
  BY <1>2, Marks DEF Stones
<1>4. Leaves(q, c, m) = [n \in Point |-> IF n \in K THEN EMPTY ELSE P[n]]
  BY DEF Leaves
<1> HIDE DEF P
<1> QED
  BY <1>1, <1>3, <1>4

\* A chain that is not captured, nor joined, loses the point played for a liberty, and
\* gains the stones captured beside it.
LEMMA ChainsApart ==
  ASSUME NEW q \in [Point -> Stones], NEW m \in Point, q[m] = EMPTY, NEW c \in Player,
         NEW K, K = Captured(With(q, m, c), m),
         NEW x \in Point, q[x] # EMPTY, x \notin K, q[x] = c => m \notin LibertiesAt(q, x)
  PROVE  /\ Chain(Leaves(q, c, m), x) = Chain(q, x)
         /\ LibertiesAt(Leaves(q, c, m), x) =
              (LibertiesAt(q, x) \ {m}) \cup {k \in K : \E n \in neighbors_side[k] : n \in Chain(q, x)}
<1> DEFINE L == Leaves(q, c, m)
           C == Chain(q, x)
<1>1. /\ m \notin K /\ L[m] = c
      /\ \A n \in Point : L[n] = IF n \in K THEN EMPTY ELSE IF n = m THEN c ELSE q[n]
  BY LeftAt
<1>2. K \subseteq Point /\ \A k \in K : q[k] = Opponent(c) /\ Chain(q, k) \subseteq K
  BY TakenChains
<1>3. /\ C \subseteq Point /\ x \in C
      /\ \A n \in C : q[n] = q[x] /\ Chain(q, n) = C
      /\ \A n \in C : \A a \in neighbors_side[n] : q[a] = q[x] => a \in C
  BY ChainClosed, ChainOfAny
<1>4. \A n \in C : n # m /\ n \notin K
  BY <1>2, <1>3
<1>5. /\ \A n \in Point : neighbors_side[n] \subseteq Point
      /\ \A n, a \in Point : n \in neighbors_side[a] <=> a \in neighbors_side[n]
      /\ c # EMPTY
  BY NeighborsAreMutual, Marks
<1>6. \A z : z \in LibertiesAt(q, x) <=>
        z \in Point /\ q[z] = EMPTY /\ \E k \in C : z \in neighbors_side[k]
  BY LibertiesOfChain
<1> HIDE DEF L, C
<1>7. \A n \in C : L[n] = q[n]
  BY <1>1, <1>3, <1>4
<1>8. ASSUME NEW n \in C, NEW a \in neighbors_side[n] \ C
      PROVE  L[a] # q[x]
  <2>1. a \in Point /\ q[a] # q[x]
    BY <1>3, <1>5, <1>8
  <2>2. CASE a = m
    <3>1. m \in LibertiesAt(q, x)
      BY <1>6, <1>8, <2>2
    <3> QED
      BY <1>1, <2>2, <3>1
  <2>3. CASE a # m
    BY <1>1, <2>1, <2>3
  <2> QED
    BY <2>2, <2>3
<1>9. Chain(L, x) = C
  BY <1>7, <1>8, ChainUnchanged DEF C
<1>10. \A z : z \in LibertiesAt(L, x) <=>
         z \in Point /\ L[z] = EMPTY /\ \E k \in C : z \in neighbors_side[k]
  BY <1>9, LibertiesOfChain
<1>11. \A z \in Point : L[z] = EMPTY <=> z \in K \/ (z # m /\ q[z] = EMPTY)
  BY <1>1, <1>5
<1>12. \A z : z \in LibertiesAt(L, x) <=>
         \/ z \in LibertiesAt(q, x) /\ z # m
         \/ z \in K /\ \E n \in neighbors_side[z] : n \in C
  <2>1. \A z \in Point : (\E k \in C : z \in neighbors_side[k]) <=> \E n \in neighbors_side[z] : n \in C
    BY <1>3, <1>5
  <2> QED
    BY <1>2, <1>6, <1>10, <1>11, <2>1
<1>13. LibertiesAt(L, x) =
         (LibertiesAt(q, x) \ {m}) \cup {k \in K : \E n \in neighbors_side[k] : n \in C}
  BY <1>12
<1> QED
  BY <1>9, <1>13 DEF L, C

\* A free point beside a chain that a play joins is a liberty of the stone played.
LEMMA JoinedLiberty ==
  ASSUME NEW q \in [Point -> Stones], NEW m \in Point, q[m] = EMPTY, NEW c \in Player,
         NEW x \in Point, q[x] = c, m \in LibertiesAt(q, x),
         NEW n \in LibertiesAt(q, x), n # m
  PROVE  n \in LibertiesAt(Leaves(q, c, m), m)
<1>1. PICK z \in Chain(q, x) : m \in neighbors_side[z]
  BY LibertiesOfChain
<1>2. z \in Point /\ q[z] = c /\ Chain(q, z) = Chain(q, x)
  BY ChainClosed, ChainOfAny
<1>3. z \in OwnBeside(q, c, m) /\ LibertiesAt(q, z) = LibertiesAt(q, x)
  BY <1>1, <1>2, NeighborsAreMutual DEF OwnBeside, LibertiesAt
<1>4. n \in ExactLiberties(q, c, m)
  BY <1>3 DEF ExactLiberties
<1> QED
  BY <1>4, LibertiesLeft

\* A stone placed makes no chain of its colour smaller.
LEMMA ChainGrows ==
  ASSUME NEW q \in [Point -> Stones], NEW m \in Point, q[m] = EMPTY, NEW c \in Player,
         NEW y \in Point, q[y] = c
  PROVE  /\ Chain(q, y) \subseteq Chain(With(q, m, c), y)
         /\ LibertiesAt(q, y) \ {m} \subseteq LibertiesAt(With(q, m, c), y)
<1> DEFINE P == With(q, m, c)
           S == Chain(P, y)
<1>1. P[y] = c /\ \A n \in Point : P[n] = IF n = m THEN c ELSE q[n]
  BY PlacedAt
<1>2. /\ S \subseteq Point /\ y \in S
      /\ \A n \in S : \A a \in neighbors_side[n] : P[a] = P[y] => a \in S
  BY ChainClosed
<1>3. \A n \in Point : neighbors_side[n] \subseteq Point
  BY NeighborsAreMutual
<1>4. \A z : z \in LibertiesAt(P, y) <=>
        z \in Point /\ P[z] = EMPTY /\ \E k \in S : z \in neighbors_side[k]
  BY LibertiesOfChain
<1>5. \A z : z \in LibertiesAt(q, y) <=>
        z \in Point /\ q[z] = EMPTY /\ \E k \in Chain(q, y) : z \in neighbors_side[k]
  BY LibertiesOfChain
<1> HIDE DEF S, P
<1>6. \A s \in S : s \in Point /\ q[s] = q[y] => \A a \in neighbors_side[s] : q[a] = q[y] => a \in S
  BY <1>1, <1>2, <1>3
<1>7. Chain(q, y) \subseteq S
  BY <1>2, <1>6, ChainLeast
<1>8. LibertiesAt(q, y) \ {m} \subseteq LibertiesAt(P, y)
  BY <1>1, <1>4, <1>5, <1>7
<1> QED
  BY <1>7, <1>8 DEF S, P

\* A point at a corner of another has a point beside both.
LEMMA BesideBoth ==
  ASSUME NEW n \in Point, NEW k \in neighbors_diag[n]
  PROVE  k \in Point /\ n \in neighbors_diag[k] /\ \E u \in neighbors_side[n] : u \in neighbors_side[k]
<1>1. k \in Point /\ X(n) - X(k) \in {-1, 1} /\ Y(n) - Y(k) \in {-1, 1}
  BY DEF neighbors_diag
<1>2. /\ X(n) \in Int /\ Y(n) \in Int /\ X(k) \in Int /\ Y(k) \in Int
      /\ X(k) \in 0..(BOARD_SIZ - 1) /\ Y(n) \in 0..(BOARD_SIZ - 1)
  BY <1>1, Coordinates
<1>3. PICK u \in Point : X(u) = X(k) /\ Y(u) = Y(n)
  BY <1>2, PointAt
<1>4. InRow(n, u) /\ InColumn(k, u)
  BY <1>1, <1>2, <1>3 DEF InRow, InColumn
<1>5. u \in neighbors_side[n] /\ u \in neighbors_side[k]
  BY <1>1, <1>3, <1>4, BesideInGrid
<1>6. X(k) - X(n) \in {-1, 1} /\ Y(k) - Y(n) \in {-1, 1}
  BY <1>1, <1>2
<1> QED
  BY <1>1, <1>5, <1>6 DEF neighbors_diag

\* D holds the points that a play by c at m may change, on the board q.
Marked(q, c, m, D) ==
  /\ neighbors_diag[m] \subseteq D /\ Captured(With(q, m, c), m) \subseteq D
  /\ LibertiesAt(Leaves(q, c, m), m) \subseteq D
  /\ \A y \in Point : /\ Leaves(q, c, m)[y] = Opponent(c)
                      /\ Touch(Chain(Leaves(q, c, m), m), Chain(Leaves(q, c, m), y))
                      => LibertiesAt(Leaves(q, c, m), y) \subseteq D
  /\ \A k \in Captured(With(q, m, c), m) : \A y \in neighbors_side[k] :
       q[y] = c => LibertiesAt(q, y) \ {m} \subseteq D

\* The chains beside a point n, and their liberties, on two boards.
SameBeside(q, L, n) ==
  /\ \A a \in neighbors_3x3[n] : L[a] = q[a]
  /\ \A x \in neighbors_side[n] : q[x] # EMPTY =>
       Chain(L, x) = Chain(q, x) /\ LibertiesAt(L, x) = LibertiesAt(q, x)

\* Around a free point that is not marked, the play changed nothing: no stone placed,
\* none captured, and no liberty of the chains beside it taken or given.
LEMMA UnmarkedUnchanged ==
  ASSUME NEW q \in [Point -> Stones], NEW m \in Point, q[m] = EMPTY, NEW c \in Player,
         NEW D, Marked(q, c, m, D),
         NEW n \in Point, Leaves(q, c, m)[n] = EMPTY, n \notin D
  PROVE  q[n] = EMPTY /\ n # m /\ SameBeside(q, Leaves(q, c, m), n)
<1> DEFINE L == Leaves(q, c, m)
           K == Captured(With(q, m, c), m)
<1>1. /\ L \in [Point -> Stones] /\ L[m] = c /\ m \notin K
      /\ \A a \in Point : L[a] = IF a \in K THEN EMPTY ELSE IF a = m THEN c ELSE q[a]
  BY LeftAt
<1>2. K \subseteq Point /\ \A k \in K : q[k] = Opponent(c) /\ LibertiesAt(q, k) = {m} /\ Chain(q, k) \subseteq K
  BY TakenChains
<1>3. /\ c # EMPTY /\ Opponent(c) # c /\ Opponent(c) # EMPTY
      /\ \A a \in Stones : a = EMPTY \/ a = c \/ a = Opponent(c)
  BY Marks DEF Stones
<1>4. /\ neighbors_diag[m] \subseteq D /\ K \subseteq D
      /\ LibertiesAt(L, m) \subseteq D
      /\ \A y \in Point : L[y] = Opponent(c) /\ Touch(Chain(L, m), Chain(L, y)) => LibertiesAt(L, y) \subseteq D
      /\ \A k \in K : \A y \in neighbors_side[k] : q[y] = c => LibertiesAt(q, y) \ {m} \subseteq D
  BY DEF Marked
<1>5. n \notin K /\ n # m /\ q[n] = EMPTY
  BY <1>1, <1>3, <1>4
<1>6. /\ \A a \in Point : neighbors_side[a] \subseteq Point
      /\ \A a, d \in Point : a \in neighbors_side[d] <=> d \in neighbors_side[a]
  BY NeighborsAreMutual
<1>7. \A x \in neighbors_side[n] : /\ x \in Point /\ n \in LibertiesAt(q, x) /\ x \in Chain(q, x)
                                   /\ \A a \in neighbors_side[x] : q[a] = q[x] => a \in Chain(q, x)
  BY <1>5, LibertyOfPlay, ChainClosed
<1> HIDE DEF L, K
<1>8. m \notin neighbors_side[n]
  <2>1. n \in neighbors_side[m] => n \in LibertiesAt(L, m)
    BY <1>1, ChainClosed, LibertiesOfChain DEF L
  <2> QED
    BY <1>4, <1>6, <2>1
<1>9. m \notin neighbors_3x3[n]
  <2>1. m \in neighbors_diag[n] => n \in neighbors_diag[m]
    BY BesideBoth
  <2> QED
    BY <1>4, <1>8, <2>1 DEF neighbors_3x3
<1>10. \A k \in K : k \notin neighbors_side[n]
  BY <1>2, <1>5, <1>7
<1>11. ASSUME NEW k \in K, k \in neighbors_diag[n] PROVE FALSE
  <2>1. PICK u \in neighbors_side[n] : u \in neighbors_side[k]
    BY <1>11, BesideBoth
  <2>2. u \in Point /\ k \in Point /\ k \in neighbors_side[u]
    BY <1>2, <1>6, <2>1
  <2>3. CASE q[u] = EMPTY
    <3>1. u \in LibertiesAt(q, k)
      BY <2>1, <2>2, <2>3, ChainClosed, LibertiesOfChain
    <3> QED
      BY <1>2, <1>8, <2>1, <3>1
  <2>4. CASE q[u] = Opponent(c)
    <3>1. u \in Chain(q, k)
      BY <1>2, <2>1, <2>2, <2>4, ChainClosed
    <3> QED
      BY <1>2, <1>10, <2>1, <3>1
  <2>5. CASE q[u] = c
    BY <1>4, <1>5, <1>7, <2>1, <2>5
  <2> QED
    BY <1>3, <2>2, <2>3, <2>4, <2>5
<1>12. \A a \in neighbors_3x3[n] : L[a] = q[a]
  <2> TAKE a \in neighbors_3x3[n]
  <2>1. a \in Point /\ a # m
    BY <1>9, NeighborsAreMutual
  <2>2. a \notin K
    BY <1>10, <1>11 DEF neighbors_3x3
  <2> QED
    BY <1>1, <2>1, <2>2
<1>13. ASSUME NEW x \in neighbors_side[n], q[x] # EMPTY
       PROVE  Chain(L, x) = Chain(q, x) /\ LibertiesAt(L, x) = LibertiesAt(q, x)
  <2>1. x \in Point /\ x \notin K /\ n \in LibertiesAt(q, x)
    BY <1>7, <1>10
  <2>2. q[x] = c => m \notin LibertiesAt(q, x)
    BY <1>4, <1>5, <2>1, JoinedLiberty DEF L
  <2>3. /\ Chain(L, x) = Chain(q, x)
        /\ LibertiesAt(L, x) =
             (LibertiesAt(q, x) \ {m}) \cup {k \in K : \E z \in neighbors_side[k] : z \in Chain(q, x)}
    BY <1>13, <2>1, <2>2, ChainsApart DEF L, K
  <2>4. ASSUME q[x] = Opponent(c), m \in LibertiesAt(q, x) PROVE FALSE
    <3>1. PICK z \in Chain(q, x) : m \in neighbors_side[z]
      BY <2>1, <2>4, LibertiesOfChain
    <3>2. z \in Point /\ z \in neighbors_side[m]
      BY <1>6, <2>1, <3>1, ChainClosed
    <3>3. m \in Chain(L, m)
      BY ChainClosed
    <3>4. Touch(Chain(L, m), Chain(L, x))
      BY <2>3, <3>1, <3>2, <3>3 DEF Touch
    <3>5. L[x] = Opponent(c)
      BY <1>1, <1>3, <2>1, <2>4
    <3>6. n \in LibertiesAt(L, x)
      BY <1>5, <2>1, <2>3
    <3> QED
      BY <1>4, <2>1, <3>4, <3>5, <3>6
  <2>5. m \notin LibertiesAt(q, x)
    BY <1>3, <1>13, <2>1, <2>2, <2>4
  <2>6. ASSUME NEW k \in K, NEW z \in neighbors_side[k], z \in Chain(q, x) PROVE FALSE
    <3>1. z \in Point /\ q[z] = q[x] /\ Chain(q, z) = Chain(q, x) /\ x \in Chain(q, z) /\ k \in Point
      BY <1>2, <1>7, <2>1, <2>6, ChainClosed, ChainOfAny
    <3>2. CASE q[x] = Opponent(c)
      <4>1. z \in Chain(q, k)
        BY <1>2, <2>6, <3>1, <3>2, ChainClosed
      <4>2. z \in K /\ Chain(q, z) \subseteq K
        BY <1>2, <4>1
      <4> QED
        BY <2>1, <3>1, <4>2
    <3>3. CASE q[x] = c
      <4>1. LibertiesAt(q, z) = LibertiesAt(q, x)
        BY <3>1 DEF LibertiesAt
      <4> QED
        BY <1>4, <1>5, <2>1, <2>6, <3>1, <3>3, <4>1
    <3> QED
      BY <1>3, <1>13, <2>1, <3>2, <3>3
  <2> QED
    BY <2>3, <2>5, <2>6
<1> QED
  BY <1>5, <1>12, <1>13 DEF SameBeside, L

\* What a play at n would leave is told by the chains beside it.
LEMMA SameExactLiberties ==
  ASSUME NEW q \in [Point -> Stones], NEW L \in [Point -> Stones], NEW n \in Point,
         q[n] = EMPTY, L[n] = EMPTY, SameBeside(q, L, n), NEW e \in Player
  PROVE  ExactLiberties(L, e, n) = ExactLiberties(q, e, n)
<1> DEFINE N == neighbors_side[n]
           KQ == Captured(With(q, n, e), n)
           KL == Captured(With(L, n, e), n)
<1>1. /\ \A a \in N : L[a] = q[a]
      /\ \A x \in N : q[x] # EMPTY =>
           Chain(L, x) = Chain(q, x) /\ LibertiesAt(L, x) = LibertiesAt(q, x)
  BY DEF SameBeside, neighbors_3x3
<1>2. e # EMPTY /\ Opponent(e) # EMPTY
  BY Marks
<1> HIDE DEF N
<1>3. OwnBeside(L, e, n) = OwnBeside(q, e, n)
  BY <1>1 DEF OwnBeside, N
<1>4. FreeSides(L, n) = FreeSides(q, n)
  BY <1>1 DEF FreeSides, N
<1>5. \A x : x \in TakenBeside(L, e, n) <=> x \in TakenBeside(q, e, n)
  BY <1>1, <1>2 DEF TakenBeside, N
<1>6. \A x \in OwnBeside(q, e, n) :
        Chain(L, x) = Chain(q, x) /\ LibertiesAt(L, x) = LibertiesAt(q, x)
  BY <1>1, <1>2 DEF OwnBeside, N
<1>7. \A x \in TakenBeside(q, e, n) : Chain(L, x) = Chain(q, x)
  BY <1>1, <1>2 DEF TakenBeside, N
<1>8. KQ = UNION {Chain(q, x) : x \in TakenBeside(q, e, n)}
  BY TakenChains
<1>9. KL = UNION {Chain(L, x) : x \in TakenBeside(L, e, n)}
  BY TakenChains
<1>10. \A k : k \in KL <=> k \in KQ
  BY <1>5, <1>7, <1>8, <1>9
<1> DEFINE UQ == UNION {LibertiesAt(q, x) : x \in OwnBeside(q, e, n)}
           UL == UNION {LibertiesAt(L, x) : x \in OwnBeside(q, e, n)}
<1>11. \A z : z \in UL <=> z \in UQ
  BY <1>6
<1>12. ExactLiberties(q, e, n) =
         ((FreeSides(q, n) \cup UQ) \ {n})
         \cup {k \in KQ : \E z \in neighbors_side[k] : z = n \/ \E x \in OwnBeside(q, e, n) : z \in Chain(q, x)}
  BY DEF ExactLiberties
<1>13. ExactLiberties(L, e, n) =
         ((FreeSides(q, n) \cup UL) \ {n})
         \cup {k \in KL : \E z \in neighbors_side[k] : z = n \/ \E x \in OwnBeside(q, e, n) : z \in Chain(L, x)}
  BY <1>3, <1>4 DEF ExactLiberties
<1> HIDE DEF UQ, UL, KQ, KL
<1> QED
  BY <1>6, <1>10, <1>11, <1>12, <1>13

-----------------------------------------------------------------------------
(* What a play tells the playout of the stones it captures. *)
\* The liberties told of a group killed are those of its neighbours, at least.
LEMMA KillTells ==
  ASSUME NEW s, Kept(s.cb, s.cb.p), NEW id \in DOMAIN s.cb.group, NEW own \in Player,
         NEW t, t = cfg_board_kill_group(s, id, own)
  PROVE  /\ s.libs \subseteq t.libs
         /\ \A h \in s.cb.group[id].neighbors : s.cb.group[h].ls \subseteq t.libs
<1> DEFINE b == s.cb
           gr == b.group
           dead == gr[id]
           K == dead.stones
           freed == pos_set_free(b, K, dead.colour)
           newp == [m \in Point |-> IF m \in K THEN EMPTY ELSE freed.p[m]]
           newg == [m \in Point |-> IF m \in K THEN NONE ELSE freed.g[m]]
           free == freed.empty \cup K
           mid == [freed EXCEPT !.p = newp, !.g = newg, !.empty = free]
           gr1 == add_liberties_to_neighbors(mid, K, own)
           Given(h) == {m \in K : \E n \in neighbors_side[m] : mid.p[n] = own /\ mid.g[n] = h}
<1>1. t.libs = s.libs \cup UNION {gr1[h].ls : h \in dead.neighbors}
  BY DEF cfg_board_kill_group
<1>2. /\ IsFast(b) /\ GroupsTyped(gr) /\ Bordered(b.g, gr, neighbors_side)
  BY DEF Kept, Grouped, Reckoned
<1>3. /\ dead \in GroupType /\ K \in SUBSET Point
      /\ \A h \in dead.neighbors : h \in DOMAIN gr /\ gr[h] \in GroupType
  BY <1>2 DEF GroupsTyped, GroupType, Bordered
<1> HIDE DEF K
<1>4. IsFast(freed) /\ freed.group = gr
  BY <1>2, FreeFields
<1> HIDE DEF freed, newp, newg, free
<1>5. mid.group = gr
  <2> HIDE DEF gr
  <2> QED
    BY <1>4 DEF IsFast
<1>6. gr1 = [h \in DOMAIN gr |-> add_liberty(gr[h], Given(h))]
  BY <1>5 DEF add_liberties_to_neighbors
<1>7. \A h : Given(h) \in SUBSET Point
  BY <1>3
<1> HIDE DEF gr1, Given, mid
<1>8. \A h \in dead.neighbors : gr[h].ls \subseteq gr1[h].ls
  <2> TAKE h \in dead.neighbors
  <2>1. gr1[h] = add_liberty(gr[h], Given(h)) /\ gr[h] \in GroupType
    BY <1>3, <1>6
  <2>2. WithLiberties(gr1[h], gr[h], Given(h))
    BY <1>7, <2>1, LibertyAdded
  <2> QED
    BY <2>2 DEF WithLiberties
<1> HIDE DEF gr
<1> QED
  BY <1>1, <1>8 DEF gr

\* s tells the liberties of the chains of colour c beside the stones slain.
Told(b, c, P, s) ==
  \A k \in Dead(b, c, P) : \A y \in neighbors_side[k] :
    b.p[y] = c => LibertiesAt(b.p, y) \subseteq s.libs

\* Stones of the opponent taken away leave a chain what it has.
LEMMA ChainOutlives ==
  ASSUME NEW q \in [Point -> Stones], NEW K, NEW q1, q1 = Without(q, K),
         NEW y \in Point, \A k \in K : q[k] # q[y], q[y] # EMPTY
  PROVE  LibertiesAt(q, y) \subseteq LibertiesAt(q1, y)
<1>1. \A n \in Point : q1[n] = IF n \in K THEN EMPTY ELSE q[n]
  BY WithoutTyped
<1>2. /\ Chain(q1, y) \subseteq Point /\ y \in Chain(q1, y)
      /\ \A n \in Chain(q1, y) : \A a \in neighbors_side[n] : q1[a] = q1[y] => a \in Chain(q1, y)
  BY ChainClosed
<1>3. \A n \in Point : neighbors_side[n] \subseteq Point
  BY NeighborsAreMutual
<1>4. \A s \in Chain(q1, y) : s \in Point /\ q[s] = q[y] =>
        \A a \in neighbors_side[s] : q[a] = q[y] => a \in Chain(q1, y)
  BY <1>1, <1>2, <1>3
<1>5. Chain(q, y) \subseteq Chain(q1, y)
  BY <1>2, <1>4, ChainLeast
<1>6. \A x : x \in LibertiesAt(q, y) <=>
        x \in Point /\ q[x] = EMPTY /\ \E k \in Chain(q, y) : x \in neighbors_side[k]
  BY LibertiesOfChain
<1>7. \A x : x \in LibertiesAt(q1, y) <=>
        x \in Point /\ q1[x] = EMPTY /\ \E k \in Chain(q1, y) : x \in neighbors_side[k]
  BY LibertiesOfChain
<1> QED
  BY <1>1, <1>5, <1>6, <1>7

\* A group captured tells what is beside it too.
LEMMA CaptureTells ==
  ASSUME NEW b, Kept(b, b.p), NEW c \in Player, NEW P \in SUBSET Point, NEW n \in Point,
         NEW s \in CapturesOf(b, c), Slain(b, c, P, s), Told(b, c, P, s)
  PROVE  Told(b, c, P \cup {n}, Capture(s, c, n))
<1> DEFINE K == Dead(b, c, P)
           E == Dead(b, c, P \cup {n})
           h == s.cb.g[n]
           t == cfg_board_kill_group(s, h, c)
           w == Capture(s, c, n)
           takes == /\ h # NONE /\ s.cb.group[h].colour # c /\ s.cb.group[h].liberties = 0
<1>1. Slain(b, c, P \cup {n}, w)
  BY CaptureSlays
<1>2. /\ K \in SUBSET Point /\ E \in SUBSET Point
      /\ s.cb.p = Without(b.p, K) /\ w.cb.p = Without(b.p, E)
      /\ (\A k \in K : b.p[k] = Opponent(c)) /\ \A k \in E : b.p[k] = Opponent(c)
  BY <1>1 DEF Slain, Taken, Dead
<1>3. /\ b.p \in [Point -> Stones]
      /\ \A x \in Point : s.cb.p[x] = IF x \in K THEN EMPTY ELSE b.p[x]
      /\ \A x \in Point : w.cb.p[x] = IF x \in E THEN EMPTY ELSE b.p[x]
  <2>1. b.p \in [Point -> Stones]
    BY FastBoardTyped DEF Kept
  <2> QED
    BY <1>2, <2>1, WithoutTyped
<1>4. \A k \in K : \A y \in neighbors_side[k] : b.p[y] = c => LibertiesAt(b.p, y) \subseteq s.libs
  BY DEF Told
<1>5. Opponent(c) # EMPTY /\ Opponent(c) # c /\ c # EMPTY
  BY Marks
<1>6. Kept(s.cb, s.cb.p)
  BY DEF CapturesOf
<1> HIDE DEF K, E
<1>7. CASE takes
  <2>1. h \in DOMAIN s.cb.group
    BY <1>6, <1>7 DEF Kept, Grouped, Owned
  <2>2. w.libs = t.libs /\ w.cb = t.cb
    <3>1. Killed(s, h, c, s.cb.group[h].stones, t)
      BY <1>6, <1>7, <2>1, KillKeeps
    <3>2. t = [cb |-> t.cb, captures |-> t.captures, removed |-> t.removed, libs |-> t.libs,
               one_stone_captured |-> s.one_stone_captured]
      BY <3>1 DEF Killed
    <3>3. w = [t EXCEPT !.one_stone_captured = n]
      BY <1>7 DEF Capture
    <3> HIDE DEF t, w
    <3> QED
      BY <3>2, <3>3, CapturedLast
  <2>3. /\ s.libs \subseteq t.libs
        /\ \A k \in s.cb.group[h].neighbors : s.cb.group[k].ls \subseteq t.libs
    BY <1>6, <2>1, KillTells
  <2>4. t.cb.p = Without(s.cb.p, s.cb.group[h].stones)
    BY <1>6, <1>7, <2>1, KillKeeps DEF Killed
  <2>5. \A x \in Point : t.cb.p[x] = IF x \in s.cb.group[h].stones THEN EMPTY ELSE s.cb.p[x]
    BY <2>4 DEF Without
  <2>6. /\ s.cb.group[h].stones = {x \in Point : s.cb.g[x] = h}
        /\ Bordered(s.cb.g, s.cb.group, neighbors_side)
    BY <1>6, <2>1 DEF Kept, Grouped, Owned, Reckoned
  <2> HIDE DEF t, w, h
  <2>7. ASSUME NEW k \in E, k \notin K, NEW y \in neighbors_side[k], b.p[y] = c
        PROVE  LibertiesAt(b.p, y) \subseteq t.libs
    <3>1. k \in Point /\ y \in Point
      BY <1>2, <2>7, NeighborsAreMutual
    <3>2. s.cb.p[k] # EMPTY /\ w.cb.p[k] = EMPTY
      BY <1>2, <1>3, <1>5, <2>7, <3>1
    <3>3. s.cb.g[k] = h
      BY <2>2, <2>5, <2>6, <3>1, <3>2
    <3>4. s.cb.p[y] = c /\ y \notin K
      BY <1>2, <1>3, <1>5, <2>7, <3>1
    <3>5. /\ s.cb.g[y] \in DOMAIN s.cb.group /\ s.cb.group[s.cb.g[y]].colour = c
          /\ s.cb.group[s.cb.g[y]].ls = LibertiesAt(s.cb.p, y)
      BY <1>5, <1>6, <3>1, <3>4, GroupOfStone
    <3>6. Tied(s.cb.g, neighbors_side, h, s.cb.g[y])
      BY <2>7, <3>1, <3>3 DEF Tied
    <3>7. s.cb.g[y] \in s.cb.group[h].neighbors
      BY <1>7, <2>1, <2>6, <3>5, <3>6 DEF Bordered
    <3>8. LibertiesAt(b.p, y) \subseteq LibertiesAt(s.cb.p, y)
      BY <1>2, <1>3, <1>5, <2>7, <3>1, ChainOutlives
    <3> QED
      BY <2>3, <3>5, <3>7, <3>8
  <2>8. \A k \in E : \A y \in neighbors_side[k] : b.p[y] = c => LibertiesAt(b.p, y) \subseteq w.libs
    BY <1>4, <2>2, <2>3, <2>7
  <2> QED
    BY <2>8 DEF Told, E, w
<1>8. CASE ~takes
  <2>1. w = s
    BY <1>8 DEF Capture
  <2>2. E \subseteq K
    BY <1>2, <1>3, <1>5, <2>1
  <2>3. \A k \in E : \A y \in neighbors_side[k] : b.p[y] = c => LibertiesAt(b.p, y) \subseteq w.libs
    BY <1>4, <2>1, <2>2
  <2> QED
    BY <2>3 DEF Told, E, w
<1> QED
  BY <1>7, <1>8

\* Those beside a stone, in turn.
LEMMA CapturesTell ==
  ASSUME NEW b, Kept(b, b.p), NEW c \in Player, NEW m \in Point
  PROVE  Told(b, c, neighbors_side[m], Captures(b, c, m))
<1> DEFINE z == IF b.neighbors4[Opponent(c)][m] > 0 THEN Sides[m] ELSE <<>>
           V == CapturesOf(b, c)
           P(k) == {z[i] : i \in 1..k}
           R == Captures(b, c, m)
<1>1. PICK a \in [0..Len(z) -> V] :
        /\ a[0] = NoCapture(b)
        /\ \A k \in 1..Len(z) : a[k] = Capture(a[k - 1], c, z[k])
        /\ R = a[Len(z)]
  BY CaptureFold
<1>2. /\ Len(z) \in Nat /\ \A i \in 1..Len(z) : z[i] \in Point
      /\ z = Sides[m] => P(Len(z)) = neighbors_side[m]
      /\ z # Sides[m] => P(Len(z)) = {} /\ Len(z) = 0
  BY NeighborsOfPoint DEF ToSet
<1>2a. Slain(b, c, neighbors_side[m], R)
  BY CapturesSlay
<1>2b. b.p \in [Point -> Stones]
  BY FastBoardTyped DEF Kept
<1>2c. Taken(b, c, {}, NoCapture(b))
  <2>1. Without(b.p, {}) = b.p
    BY <1>2b DEF Without
  <2> QED
    BY <2>1, FS_EmptySet DEF Taken, NoCapture
<1> HIDE DEF z, V, R
<1> DEFINE T == {k \in 0..Len(z) : Slain(b, c, P(k), a[k]) /\ Told(b, c, P(k), a[k])}
<1>3. 0 \in T
  <2>1. P(0) = {}
    OBVIOUS
  <2> HIDE DEF P
  <2>2. Dead(b, c, {}) = {}
    BY DEF Dead
  <2>3. Slain(b, c, P(0), a[0]) /\ Told(b, c, P(0), a[0])
    BY <1>1, <1>2c, <2>1, <2>2 DEF Slain, Told
  <2> QED
    BY <1>2, <2>3
<1>4. ASSUME NEW k \in 0..(Len(z) - 1), k \in T PROVE k + 1 \in T
  <2>1. /\ k \in 0..Len(z) /\ k + 1 \in 1..Len(z) /\ k + 1 \in 0..Len(z) /\ (k + 1) - 1 = k
        /\ 1..(k + 1) = (1..k) \cup {k + 1}
    BY <1>2
  <2>2. P(k + 1) = P(k) \cup {z[k + 1]} /\ P(k) \in SUBSET Point
    BY <1>2, <2>1
  <2> HIDE DEF P
  <2>3. a[k] \in V /\ z[k + 1] \in Point /\ a[k + 1] = Capture(a[k], c, z[k + 1])
    BY <1>1, <1>2, <2>1
  <2>4. /\ Slain(b, c, P(k) \cup {z[k + 1]}, a[k + 1])
        /\ Told(b, c, P(k) \cup {z[k + 1]}, a[k + 1])
    BY <1>4, <2>2, <2>3, CaptureSlays, CaptureTells DEF V
  <2> QED
    BY <2>1, <2>2, <2>4
<1>5. Told(b, c, P(Len(z)), a[Len(z)])
  <2> HIDE DEF T
  <2>0. \A k \in 0..(Len(z) - 1) : k \in T => k + 1 \in T
    BY <1>4
  <2>1. \A k \in 0..Len(z) : k \in T
    BY <1>2, <1>3, <2>0, InductionUpTo
  <2>2. Len(z) \in T
    BY <1>2, <2>1
  <2> HIDE DEF P
  <2> QED
    BY <2>2 DEF T
<1>6. CASE z = Sides[m]
  <2> HIDE DEF P
  <2> QED
    BY <1>1, <1>2, <1>5, <1>6 DEF R
<1>7. CASE z # Sides[m]
  <2>1. R = NoCapture(b)
    BY <1>1, <1>2, <1>7
  <2>2. R.cb.p = b.p /\ R.cb.p = Without(b.p, Dead(b, c, neighbors_side[m]))
        /\ \A k \in Dead(b, c, neighbors_side[m]) : k \in Point /\ b.p[k] = Opponent(c)
    BY <1>2a, <2>1 DEF NoCapture, Slain, Taken, Dead
  <2>3. Dead(b, c, neighbors_side[m]) = {}
    <3> DEFINE E == Dead(b, c, neighbors_side[m])
    <3>1. b.p = Without(b.p, E) /\ \A k \in E : k \in Point /\ b.p[k] = Opponent(c)
      BY <2>2
    <3> HIDE DEF E
    <3>2. \A k \in E : b.p[k] = EMPTY
      BY <3>1 DEF Without
    <3>3. E = {}
      BY <3>1, <3>2, Marks
    <3> QED
      BY <3>3 DEF E
  <2> QED
    BY <2>3 DEF Told
<1> QED
  BY <1>6, <1>7

\* A play tells the stones it captures, and the liberties of the chains beside them.
LEMMA PlayTells ==
  ASSUME NEW b, Kept(b, b.p), b.empty = FreeOf(b.p),
         NEW m \in Point, b.p[m] = EMPTY, NEW c \in Player,
         NEW s, s = Play(b, c, m), NEW K, K = Captured(With(b.p, m, c), m)
  PROVE  /\ {x[1] : x \in s.removed} = K
         /\ s.cb.p = Leaves(b.p, c, m)
         /\ \A k \in K : \A y \in neighbors_side[k] :
              b.p[y] = c => LibertiesAt(b.p, y) \ {m} \subseteq s.libs
<1> DEFINE d == Occupied(b, c, m)
           e == add_stone(d, c, m)
           t == Captures(e, c, m)
           q == With(b.p, m, c)
<1>1. s = Finished(t, m)
  BY DEF Play, Occupied
<1>2. Kept(d, b.p) /\ d.p = q /\ d.empty = b.empty
  BY PlacedKeeps
<1> HIDE DEF d
<1>3. Kept(e, q) /\ e.p = q
  BY <1>2, AddStoneKeeps
<1> HIDE DEF e
<1>4. b.p \in [Point -> Stones] /\ q[m] = c /\ \A n \in Point : q[n] = IF n = m THEN c ELSE b.p[n]
  <2>1. b.p \in [Point -> Stones]
    BY FastBoardTyped DEF Kept
  <2> QED
    BY <2>1, WithTyped DEF Stones
<1>5. Dead(e, c, neighbors_side[m]) = K
  BY <1>3, <1>4, DeadAreCaptured
<1>6. \A k \in K : \A y \in neighbors_side[k] : q[y] = c => LibertiesAt(q, y) \subseteq t.libs
  BY <1>3, <1>5, CapturesTell DEF Told
<1>7. t.cb.p = Without(q, K) /\ t.removed = {<<k, q[k]>> : k \in K}
  BY <1>3, <1>5, CapturesSlay DEF Slain, Taken
<1>8. t \in CaptureType /\ Kept(t.cb, t.cb.p)
  <2>1. Kept(e, e.p)
    BY <1>3
  <2> DEFINE z == IF e.neighbors4[Opponent(c)][m] > 0 THEN Sides[m] ELSE <<>>
             V == CapturesOf(e, c)
  <2>2. Len(z) \in Nat
    BY NeighborsOfPoint
  <2>3. \E a \in [0..Len(z) -> V] : t = a[Len(z)]
    BY <2>1, CaptureFold
  <2> HIDE DEF z, t, V
  <2>4. t \in V
    BY <2>2, <2>3
  <2> QED
    BY <2>4 DEF V, CapturesOf
<1> HIDE DEF t
<1>9. s.cb.p = t.cb.p /\ s.removed = t.removed
  BY <1>1, <1>8, FinishedKeeps
<1>10. s.libs = t.libs
  <2>1. t = [cb |-> t.cb, captures |-> t.captures, removed |-> t.removed, libs |-> t.libs,
             one_stone_captured |-> t.one_stone_captured]
    BY <1>8, CaptureTyped
  <2> DEFINE v == [cb |-> t.cb, captures |-> t.captures, removed |-> t.removed, libs |-> t.libs,
                   one_stone_captured |-> t.one_stone_captured]
             l == IF t.captures = 1 THEN t.one_stone_captured ELSE NONE
  <2>2. s = [[[t EXCEPT !.cb.last_eaten = l] EXCEPT !.cb.last_played = m]
               EXCEPT !.cb.empty = @ \ {m}]
    <3> HIDE DEF l
    <3>1. Finished(t, m) = [[[t EXCEPT !.cb.last_eaten = l] EXCEPT !.cb.last_played = m]
                              EXCEPT !.cb.empty = @ \ {m}]
      BY DEF Finished, l
    <3> QED
      BY <1>1, <3>1
  <2> HIDE DEF l
  <2>3. s = [[[v EXCEPT !.cb.last_eaten = l] EXCEPT !.cb.last_played = m]
               EXCEPT !.cb.empty = @ \ {m}]
    <3> HIDE DEF v
    <3> QED
      BY <2>1, <2>2 DEF v
  <2> QED
    BY <2>3
<1>11. {x[1] : x \in s.removed} = K
  <2> DEFINE R == {<<k, q[k]>> : k \in K}
  <2>1. \A x \in R : \E k \in K : x = <<k, q[k]>> /\ x[1] = k
    OBVIOUS
  <2>2. \A k \in K : <<k, q[k]>> \in R /\ <<k, q[k]>>[1] = k
    OBVIOUS
  <2>3. s.removed = R
    BY <1>7, <1>9
  <2> HIDE DEF R
  <2>4. \A v \in {x[1] : x \in R} : v \in K
    BY <2>1
  <2>5. \A v \in K : v \in {x[1] : x \in R}
    <3> TAKE v \in K
    <3>1. PICK x \in R : x[1] = v
      BY <2>2
    <3> QED
      BY <3>1
  <2> QED
    BY <2>3, <2>4, <2>5
<1>12. s.cb.p = Leaves(b.p, c, m)
  <2>1. Leaves(b.p, c, m) = [n \in Point |-> IF n \in K THEN EMPTY ELSE q[n]]
    BY DEF Leaves
  <2> HIDE DEF q
  <2> QED
    BY <1>7, <1>9, <2>1 DEF Without
<1>13. ASSUME NEW k \in K, NEW y \in neighbors_side[k], b.p[y] = c
       PROVE  LibertiesAt(b.p, y) \ {m} \subseteq s.libs
  <2>1. y \in Point
    BY <1>4, <1>13, TakenChains, NeighborsAreMutual
  <2>2. q[y] = c
    BY <1>4, <1>13, <2>1
  <2>3. LibertiesAt(b.p, y) \ {m} \subseteq LibertiesAt(q, y)
    BY <1>4, <1>13, <2>1, ChainGrows
  <2> QED
    BY <1>6, <1>10, <1>13, <2>2, <2>3
<1> HIDE DEF q
<1> QED
  BY <1>11, <1>12, <1>13

-----------------------------------------------------------------------------
(* What passes and captures leave. *)
LEMMA SameBoard ==
  ASSUME NEW q, NEW n
  PROVE  SameBeside(q, q, n)
BY DEF SameBeside

\* Where the ko is after a play.
LEMMA EatenIsCaptured ==
  ASSUME NEW b, Kept(b, b.p), b.empty = FreeOf(b.p),
         NEW m \in Point, b.p[m] = EMPTY, NEW c \in Player
  PROVE  LET l == Play(b, c, m).cb.last_eaten IN l = NONE \/ l \in Captured(With(b.p, m, c), m)
<1> DEFINE K == Captured(With(b.p, m, c), m)
           s == Play(b, c, m)
<1>1. b.p \in [Point -> Stones]
  BY FastBoardTyped DEF Kept
<1>2. Slow(s.cb) = just_play_slow2(Slow(b), c, m) /\ Placed(Slow(b), c, m) = With(b.p, m, c)
  BY <1>1, PlayIsSlow, PlacedIsWith
<1>3. s.cb.last_eaten = IF Cardinality(K) = 1 THEN CHOOSE n \in K : TRUE ELSE NONE
  BY <1>2 DEF just_play_slow2, Slow
<1>4. K \in SUBSET Point
  BY <1>1, TakenChains
<1> HIDE DEF K, s
<1>5. Cardinality(K) = 1 => K # {}
  BY <1>4, FewPoints
<1> QED
  BY <1>3, <1>5 DEF K, s

-----------------------------------------------------------------------------
(* Plays that are legal by their liberties. *)
\* A play is allowed by the rules of suicide when it leaves a liberty.
LEMMA PlayableLeavesLiberties ==
  ASSUME NEW q \in [Point -> Stones], NEW m \in Point, q[m] = EMPTY, NEW c \in Player
  PROVE  Playable(q, c, m) <=> ExactLiberties(q, c, m) # {}
<1> DEFINE N == neighbors_side[m]
           K == Captured(With(q, m, c), m)
           E == ExactLiberties(q, c, m)
           U == UNION {LibertiesAt(q, x) : x \in OwnBeside(q, c, m)}
           G == {k \in K : \E n \in neighbors_side[k] : n = m \/ \E x \in OwnBeside(q, c, m) : n \in Chain(q, x)}
<1>1. E = ((FreeSides(q, m) \cup U) \ {m}) \cup G
  BY DEF ExactLiberties
<1>2. K = UNION {Chain(q, x) : x \in TakenBeside(q, c, m)}
  BY TakenChains
<1>3. \A x \in N : x \in Point /\ m \in neighbors_side[x] /\ x # m /\ m \in LibertiesAt(q, x)
                   /\ x \in Chain(q, x)
  BY NeighborsAreMutual, LibertyOfPlay, ChainClosed
<1> HIDE DEF K, E, U, N
<1>4. ASSUME NEW x \in N, q[x] = EMPTY PROVE E # {}
  BY <1>1, <1>3, <1>4 DEF FreeSides, N
<1>5. ASSUME NEW x \in N, q[x] = c, LibertiesAt(q, x) # {m} PROVE E # {}
  <2>1. PICK z \in LibertiesAt(q, x) : z # m
    BY <1>3, <1>5
  <2>2. z \in U
    BY <1>5 DEF U, OwnBeside, N
  <2> HIDE DEF G
  <2> QED
    BY <1>1, <2>1, <2>2
<1>6. ASSUME NEW x \in N, q[x] = Opponent(c), LibertiesAt(q, x) = {m} PROVE E # {}
  <2>1. x \in TakenBeside(q, c, m)
    BY <1>6 DEF TakenBeside, N
  <2>2. x \in K
    BY <1>2, <1>3, <2>1
  <2>3. x \in G
    BY <1>3, <2>2
  <2> HIDE DEF G
  <2> QED
    BY <1>1, <2>3
<1>7. ASSUME NEW z \in E PROVE Playable(q, c, m)
  <2>1. CASE z \in FreeSides(q, m)
    BY <2>1 DEF FreeSides, Playable
  <2>2. CASE z \in U /\ z # m
    <3>1. PICK x \in OwnBeside(q, c, m) : z \in LibertiesAt(q, x)
      BY <2>2 DEF U
    <3> QED
      BY <2>2, <3>1 DEF OwnBeside, Playable
  <2>3. CASE z \in G
    <3>1. PICK x \in TakenBeside(q, c, m) : z \in Chain(q, x)
      BY <1>2, <2>3
    <3> QED
      BY <3>1 DEF TakenBeside, Playable
  <2> HIDE DEF G
  <2> QED
    BY <1>1, <1>7, <2>1, <2>2, <2>3
<1> HIDE DEF G
<1>8. Playable(q, c, m) => E # {}
  BY <1>4, <1>5, <1>6 DEF Playable, N
<1>9. E # {} => Playable(q, c, m)
  BY <1>7
<1> QED
  BY <1>8, <1>9 DEF E

\* What the playout calls playable, but for eyes, is legal.
LEMMA LegalByLiberties ==
  ASSUME NEW b, Kept(b, b.p), NEW c \in Player, KoAgainst(b, c), NEW m \in Point, b.p[m] = EMPTY
  PROVE  /\ can_play_slow(Slow(b), c, m) <=>
              get_ko_play(b) # m /\ ExactLiberties(b.p, c, m) # {}
         /\ safe_to_play(b, c, m) = 0 <=> ExactLiberties(b.p, c, m) = {}
         /\ safe_to_play(b, c, m) = 1 => Cardinality(ExactLiberties(b.p, c, m)) = 1
<1> DEFINE q == b.p
           E == ExactLiberties(q, c, m)
           P == With(q, m, c)
<1>1. q \in [Point -> Stones]
  BY FastBoardTyped DEF Kept
<1>2. ko_violation(b, m) <=> test_ko(Slow(b), c, m)
  BY SameKo
<1>3. ko_violation(b, m) <=> get_ko_play(b) = m
  BY Marks DEF get_ko_play, ko_violation
<1>4. Placed(Slow(b), c, m) = P
  BY <1>1, PlacedIsWith
<1>5. captured(Slow(b), c, m) > 0 <=> Captured(P, m) # {}
  <2>1. captured(Slow(b), c, m) = Cardinality(Captured(P, m))
    BY <1>4 DEF captured
  <2>2. Captured(P, m) \in SUBSET Point
    BY <1>1, TakenChains
  <2> DEFINE k == Cardinality(Captured(P, m))
  <2>3. k \in Nat /\ (k = 0 <=> Captured(P, m) = {})
    BY <2>2, FewPoints
  <2> HIDE DEF k
  <2>4. k > 0 <=> Captured(P, m) # {}
    BY <2>3
  <2> QED
    BY <2>1, <2>4 DEF k
<1>6. Captured(P, m) # {} \/ is_alive(P, m) <=> E # {}
  BY <1>1, PlayableIsLegal, PlayableLeavesLiberties
<1>7. can_play_slow(Slow(b), c, m) <=> ~test_ko(Slow(b), c, m) /\ E # {}
  <2>1. can_play_slow(Slow(b), c, m) <=>
          /\ Slow(b).p[m] = EMPTY /\ ~test_ko(Slow(b), c, m)
          /\ captured(Slow(b), c, m) > 0 \/ is_alive(Placed(Slow(b), c, m), m)
    BY DEF can_play_slow
  <2>2. Slow(b).p = b.p
    BY DEF Slow
  <2> QED
    BY <1>4, <1>5, <1>6, <2>1, <2>2
<1>8. safe_to_play(b, c, m) = Lower(Cardinality(E), 2)
  BY SafeIsExact
<1>9. E \in SUBSET Point
  BY <1>1, LibertiesLeft
<1> DEFINE k == Cardinality(E)
<1>10. k \in Nat /\ (k = 0 <=> E = {})
  BY <1>9, FewPoints
<1> HIDE DEF k, E
<1>11. (safe_to_play(b, c, m) = 0 <=> k = 0) /\ (safe_to_play(b, c, m) = 1 => k = 1)
  BY <1>8, <1>10 DEF Lower, k
<1> QED
  BY <1>2, <1>3, <1>7, <1>10, <1>11 DEF E, k

\* A group in atari has its liberty on the board.
LEMMA AtariLiberty ==
  ASSUME NEW b, Kept(b, b.p), NEW h \in DOMAIN b.group, b.group[h].liberties = 1
  PROVE  get_1st_liberty(b.group[h]) \in Point
<1>1. b.group[h].ls \in SUBSET Point /\ b.group[h].liberties = Cardinality(b.group[h].ls)
  BY DEF Kept, Grouped, GroupsTyped, GroupType, Reckoned, Counted, GroupCounted
<1>2. b.group[h].ls # {}
  BY <1>1, FewPoints
<1> QED
  BY <1>1, <1>2, LowestOf DEF get_1st_liberty

-----------------------------------------------------------------------------
(* Stones on the board have liberties. *)
Alive(q) == \A x \in Point : q[x] # EMPTY => LibertiesAt(q, x) # {}

\* The chains that a play joins are that of the stone played.
LEMMA JoinedChain ==
  ASSUME NEW q \in [Point -> Stones], NEW m \in Point, q[m] = EMPTY, NEW c \in Player,
         NEW x \in Point, q[x] = c, m \in LibertiesAt(q, x)
  PROVE  Chain(Leaves(q, c, m), x) = Chain(Leaves(q, c, m), m)
<1> DEFINE P == With(q, m, c)
           L == Leaves(q, c, m)
           K == Captured(P, m)
<1>1. /\ P \in [Point -> Stones]
      /\ \A n \in Point : P[n] = IF n = m THEN c ELSE q[n]
  BY PlacedAt
<1>2. \A n \in Point : L[n] = IF n \in K THEN EMPTY ELSE IF n = m THEN c ELSE q[n]
  BY LeftAt
<1>3. \A k \in K : k \in Point /\ q[k] = Opponent(c)
  BY TakenChains
<1>4. \A n \in Point : P[n] = c => L[n] = P[n]
  <2>1. \A n \in Point : P[n] = c => n \notin K
    BY <1>1, <1>3, Marks
  <2> HIDE DEF P, L, K
  <2> QED
    BY <1>1, <1>2, <2>1
<1>5. \A n \in Point : L[n] = c => P[n] = c
  <2> HIDE DEF P, L, K
  <2> QED
    BY <1>1, <1>2, Marks
<1>6. P[m] = c
  BY <1>1
<1>7. x \in Chain(P, m)
  <2>1. PICK k \in Chain(q, x) : m \in neighbors_side[k]
    BY LibertiesOfChain
  <2>2. k \in Point /\ Chain(q, k) = Chain(q, x) /\ q[k] = c /\ x \in Chain(q, x)
    BY <2>1, ChainOfAny, ChainClosed
  <2>3. k \in OwnBeside(q, c, m)
    BY <2>1, <2>2, NeighborsAreMutual DEF OwnBeside
  <2> QED
    BY <2>2, <2>3, OwnChain
<1> HIDE DEF P, L, K
<1>8. Chain(L, m) = Chain(P, m)
  <2>1. \A n \in Chain(P, m) : n \in Point /\ P[n] = c
    BY <1>6, ChainClosed
  <2>2. \A n \in Chain(P, m) : L[n] = P[n]
    BY <1>4, <2>1
  <2>3. \A n \in Chain(P, m) : \A a \in neighbors_side[n] \ Chain(P, m) : L[a] # P[m]
    <3> TAKE n \in Chain(P, m)
    <3> TAKE a \in neighbors_side[n] \ Chain(P, m)
    <3>1. a \in Point /\ P[a] # P[m]
      BY <2>1, ChainClosed, NeighborsAreMutual
    <3> QED
      BY <1>5, <1>6, <3>1
  <2> QED
    BY <2>2, <2>3, ChainUnchanged
<1> QED
  BY <1>7, <1>8, ChainOfAny DEF L

\* A play that leaves itself a liberty leaves one to every stone it does not capture.
LEMMA PlayLeavesAlive ==
  ASSUME NEW q \in [Point -> Stones], Alive(q), NEW m \in Point, q[m] = EMPTY, NEW c \in Player,
         ExactLiberties(q, c, m) # {}
  PROVE  Alive(Leaves(q, c, m))
<1> DEFINE L == Leaves(q, c, m)
           K == Captured(With(q, m, c), m)
<1>1. \A n \in Point : L[n] = IF n \in K THEN EMPTY ELSE IF n = m THEN c ELSE q[n]
  BY LeftAt
<1>2. LibertiesAt(L, m) # {}
  BY LibertiesLeft
<1> HIDE DEF L, K
<1> SUFFICES ASSUME NEW x \in Point, L[x] # EMPTY PROVE LibertiesAt(L, x) # {}
  BY DEF Alive, L
<1>3. x \notin K /\ (x = m \/ q[x] # EMPTY)
  BY <1>1
<1>4. CASE x = m
  BY <1>2, <1>4
<1>5. CASE x # m /\ q[x] = c /\ m \in LibertiesAt(q, x)
  <2>1. Chain(L, x) = Chain(L, m)
    BY <1>5, JoinedChain DEF L
  <2> QED
    BY <1>2, <2>1 DEF LibertiesAt
<1>6. CASE x # m /\ ~(q[x] = c /\ m \in LibertiesAt(q, x))
  <2>1. LibertiesAt(L, x) =
          (LibertiesAt(q, x) \ {m}) \cup {k \in K : \E n \in neighbors_side[k] : n \in Chain(q, x)}
    BY <1>3, <1>6, ChainsApart DEF L, K
  <2>2. LibertiesAt(q, x) # {}
    BY <1>3, <1>6 DEF Alive
  <2>3. ASSUME LibertiesAt(q, x) = {m} PROVE FALSE
    <3>1. q[x] = Opponent(c)
      BY <1>3, <1>6, <2>3, Marks DEF Stones
    <3>2. PICK k \in Chain(q, x) : m \in neighbors_side[k]
      BY <2>3, LibertiesOfChain
    <3>3. k \in Point /\ Chain(q, k) = Chain(q, x) /\ q[k] = q[x] /\ x \in Chain(q, x)
      BY <3>2, ChainOfAny, ChainClosed
    <3>4. LibertiesAt(q, k) = {m}
      BY <2>3, <3>3 DEF LibertiesAt
    <3>5. k \in TakenBeside(q, c, m)
      BY <3>1, <3>2, <3>3, <3>4, NeighborsAreMutual DEF TakenBeside
    <3>6. x \in K
      BY <3>3, <3>5, TakenChains DEF K
    <3> QED
      BY <1>3, <3>6
  <2> QED
    BY <2>1, <2>2, <2>3
<1> QED
  BY <1>3, <1>4, <1>5, <1>6

\* The counts of stones around a point are of four and of eight at most.
LEMMA CountsTyped ==
  ASSUME NEW b, NEW q, Kept(b, q), NEW c \in Player
  PROVE  b.neighbors4[c] \in [Point -> 0..4] /\ b.neighbors8[c] \in [Point -> 0..8]
<1>1. /\ b.neighbors4[c] \in [Point -> Int] /\ b.neighbors8[c] \in [Point -> Int]
      /\ \A m \in Point : /\ b.neighbors4[c][m] = Cardinality(StonesIn(neighbors_side[m], q, c))
                          /\ b.neighbors8[c][m] = Cardinality(StonesIn(neighbors_3x3[m], q, c))
  BY DEF Kept, Around
<1>2. ASSUME NEW m \in Point
      PROVE  b.neighbors4[c][m] \in 0..4 /\ b.neighbors8[c][m] \in 0..8
  <2> DEFINE N == neighbors_side[m]
             M == neighbors_3x3[m]
             n4 == Cardinality(StonesIn(N, q, c))
             n8 == Cardinality(StonesIn(M, q, c))
             k4 == Cardinality(N)
             k8 == Cardinality(M)
  <2>1. N \in SUBSET Point /\ M \in SUBSET Point
    BY NeighborsAreMutual
  <2>2. StonesIn(N, q, c) \in SUBSET N /\ StonesIn(M, q, c) \in SUBSET M
    BY DEF StonesIn
  <2>3. n4 \in Nat /\ n8 \in Nat /\ k4 \in Nat /\ k8 \in Nat
    <3> HIDE DEF N, M
    <3> QED
      BY <2>1, <2>2, FewPoints
  <2>4. n4 <= k4 /\ n8 <= k8
    <3> HIDE DEF N, M
    <3> QED
      BY <2>1, <2>2, FewPoints
  <2>5. k4 <= 4 /\ k8 <= 8
    BY EightAround
  <2>6. b.neighbors4[c][m] = n4 /\ b.neighbors8[c][m] = n8
    BY <1>1
  <2> HIDE DEF n4, n8, k4, k8
  <2> QED
    BY <2>3, <2>4, <2>5, <2>6
<1> QED
  BY <1>1, <1>2

\* The groups of a board whose stones are alive, as verify_cfg_board asserts them.
LEMMA GroupsVerified ==
  ASSUME NEW b, Kept(b, b.p), Alive(b.p), NEW m \in Point, b.p[m] # EMPTY,
         NEW g, g = GroupAt(b, m)
  PROVE  /\ g.colour = b.p[m]
         /\ g.liberties > 0 /\ g.liberties_min_coord \in Point
         /\ b.unique_groups[g.unique_groups_idx] = b.g[m]
         /\ \A s \in g.stones : b.g[s] = b.g[m]
<1>1. /\ b.g[m] \in DOMAIN b.group /\ g = b.group[b.g[m]] /\ g.colour = b.p[m]
      /\ g.ls = LibertiesAt(b.p, m) /\ g.liberties = Cardinality(LibertiesAt(b.p, m))
  BY GroupOfStone DEF GroupAt
<1>2. LibertiesAt(b.p, m) # {} /\ LibertiesAt(b.p, m) \in SUBSET Point
  BY LibertiesOfChain DEF Alive
<1>3. g.liberties > 0
  <2> DEFINE n == Cardinality(LibertiesAt(b.p, m))
  <2>1. n \in Nat /\ n # 0
    BY <1>2, FewPoints
  <2> HIDE DEF n
  <2>2. n > 0
    BY <2>1
  <2> QED
    BY <1>1, <2>2 DEF n
<1>4. g.liberties_min_coord \in Point
  <2>1. g.liberties_min_coord \in Nat
    BY <1>1 DEF Kept, Grouped, GroupsTyped, GroupType
  <2>2. \A x \in g.ls : g.liberties_min_coord <= x
    BY <1>1 DEF Kept, Reckoned, Counted, GroupCounted
  <2>3. PICK x \in Point : g.liberties_min_coord <= x
    BY <1>1, <1>2, <2>2
  <2>4. TOTAL_BOARD_SIZ \in Nat
    BY PointsAreFinite
  <2> QED
    BY <2>1, <2>3, <2>4 DEF Point
<1>5. /\ b.unique_groups[g.unique_groups_idx] = b.g[m]
      /\ \A s \in g.stones : b.g[s] = b.g[m]
  BY <1>1 DEF Kept, Grouped, Indexed, Owned
<1> QED
  BY <1>1, <1>3, <1>4, <1>5
=============================================================================
