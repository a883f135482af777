---------------------------- MODULE PlayoutProofs -----------------------------
(***************************************************************************)
(* Proofs of the properties of Playout, for any size of the board and any  *)
(* states of a match to start from.  What they need of the fast board is   *)
(* in CfgBoardProofs.                                                      *)
(***************************************************************************)
EXTENDS Playout, CfgBoardProofs

\* The difference of stones changes by the stone played and those captured.
LEMMA DiffUpdated ==
  ASSUME NEW q \in [Point -> Stones], NEW m \in Point, q[m] = EMPTY, NEW c \in Player,
         NEW K \in SUBSET Point, NEW q1, Played(q, c, m, K, q1)
  PROVE  /\ stone_diff(q) \in Int /\ Cardinality(K) \in Nat
         /\ stone_diff(q1) = IF c = "black" THEN stone_diff(q) + (1 + Cardinality(K))
                                            ELSE stone_diff(q) - (1 + Cardinality(K))
<1> DEFINE o == Opponent(c)
<1>1. /\ m \notin K /\ \A k \in K : q[k] = o
      /\ \A n \in Point : q1[n] = IF n \in K THEN EMPTY ELSE IF n = m THEN c ELSE q[n]
      /\ c # EMPTY /\ o # EMPTY /\ o # c
  BY PlayedAt, Marks DEF Played
<1>2. StonesOf(c, q1) = StonesOf(c, q) \cup {m} /\ m \notin StonesOf(c, q)
  BY <1>1 DEF StonesOf
<1>3. StonesOf(o, q1) = StonesOf(o, q) \ K /\ StonesOf(o, q) \cap K = K
  BY <1>1 DEF StonesOf
<1>4. \A e : IsFiniteSet(StonesOf(e, q)) /\ Cardinality(StonesOf(e, q)) \in Nat
  <2> TAKE e
  <2>1. StonesOf(e, q) \in SUBSET Point
    BY DEF StonesOf
  <2> QED
    BY <2>1, PointsAreFinite
<1>5. Cardinality(StonesOf(c, q1)) = Cardinality(StonesOf(c, q)) + 1
  BY <1>2, <1>4, FS_AddElement
<1>6. Cardinality(StonesOf(o, q1)) = Cardinality(StonesOf(o, q)) - Cardinality(K)
  BY <1>3, <1>4, FS_Difference
<1>7. Cardinality(K) \in Nat
  BY PointsAreFinite
<1>8. CASE c = "black"
  <2>1. o = "white"
    BY <1>8 DEF Opponent
  <2> HIDE DEF o
  <2> QED
    BY <1>4, <1>5, <1>6, <1>7, <1>8, <2>1 DEF stone_diff
<1>9. CASE c # "black"
  <2>1. c = "white" /\ o = "black"
    BY <1>9 DEF Opponent, Player
  <2> HIDE DEF o
  <2> QED
    BY <1>4, <1>5, <1>6, <1>7, <1>9, <2>1 DEF stone_diff
<1> QED
  BY <1>8, <1>9

-----------------------------------------------------------------------------
(* The caches of a playout. *)
LEMMA RefreshedFits ==
  ASSUME NEW b, b.empty = FreeOf(b.p), NEW c,
         NEW k0 \in [Point -> SUBSET {"dirty", "legal", "safe"}],
         Fits(k0, b.p), NEW known \in Refreshed(b, c, k0)
  PROVE  known \in [Point -> SUBSET {"dirty", "legal", "safe"}] /\ Fits(known, b.p)
<1> DEFINE stale == {m \in b.empty : "dirty" \in k0[m]}
           ataris == {m \in stale : SelfAtari(b, c, m)}
<1>1. PICK banned \in SUBSET ataris :
        known = [m \in Point |-> IF m \in banned THEN {}
                                 ELSE IF m \in stale THEN Status(b, c, m) ELSE k0[m]]
  BY DEF Refreshed
<1>2. \A m \in stale : m \in Point /\ b.p[m] = EMPTY
  BY DEF FreeOf
<1>3. \A m : Status(b, c, m) \in SUBSET {"dirty", "legal", "safe"}
  BY DEF Status
<1> HIDE DEF stale, ataris
<1> QED
  BY <1>1, <1>2, <1>3 DEF Fits

\* A play selected is known to be legal.
LEMMA SelectedKnown ==
  ASSUME NEW b, NEW c, NEW known, NEW m \in Point, m \in Selected(b, c, known)
  PROVE  "legal" \in known[m] \/ "safe" \in known[m]
<1>1. CASE m \in Saving(b, known)
  BY <1>1 DEF Saving
<1>2. CASE m \in Capturing(b, c, known)
  BY <1>2 DEF Capturing
<1>3. CASE m \in Patterns(b, known)
  BY <1>3 DEF Patterns
<1>4. CASE m \in {n \in b.empty : "legal" \in known[n]}
  BY <1>4
<1> QED
  BY <1>1, <1>2, <1>3, <1>4, Marks DEF Selected

\* A play selected is at a free point.
LEMMA SelectedFree ==
  ASSUME NEW b, b.empty = FreeOf(b.p), NEW c, NEW known, Fits(known, b.p),
         NEW m \in Point, m \in Selected(b, c, known) \ {PASS}
  PROVE  b.p[m] = EMPTY
<1>1. "legal" \in known[m] \/ "safe" \in known[m]
  BY SelectedKnown
<1> QED
  BY <1>1 DEF Fits

LEMMA PastFits ==
  ASSUME NEW b, NEW caches \in CacheType, NEW q, CachesFit(caches, q),
         NEW past, past = invalidate_cache_of_the_past(b, caches)
  PROVE  past \in CacheType /\ CachesFit(past, q)
<1>1. CASE b.last_eaten \notin Point
  BY <1>1 DEF invalidate_cache_of_the_past
<1>2. CASE b.last_eaten \in Point
  <2>1. past = [c \in Player |-> [caches[c] EXCEPT ![b.last_eaten] = Dirty]]
    BY <1>2 DEF invalidate_cache_of_the_past
  <2>2. ASSUME NEW c \in Player
        PROVE  past[c] \in [Point -> SUBSET {"dirty", "legal", "safe"}] /\ Fits(past[c], q)
    <3>1. past[c] = [caches[c] EXCEPT ![b.last_eaten] = Dirty]
      BY <2>1
    <3>2. caches[c] \in [Point -> SUBSET {"dirty", "legal", "safe"}] /\ Fits(caches[c], q)
      BY DEF CacheType, CachesFit
    <3> QED
      BY <1>2, <3>1, <3>2 DEF Fits, Dirty
  <2> QED
    BY <2>1, <2>2 DEF CacheType, CachesFit
<1> QED
  BY <1>1, <1>2

\* After a play the caches have no play at the stone played, nor at those left.
LEMMA PlayFits ==
  ASSUME NEW b, NEW q \in [Point -> Stones], NEW m \in Point, NEW c \in Player,
         NEW K \in SUBSET Point,
         NEW q1, Played(q, c, m, K, q1), b.last_played = m,
         NEW caches \in CacheType, CachesFit(caches, q),
         NEW removed, NEW libs,
         NEW new, new = invalidate_cache_after_play(b, caches, removed, libs)
  PROVE  new \in CacheType /\ CachesFit(new, q1)
<1> DEFINE own   == GroupAt(b, m)
           dirty == removed \cup libs \cup own.ls \cup (UNION {b.group[h].ls : h \in own.neighbors})
                    \cup neighbors_diag[m]
<1>1. new = [e \in Player |-> [n \in Point |->
               IF n \in dirty THEN Dirty ELSE IF n = m THEN {} ELSE caches[e][n]]]
  BY DEF invalidate_cache_after_play
<1> HIDE DEF dirty
<1>2. \A n \in Point : q1[n] = IF n \in K THEN EMPTY ELSE IF n = m THEN c ELSE q[n]
  BY PlayedAt
<1>3. ASSUME NEW e \in Player
      PROVE  new[e] \in [Point -> SUBSET {"dirty", "legal", "safe"}] /\ Fits(new[e], q1)
  <2>1. new[e] = [n \in Point |->
                    IF n \in dirty THEN Dirty ELSE IF n = m THEN {} ELSE caches[e][n]]
    BY <1>1
  <2>2. caches[e] \in [Point -> SUBSET {"dirty", "legal", "safe"}] /\ Fits(caches[e], q)
    BY DEF CacheType, CachesFit
  <2> QED
    BY <1>2, <2>1, <2>2 DEF Fits, Dirty
<1> QED
  BY <1>1, <1>3 DEF CacheType, CachesFit

-----------------------------------------------------------------------------
(* The invariant. *)
\* What UpdatesAreExact needs from one play to the next: the groups, by which captures
\* remove the stones they should; and that no cache has a play at a stone.
UpdateInv ==
  /\ Kept(cb, cb.p) /\ cb.empty = FreeOf(cb.p)
  /\ colour \in Player
  /\ cache \in CacheType
  /\ phase = "tree" => zobrist_hash = Codes(cb.p)
  /\ phase = "playout" => diff = stone_diff(cb.p) - Komi \div 2 /\ CachesFit(cache, cb.p)

LEMMA UpdatesImplied ==
  ASSUME UpdateInv
  PROVE  UpdatesAreExact
<1> DEFINE q == cb.p
<1>1. /\ Around(cb, q) /\ cb.empty = {m \in Point : q[m] = EMPTY}
      /\ q \in [Point -> Stones]
  BY FastBoardTyped DEF UpdateInv, Kept, FreeOf
<1>2. \A n \in Point, c \in Player : (Mark(q[n]) = Value(c)) = (q[n] = c)
  <2> TAKE n \in Point, c \in Player
  <2>1. q[n] \in Player \cup {EMPTY} /\ EMPTY \notin Player
    BY <1>1, Marks DEF Stones
  <2> HIDE DEF q
  <2> QED
    BY <2>1 DEF Mark, Value, Player
<1>3. NeighborhoodsAreExact
  <2>1. cb.empty = Empties
    BY <1>1 DEF Empties
  <2>2. ASSUME NEW m \in Point, NEW c \in Player
        PROVE  /\ cb.neighbors4[c][m] = Cardinality({n \in neighbors_side[m] : cb.p[n] = c})
               /\ cb.neighbors8[c][m] = Cardinality({n \in neighbors_3x3[m] : cb.p[n] = c})
               /\ \A n \in neighbors_3x3[m] : (cb.hash[m][n] = Value(c)) = (cb.p[n] = c)
    <3>1. /\ cb.neighbors4[c][m] = Cardinality({n \in neighbors_side[m] : cb.p[n] = c})
          /\ cb.neighbors8[c][m] = Cardinality({n \in neighbors_3x3[m] : cb.p[n] = c})
      BY <1>1 DEF Around, StonesIn
    <3>2. \A n \in neighbors_3x3[m] : n \in Point /\ cb.hash[m][n] = Mark(q[n])
      BY <1>1, NeighborsAreMutual DEF Around
    <3> QED
      BY <1>2, <3>1, <3>2
  <2> QED
    BY <2>1, <2>2 DEF NeighborhoodsAreExact
<1>4. HandedDownExact
  <2>1. zobrist_new_hash(SlowBoard) = Codes(cb.p)
    BY DEF zobrist_new_hash, SlowBoard, Codes
  <2> QED
    BY <2>1 DEF HandedDownExact, UpdateInv
<1> QED
  BY <1>3, <1>4 DEF UpdatesAreExact

LEMMA GroupsImplied ==
  ASSUME UpdateInv
  PROVE  GroupsAreExact
<1> DEFINE q == cb.p
           g == cb.g
           gr == cb.group
<1>1. /\ Owned(q, g, gr) /\ Indexed(gr, cb.unique_groups) /\ GroupsTyped(gr)
      /\ Reckoned(q, g, gr) /\ q \in [Point -> Stones]
  BY DEF UpdateInv, Kept, Grouped, Owned
<1>2. \A h \in DOMAIN gr : h \in Point /\ gr[h].colour \in Player
  BY <1>1 DEF GroupsTyped, GroupType
<1> HIDE DEF q, g, gr
<1>3. DOMAIN gr = {g[m] : m \in Point \ Empties}
  <2>1. \A m \in Point : m \in Empties <=> q[m] = EMPTY
    BY DEF Empties, q
  <2>2. \A h \in DOMAIN gr : h \in Point \ Empties /\ g[h] = h
    BY <1>1, <1>2, <2>1, Marks DEF Owned
  <2>3. \A m \in Point \ Empties : g[m] \in DOMAIN gr
    BY <1>1, <2>1 DEF Owned
  <2> QED
    BY <2>2, <2>3
<1>4. \A h \in DOMAIN gr : gr[h].stones = Chain(q, h) /\ gr[h].stones = {m \in Point : g[m] = h}
  <2> TAKE h \in DOMAIN gr
  <2>1. g[h] = h /\ h \in Point /\ h # NONE /\ gr[h].stones = {m \in Point : g[m] = h}
    BY <1>1, <1>2, Marks DEF Owned
  <2>2. gr[g[h]].stones = Chain(q, h)
    BY <1>1, <2>1, GroupsOfChains DEF Reckoned
  <2> QED
    BY <2>1, <2>2
<1>5. /\ ToSet(cb.unique_groups) = DOMAIN gr
      /\ \A i \in DOMAIN cb.unique_groups : gr[cb.unique_groups[i]].unique_groups_idx = i
  <2> DEFINE ug == cb.unique_groups
  <2>1. /\ DOMAIN ug = 1..Len(ug)
        /\ \A h \in DOMAIN gr : gr[h].unique_groups_idx \in 1..Len(ug)
                               /\ ug[gr[h].unique_groups_idx] = h
        /\ \A i \in 1..Len(ug) : ug[i] \in DOMAIN gr /\ gr[ug[i]].unique_groups_idx = i
    BY <1>1 DEF Indexed
  <2> HIDE DEF ug
  <2>2. {ug[i] : i \in DOMAIN ug} = DOMAIN gr
    BY <2>1
  <2> QED
    BY <2>1, <2>2 DEF ToSet, ug
<1>6. GroupsAreChains
  BY <1>3, <1>4, <1>5 DEF GroupsAreChains, q, g, gr
<1>7. ASSUME NEW h \in DOMAIN gr
      PROVE  /\ gr[h].ls = Liberties(q, gr[h].stones)
             /\ gr[h].liberties = Cardinality(gr[h].ls)
             /\ \A m \in gr[h].ls : gr[h].liberties_min_coord <= m
  <2>1. GroupCounted(gr[h]) /\ gr[h].ls \in SUBSET Point
    BY <1>1 DEF Reckoned, Counted, GroupsTyped, GroupType
  <2>2. \A x \in Point : x \in gr[h].ls <=> q[x] = EMPTY /\ \E k \in neighbors_side[x] : g[k] = h
    BY <1>1 DEF Reckoned
  <2>3. \A x \in Point : neighbors_side[x] \in SUBSET Point
    BY NeighborsAreMutual
  <2>4. gr[h].stones = {m \in Point : g[m] = h}
    BY <1>4
  <2> QED
    BY <2>1, <2>2, <2>3, <2>4 DEF GroupCounted, Liberties
<1>8. ASSUME NEW h \in DOMAIN gr
      PROVE  gr[h].neighbors = {g[n] : n \in {n \in Point :
               /\ q[n] = Opponent(gr[h].colour) /\ neighbors_side[n] \cap gr[h].stones # {}}}
  <2> DEFINE c == gr[h].colour
             K == gr[h].stones
             near == {n \in Point : q[n] = Opponent(c) /\ neighbors_side[n] \cap K # {}}
  <2>1. \A k : k \in gr[h].neighbors <=>
                 k \in DOMAIN gr /\ gr[k].colour # c /\ Tied(g, neighbors_side, h, k)
    BY <1>1 DEF Reckoned, Bordered
  <2>2. \A m \in Point : m \in K <=> g[m] = h
    BY <1>4
  <2>3. c \in Player /\ Opponent(c) \in Player /\ \A e \in Player : e # c <=> e = Opponent(c)
    BY <1>2, Marks
  <2>4. \A n \in Point : q[n] \in Player => g[n] \in DOMAIN gr /\ gr[g[n]].colour = q[n]
    BY <1>1, Marks DEF Owned
  <2>5. \A n \in Point : g[n] \in DOMAIN gr => gr[g[n]].colour = q[n] /\ q[n] \in Player
    BY <1>1, <1>2, Marks DEF Owned
  <2> HIDE DEF c, K
  <2>6. \A s, n \in Point : n \in neighbors_side[s] <=> s \in neighbors_side[n]
    BY NeighborsAreMutual
  <2>6a. \A s \in Point : neighbors_side[s] \in SUBSET Point
    BY NeighborsAreMutual
  <2>7. ASSUME NEW k \in gr[h].neighbors PROVE \E n \in near : k = g[n]
    <3>1. PICK s, n \in Point : g[s] = h /\ n \in neighbors_side[s] /\ g[n] = k
      BY <2>1, <2>6a, <2>7 DEF Tied
    <3>2. n \in Point /\ s \in neighbors_side[n] /\ s \in K
      BY <2>2, <2>6, <2>6a, <3>1
    <3>3. q[n] = Opponent(c)
      BY <2>1, <2>3, <2>5, <2>7, <3>1, <3>2
    <3> QED
      BY <3>1, <3>2, <3>3
  <2>8. ASSUME NEW n \in near PROVE g[n] \in gr[h].neighbors
    <3>1. PICK s \in neighbors_side[n] : s \in K
      OBVIOUS
    <3>2. s \in Point /\ g[s] = h /\ n \in neighbors_side[s]
      BY <2>2, <2>6, <2>6a, <3>1
    <3>3. g[n] \in DOMAIN gr /\ gr[g[n]].colour # c
      BY <2>3, <2>4
    <3> QED
      BY <2>1, <3>2, <3>3 DEF Tied
  <2> HIDE DEF near
  <2>9. gr[h].neighbors = {g[n] : n \in near}
    BY <2>7, <2>8
  <2> QED
    BY <2>9 DEF near, c, K
<1> QED
  BY <1>6, <1>7, <1>8 DEF GroupsAreExact, q, g, gr

LEMMA UpdateInvInit == Init => UpdateInv
<1> SUFFICES ASSUME Init PROVE UpdateInv
  OBVIOUS
<1>1. PICK s \in Starts :
        /\ cb = cfg_from_board(s.board) /\ zobrist_hash = zobrist_new_hash(s.board)
        /\ colour = s.colour /\ phase = "tree" /\ cache = [c \in Player |-> AllDirty]
  BY DEF Init
<1>2. s.board \in Board /\ s.colour \in Player
  BY PlayoutAssumption DEF OfMatch
<1>3. Kept(cb, cb.p) /\ cb.p = s.board.p /\ cb.empty = FreeOf(cb.p)
  BY <1>1, <1>2, CopyKeeps DEF FreeOf
<1>4. zobrist_hash = Codes(cb.p)
  BY <1>1, <1>3 DEF zobrist_new_hash, Codes
<1>5. cache \in CacheType
  BY <1>1 DEF CacheType, AllDirty, Dirty
<1> QED
  BY <1>1, <1>2, <1>3, <1>4, <1>5 DEF UpdateInv

LEMMA TreePlayKeeps ==
  ASSUME UpdateInv, NEW m \in Point, TreePlay(m)
  PROVE  UpdateInv'
<1>1. /\ Kept(cb, cb.p) /\ cb.empty = FreeOf(cb.p) /\ colour \in Player /\ cache \in CacheType
      /\ phase = "tree" /\ zobrist_hash = Codes(cb.p) /\ m \in cb.empty
      /\ phase' = phase /\ cache' = cache /\ colour' = Opponent(colour)
      /\ cb' = just_play2(cb, colour, m, zobrist_hash).cb
      /\ zobrist_hash' = just_play2(cb, colour, m, zobrist_hash).hash
  BY DEF UpdateInv, TreePlay, playoutVars
<1> DEFINE s == Play(cb, colour, m)
           q == cb.p
<1>2. /\ cb' = s.cb
      /\ zobrist_hash' =
           zobrist_update_hash(zobrist_update_hash(Codes(q), {<<m, colour>>}), s.removed)
  BY <1>1 DEF just_play2
<1>3. q[m] = EMPTY /\ q \in [Point -> Stones]
  BY <1>1, FastBoardTyped DEF FreeOf, Kept
<1>4. /\ Kept(s.cb, s.cb.p) /\ s.cb.empty = FreeOf(s.cb.p)
      /\ \E K \in SUBSET Point : Played(q, colour, m, K, s.cb.p)
                                 /\ s.removed = {<<k, q[k]>> : k \in K}
  BY <1>1, <1>3, PlayKeeps
<1> HIDE DEF s
<1>5. zobrist_hash' = Codes(s.cb.p)
  <2>1. PICK K \in SUBSET Point : Played(q, colour, m, K, s.cb.p)
                                  /\ s.removed = {<<k, q[k]>> : k \in K}
    BY <1>4
  <2> QED
    BY <1>1, <1>2, <1>3, <2>1, HashUpdated
<1>6. colour' \in Player
  BY <1>1, Marks
<1> QED
  BY <1>1, <1>2, <1>4, <1>5, <1>6 DEF UpdateInv

LEMMA TreePassKeeps ==
  ASSUME UpdateInv, TreePass
  PROVE  UpdateInv'
<1>1. /\ Kept(cb, cb.p) /\ cb.empty = FreeOf(cb.p) /\ colour \in Player /\ cache \in CacheType
      /\ phase = "tree" /\ zobrist_hash = Codes(cb.p)
      /\ cache' = cache /\ zobrist_hash' = zobrist_hash
  BY DEF UpdateInv, TreePass, playoutVars
<1>2. CASE cb.last_played = PASS
  <2>1. cb' = cb /\ colour' = colour /\ phase' = "over"
    BY <1>2 DEF TreePass
  <2> QED
    BY <1>1, <2>1 DEF UpdateInv
<1>3. CASE cb.last_played # PASS
  <2>1. cb' = just_pass(cb) /\ colour' = Opponent(colour) /\ phase' = phase
    BY <1>3 DEF TreePass
  <2>2. Kept(cb', cb'.p) /\ cb'.p = cb.p /\ cb'.empty = cb.empty
    BY <1>1, <2>1, PassKeeps
  <2>3. colour' \in Player
    BY <1>1, <2>1, Marks
  <2> QED
    BY <1>1, <2>1, <2>2, <2>3 DEF UpdateInv
<1> QED
  BY <1>2, <1>3

LEMMA StartPlayoutKeeps ==
  ASSUME UpdateInv, StartPlayout
  PROVE  UpdateInv'
<1>1. /\ Kept(cb, cb.p) /\ cb.empty = FreeOf(cb.p) /\ colour \in Player
      /\ phase' = "playout" /\ colour' = colour
      /\ diff' = stone_diff(cb.p) - Komi \div 2 /\ cache' = [c \in Player |-> AllDirty]
  BY DEF UpdateInv, StartPlayout
<1>2. PICK points \in {{}, cb.empty \ {get_ko_play(cb)}} : cb' = Examined(cb, colour, points)
  BY DEF StartPlayout
<1>3. points \in SUBSET Point
  BY <1>1 DEF FreeOf
<1>4. Kept(cb', cb'.p) /\ cb'.p = cb.p /\ cb'.empty = cb.empty
  BY <1>1, <1>2, <1>3, ExaminedKeeps
<1>5. cache' \in CacheType /\ CachesFit(cache', cb'.p)
  BY <1>1 DEF CacheType, CachesFit, Fits, AllDirty, Dirty
<1> QED
  BY <1>1, <1>4, <1>5 DEF UpdateInv

\* What a turn of a playout starts from.
LEMMA TurnKnows ==
  ASSUME UpdateInv, phase = "playout", NEW known \in Refreshed(cb, colour, cache[colour])
  PROVE  /\ Kept(cb, cb.p) /\ cb.empty = FreeOf(cb.p) /\ colour \in Player
         /\ diff = stone_diff(cb.p) - Komi \div 2
         /\ [cache EXCEPT ![colour] = known] \in CacheType
         /\ CachesFit([cache EXCEPT ![colour] = known], cb.p)
         /\ Fits(known, cb.p)
<1>1. /\ Kept(cb, cb.p) /\ cb.empty = FreeOf(cb.p) /\ colour \in Player
      /\ diff = stone_diff(cb.p) - Komi \div 2 /\ cache \in CacheType /\ CachesFit(cache, cb.p)
  BY DEF UpdateInv
<1>2. /\ cache \in [Player -> [Point -> SUBSET {"dirty", "legal", "safe"}]]
      /\ \A c \in Player : Fits(cache[c], cb.p)
  BY <1>1 DEF CacheType, CachesFit
<1>3. known \in [Point -> SUBSET {"dirty", "legal", "safe"}] /\ Fits(known, cb.p)
  BY <1>1, <1>2, RefreshedFits
<1> DEFINE T == [Point -> SUBSET {"dirty", "legal", "safe"}]
           new == [cache EXCEPT ![colour] = known]
<1>4. new \in [Player -> T] /\ \A c \in Player : Fits(new[c], cb.p)
  <2>1. \A c \in Player : new[c] = IF c = colour THEN known ELSE cache[c]
    BY <1>2
  <2> HIDE DEF T
  <2>2. new \in [Player -> T]
    BY <1>2, <1>3 DEF T
  <2> QED
    BY <1>2, <1>3, <2>1, <2>2
<1> QED
  BY <1>1, <1>3, <1>4 DEF CacheType, CachesFit

LEMMA HeavyPassKeeps ==
  ASSUME UpdateInv, phase = "playout", NEW known \in Refreshed(cb, colour, cache[colour]),
         HeavyPass(known)
  PROVE  UpdateInv'
<1> DEFINE caches == [cache EXCEPT ![colour] = known]
<1>1. /\ Kept(cb, cb.p) /\ cb.empty = FreeOf(cb.p) /\ colour \in Player
      /\ diff = stone_diff(cb.p) - Komi \div 2
      /\ caches \in CacheType /\ CachesFit(caches, cb.p)
  BY TurnKnows
<1> HIDE DEF caches
<1>2. CASE cb.last_played = PASS
  <2>1. cb' = cb /\ colour' = colour /\ phase' = "over" /\ cache' = caches
    BY <1>2 DEF HeavyPass, caches
  <2> QED
    BY <1>1, <2>1 DEF UpdateInv
<1>3. CASE cb.last_played # PASS
  <2>1. /\ cb' = just_pass(cb) /\ colour' = Opponent(colour) /\ phase' = phase /\ diff' = diff
        /\ cache' = invalidate_cache_of_the_past(cb, caches)
    BY <1>3 DEF HeavyPass, caches
  <2>2. Kept(cb', cb'.p) /\ cb'.p = cb.p /\ cb'.empty = cb.empty
    BY <1>1, <2>1, PassKeeps
  <2>3. colour' \in Player
    BY <1>1, <2>1, Marks
  <2>4. cache' \in CacheType /\ CachesFit(cache', cb.p)
    BY <1>1, <2>1, PastFits
  <2> QED
    BY <1>1, <2>1, <2>2, <2>3, <2>4 DEF UpdateInv
<1> QED
  BY <1>2, <1>3

LEMMA HeavyPlayKeeps ==
  ASSUME UpdateInv, phase = "playout", NEW known \in Refreshed(cb, colour, cache[colour]),
         NEW m \in Point, HeavyPlay(known, m)
  PROVE  UpdateInv'
<1> DEFINE caches == [cache EXCEPT ![colour] = known]
           past == invalidate_cache_of_the_past(cb, caches)
           after == just_play3(cb, colour, m, diff)
           s == Play(cb, colour, m)
           q == cb.p
           k2 == Komi \div 2
<1>1. /\ Kept(cb, q) /\ cb.empty = FreeOf(q) /\ colour \in Player
      /\ diff = stone_diff(q) - k2
      /\ caches \in CacheType /\ CachesFit(caches, q) /\ Fits(known, q)
  BY TurnKnows
<1>2. m \in Selected(cb, colour, known) \ {PASS}
  BY DEF HeavyPlay
<1>3. /\ cb' = after.cb /\ diff' = after.diff
      /\ \/ phase' = "over" /\ cache' = past /\ colour' = colour
         \/ /\ cache' = invalidate_cache_after_play(after.cb, past, after.stones_removed,
                                                    after.rem_nei_libs)
            /\ colour' = Opponent(colour) /\ phase' = phase
  BY DEF HeavyPlay
<1>4. q[m] = EMPTY /\ q \in [Point -> Stones]
  <2>1. q[m] = EMPTY
    BY <1>1, <1>2, SelectedFree
  <2>2. q \in [Point -> Stones]
    BY <1>1, FastBoardTyped DEF Kept
  <2> QED
    BY <2>1, <2>2
<1>5. past \in CacheType /\ CachesFit(past, q)
  BY <1>1, PastFits
<1> HIDE DEF past, caches
<1>6. /\ Kept(s.cb, s.cb.p) /\ s.cb.empty = FreeOf(s.cb.p) /\ s.cb.last_played = m
      /\ \E K \in SUBSET Point : Played(q, colour, m, K, s.cb.p) /\ s.captures = Cardinality(K)
  BY <1>1, <1>4, PlayKeeps
<1>7. PICK K \in SUBSET Point : Played(q, colour, m, K, s.cb.p) /\ s.captures = Cardinality(K)
  BY <1>6
<1>8. /\ after.cb = s.cb
      /\ after.diff = IF colour = "black" THEN diff + (1 + s.captures) ELSE diff - (1 + s.captures)
  BY DEF just_play3
<1> HIDE DEF after, s
<1>9. diff' = stone_diff(cb'.p) - k2
  <2>1. /\ stone_diff(q) \in Int /\ Cardinality(K) \in Nat
        /\ stone_diff(s.cb.p) = IF colour = "black" THEN stone_diff(q) + (1 + Cardinality(K))
                                                    ELSE stone_diff(q) - (1 + Cardinality(K))
    BY <1>1, <1>4, <1>7, DiffUpdated
  <2>2. k2 \in Int
    BY PlayoutAssumption
  <2> HIDE DEF k2, q
  <2> QED
    BY <1>1, <1>3, <1>7, <1>8, <2>1, <2>2
<1>10. CASE phase' = "over" /\ cache' = past /\ colour' = colour
  BY <1>1, <1>3, <1>5, <1>6, <1>8, <1>10 DEF UpdateInv
<1>11. CASE /\ cache' = invalidate_cache_after_play(after.cb, past, after.stones_removed,
                                                    after.rem_nei_libs)
            /\ colour' = Opponent(colour) /\ phase' = phase
  <2>1. cache' \in CacheType /\ CachesFit(cache', cb'.p)
    <3> DEFINE b == s.cb
               q1 == s.cb.p
               removed == after.stones_removed
               libs == after.rem_nei_libs
    <3>1. cache' = invalidate_cache_after_play(b, past, removed, libs) /\ cb'.p = q1
      BY <1>3, <1>8, <1>11
    <3>2. b.last_played = m /\ Played(q, colour, m, K, q1) /\ colour \in Player
      BY <1>1, <1>6, <1>7
    <3> HIDE DEF b, q1, removed, libs, q
    <3> QED
      BY <1>4, <1>5, <3>1, <3>2, PlayFits
  <2>2. colour' \in Player
    BY <1>1, <1>11, Marks
  <2> QED
    BY <1>3, <1>6, <1>8, <1>9, <1>11, <2>1, <2>2 DEF UpdateInv
<1> QED
  BY <1>3, <1>10, <1>11

LEMMA UpdateInvStep ==
  ASSUME UpdateInv, [Next]_vars
  PROVE  UpdateInv'
<1>1. CASE \E m \in Point : TreePlay(m)
  BY <1>1, TreePlayKeeps
<1>2. CASE TreePass
  BY <1>2, TreePassKeeps
<1>3. CASE StartPlayout
  BY <1>3, StartPlayoutKeeps
<1>4. CASE HeavyTurn
  <2>1. phase = "playout"
    BY <1>4 DEF HeavyTurn
  <2>2. PICK known \in Refreshed(cb, colour, cache[colour]) :
          HeavyPass(known) \/ \E m \in Point : HeavyPlay(known, m)
    BY <1>4 DEF HeavyTurn
  <2> QED
    BY <2>1, <2>2, HeavyPassKeeps, HeavyPlayKeeps
<1>5. CASE OutOfDepth
  BY <1>5 DEF UpdateInv, OutOfDepth, playoutVars
<1>6. CASE UNCHANGED vars
  BY <1>6 DEF UpdateInv, vars, playoutVars
<1> QED
  BY <1>1, <1>2, <1>3, <1>4, <1>5, <1>6 DEF Next

\* On any board, from any state of a match, and through any plays, passes and captures,
\* down the tree or in a playout, the counts of stones and the pattern around every
\* point, the list of free points, the hash and the difference of stones are those of
\* the board, though none is ever computed again.
THEOREM UpdatesExact == Spec => []UpdatesAreExact
<1>1. Init => UpdateInv
  BY UpdateInvInit
<1>2. UpdateInv /\ [Next]_vars => UpdateInv'
  BY UpdateInvStep
<1>3. UpdateInv => UpdatesAreExact
  BY UpdatesImplied
<1> QED
  BY <1>1, <1>2, <1>3, PTL DEF Spec

\* On any board, after any plays, passes and captures, the groups are the chains of the
\* board: the stones, the liberties, their count and their lowest, and the groups beside
\* each are what a search of the board would find, though the code only ever adds a
\* stone, takes a liberty, joins two groups or removes one.
THEOREM GroupsExact == Spec => []GroupsAreExact
<1>1. Init => UpdateInv
  BY UpdateInvInit
<1>2. UpdateInv /\ [Next]_vars => UpdateInv'
  BY UpdateInvStep
<1>3. UpdateInv => GroupsAreExact
  BY GroupsImplied
<1> QED
  BY <1>1, <1>2, <1>3, PTL DEF Spec

-----------------------------------------------------------------------------
(* The plays of a simulation are those of the rules. *)
\* A step that plays or passes does so as the slow board.
SlowStep ==
  LET m == cb'.last_played IN
  (cb'.p # cb.p \/ cb'.last_played # cb.last_played) =>
    SlowBoard' = IF m = PASS THEN pass(SlowBoard) ELSE just_play_slow2(SlowBoard, colour, m)

LEMMA PlayedSlowly ==
  ASSUME UpdateInv, NEW m \in Point, cb.p[m] = EMPTY, cb' = Play(cb, colour, m).cb
  PROVE  SlowStep
<1>1. /\ Kept(cb, cb.p) /\ cb.empty = FreeOf(cb.p) /\ colour \in Player
  BY DEF UpdateInv
<1>2. Slow(cb') = just_play_slow2(Slow(cb), colour, m)
  BY <1>1, PlayIsSlow
<1>3. cb'.last_played = m /\ m # PASS
  BY <1>1, PlayKeeps, Marks
<1>4. Slow(cb) = SlowBoard /\ Slow(cb') = SlowBoard'
  BY DEF Slow, SlowBoard
<1> QED
  BY <1>2, <1>3, <1>4 DEF SlowStep

LEMMA PassedSlowly ==
  ASSUME UpdateInv, cb' = just_pass(cb)
  PROVE  SlowStep
<1>1. Kept(cb, cb.p)
  BY DEF UpdateInv
<1>2. Slow(cb') = pass(Slow(cb)) /\ cb'.last_played = PASS
  BY <1>1, PassIsSlow
<1>3. Slow(cb) = SlowBoard /\ Slow(cb') = SlowBoard'
  BY DEF Slow, SlowBoard
<1> QED
  BY <1>2, <1>3 DEF SlowStep

LEMMA StepIsSlow ==
  ASSUME UpdateInv, [Next]_vars
  PROVE  SlowStep
<1>1. Kept(cb, cb.p) /\ cb.empty = FreeOf(cb.p) /\ colour \in Player
  BY DEF UpdateInv
<1>2. CASE cb' = cb
  BY <1>2 DEF SlowStep
<1>3. ASSUME NEW m \in Point, TreePlay(m) PROVE SlowStep
  <2>1. m \in cb.empty /\ cb' = Play(cb, colour, m).cb
    BY <1>3 DEF TreePlay, just_play2
  <2> QED
    BY <1>1, <2>1, PlayedSlowly DEF FreeOf
<1>4. CASE TreePass
  <2>1. cb' = cb \/ cb' = just_pass(cb)
    BY <1>4 DEF TreePass
  <2> QED
    BY <1>2, <2>1, PassedSlowly
<1>5. CASE StartPlayout
  <2>1. PICK points \in {{}, cb.empty \ {get_ko_play(cb)}} : cb' = Examined(cb, colour, points)
    BY <1>5 DEF StartPlayout
  <2>2. points \in SUBSET Point
    BY <1>1, <2>1 DEF FreeOf
  <2>3. cb'.p = cb.p /\ cb'.last_played = cb.last_played
    BY <1>1, <2>1, <2>2, ExaminedKeeps
  <2> QED
    BY <2>3 DEF SlowStep
<1>6. CASE HeavyTurn
  <2>1. phase = "playout"
    BY <1>6 DEF HeavyTurn
  <2>2. PICK known \in Refreshed(cb, colour, cache[colour]) :
          HeavyPass(known) \/ \E m \in Point : HeavyPlay(known, m)
    BY <1>6 DEF HeavyTurn
  <2>3. CASE HeavyPass(known)
    <3>1. cb' = cb \/ cb' = just_pass(cb)
      BY <2>3 DEF HeavyPass
    <3> QED
      BY <1>2, <3>1, PassedSlowly
  <2>4. ASSUME NEW m \in Point, HeavyPlay(known, m) PROVE SlowStep
    <3>1. m \in Selected(cb, colour, known) \ {PASS} /\ cb' = Play(cb, colour, m).cb
      BY <2>4 DEF HeavyPlay, just_play3
    <3>2. Fits(known, cb.p)
      BY <2>1, <2>2, TurnKnows
    <3>3. cb.p[m] = EMPTY
      BY <1>1, <3>1, <3>2, SelectedFree
    <3> QED
      BY <3>1, <3>3, PlayedSlowly
  <2> QED
    BY <2>2, <2>3, <2>4
<1>7. CASE OutOfDepth
  BY <1>2, <1>7 DEF OutOfDepth
<1>8. CASE UNCHANGED vars
  BY <1>2, <1>8 DEF vars
<1> QED
  BY <1>3, <1>4, <1>5, <1>6, <1>7, <1>8 DEF Next

\* Every play of the fast board, and every pass, leaves the stones, the last play and the
\* ko that the slow board does, which floods the chains and looks for their liberties: the
\* groups captured, one neighbour after the other, are those without a liberty once the
\* stone is placed, and the stone captured alone is the one the ko is at.
THEOREM PlaysAsTheSlowBoard == Spec => SameAsSlowBoard
<1>1. Init => UpdateInv
  BY UpdateInvInit
<1>2. UpdateInv /\ [Next]_vars => UpdateInv'
  BY UpdateInvStep
<1>3. UpdateInv /\ [Next]_vars => [SlowStep]_vars
  BY StepIsSlow
<1>4. Spec => [][SlowStep]_vars
  BY <1>1, <1>2, <1>3, PTL DEF Spec
<1>5. [][SlowStep]_vars => SameAsSlowBoard
  BY DEF SlowStep, SameAsSlowBoard
<1> QED
  BY <1>4, <1>5

-----------------------------------------------------------------------------
(* Plays are foretold. *)
\* What a step does to the board, and to whose turn it is.
LEMMA BoardSteps ==
  ASSUME UpdateInv, [Next]_vars
  PROVE  /\ phase' # "over" => phase # "over"
         /\ \/ /\ cb'.p = cb.p /\ cb'.last_played = cb.last_played
               /\ cb'.last_eaten = cb.last_eaten
               /\ colour' = colour
            \/ cb' = just_pass(cb) /\ colour' = Opponent(colour)
            \/ \E m \in Point : /\ cb.p[m] = EMPTY /\ cb' = Play(cb, colour, m).cb
                                /\ phase' # "over" => colour' = Opponent(colour)
<1>1. Kept(cb, cb.p) /\ cb.empty = FreeOf(cb.p) /\ colour \in Player
  BY DEF UpdateInv
<1>3. ASSUME NEW m \in Point, TreePlay(m)
      PROVE  /\ phase' = phase /\ cb.p[m] = EMPTY /\ cb' = Play(cb, colour, m).cb
             /\ colour' = Opponent(colour) /\ phase # "over"
  BY <1>1, <1>3 DEF TreePlay, just_play2, FreeOf
<1>4. CASE TreePass
  <2>1. /\ phase # "over"
        /\ (cb' = cb /\ colour' = colour) \/ (cb' = just_pass(cb) /\ colour' = Opponent(colour))
    BY <1>4 DEF TreePass
  <2> QED
    BY <2>1
<1>5. CASE StartPlayout
  <2>1. PICK points \in {{}, cb.empty \ {get_ko_play(cb)}} : cb' = Examined(cb, colour, points)
    BY <1>5 DEF StartPlayout
  <2>2. points \in SUBSET Point
    BY <1>1, <2>1 DEF FreeOf
  <2>3. cb'.p = cb.p /\ cb'.last_played = cb.last_played /\ cb'.last_eaten = cb.last_eaten
    BY <1>1, <2>1, <2>2, ExaminedKeeps
  <2>4. colour' = colour /\ phase # "over"
    BY <1>5 DEF StartPlayout
  <2> QED
    BY <2>3, <2>4
<1>6. CASE HeavyTurn
  <2>1. phase = "playout"
    BY <1>6 DEF HeavyTurn
  <2>2. PICK known \in Refreshed(cb, colour, cache[colour]) :
          HeavyPass(known) \/ \E m \in Point : HeavyPlay(known, m)
    BY <1>6 DEF HeavyTurn
  <2>3. CASE HeavyPass(known)
    <3>1. (cb' = cb /\ colour' = colour) \/ (cb' = just_pass(cb) /\ colour' = Opponent(colour))
      BY <2>3 DEF HeavyPass
    <3> QED
      BY <2>1, <3>1
  <2>4. ASSUME NEW m \in Point, HeavyPlay(known, m)
        PROVE  /\ cb.p[m] = EMPTY /\ cb' = Play(cb, colour, m).cb
               /\ phase' # "over" => colour' = Opponent(colour)
    <3>1. /\ m \in Selected(cb, colour, known) \ {PASS} /\ cb' = Play(cb, colour, m).cb
          /\ phase' # "over" => colour' = Opponent(colour)
      BY <2>4 DEF HeavyPlay, just_play3
    <3>2. Fits(known, cb.p)
      BY <2>1, <2>2, TurnKnows
    <3>3. cb.p[m] = EMPTY
      BY <1>1, <3>1, <3>2, SelectedFree
    <3> QED
      BY <3>1, <3>3
  <2> QED
    BY <2>1, <2>2, <2>3, <2>4
<1>7. CASE OutOfDepth
  BY <1>7 DEF OutOfDepth
<1>8. CASE UNCHANGED vars
  BY <1>8 DEF vars
<1> QED
  BY <1>3, <1>4, <1>5, <1>6, <1>7, <1>8 DEF Next

\* The ko, if there is one, is against the player whose turn it is.
KoInv == phase # "over" => KoAgainst(cb, colour)

LEMMA KoInvInit == Init => KoInv
<1> SUFFICES ASSUME Init PROVE KoInv
  OBVIOUS
<1>1. PICK s \in Starts : cb = cfg_from_board(s.board) /\ colour = s.colour
  BY DEF Init
<1>2. s.board \in Board /\ KoAgainst(s.board, s.colour)
  BY PlayoutAssumption DEF OfMatch
<1>3. cb.p = s.board.p /\ cb.last_played = s.board.last_played /\ cb.last_eaten = s.board.last_eaten
  BY <1>1, <1>2, CopyKeeps
<1> QED
  BY <1>1, <1>2, <1>3 DEF KoInv, KoAgainst

LEMMA KoInvStep ==
  ASSUME UpdateInv, KoInv, [Next]_vars
  PROVE  KoInv'
<1>1. Kept(cb, cb.p) /\ cb.empty = FreeOf(cb.p) /\ colour \in Player
  BY DEF UpdateInv
<1> SUFFICES ASSUME phase' # "over" PROVE KoAgainst(cb', colour')
  BY DEF KoInv
<1>2. KoAgainst(cb, colour)
  BY BoardSteps DEF KoInv
<1>3. CASE /\ cb'.p = cb.p /\ cb'.last_played = cb.last_played /\ cb'.last_eaten = cb.last_eaten
           /\ colour' = colour
  BY <1>2, <1>3 DEF KoAgainst
<1>4. CASE cb' = just_pass(cb)
  <2>1. cb'.last_eaten = NONE
    BY <1>1, <1>4, PassKeeps
  <2> QED
    BY <2>1, Marks DEF KoAgainst
<1>5. ASSUME NEW m \in Point, cb.p[m] = EMPTY, cb' = Play(cb, colour, m).cb,
             colour' = Opponent(colour)
      PROVE  KoAgainst(cb', colour')
  BY <1>1, <1>5, PlayLeavesKo
<1> QED
  BY <1>3, <1>4, <1>5, BoardSteps

LEMMA LegalityImplied ==
  ASSUME UpdateInv, KoInv
  PROVE  LegalityAgrees
<1>1. Kept(cb, cb.p) /\ colour \in Player
  BY DEF UpdateInv
<1>2. Slow(cb) = SlowBoard
  BY DEF Slow, SlowBoard
<1>3. ASSUME phase # "over", NEW m \in Point
      PROVE  can_play(cb, colour, m) = can_play_slow(SlowBoard, colour, m)
  <2>1. KoAgainst(cb, colour)
    BY <1>3 DEF KoInv
  <2>2. can_play(cb, colour, m) <=> can_play_slow(Slow(cb), colour, m)
    BY <1>1, <2>1, SameLegality
  <2>3. can_play(cb, colour, m) \in BOOLEAN /\ can_play_slow(SlowBoard, colour, m) \in BOOLEAN
    BY DEF can_play, can_play_slow
  <2> QED
    BY <1>2, <2>2, <2>3
<1> QED
  BY <1>3 DEF LegalityAgrees

-----------------------------------------------------------------------------
\* The slow board after a play.
LEMMA SlowPlayLeaves ==
  ASSUME NEW b, NEW q, q = b.p, q \in [Point -> Stones], NEW m \in Point, q[m] = EMPTY, NEW c \in Player
  PROVE  /\ just_play_slow2(Slow(b), c, m).p = Leaves(q, c, m)
         /\ Cardinality(StonesOf(Opponent(c), q)) - Cardinality(StonesOf(Opponent(c), Leaves(q, c, m)))
              = Cardinality(Captured(With(q, m, c), m))
<1> DEFINE P == With(q, m, c)
           K == Captured(P, m)
           d == Opponent(c)
           A == StonesOf(d, q)
           Z == StonesOf(d, Leaves(q, c, m))
<1>1. just_play_slow2(Slow(b), c, m).p = Leaves(q, c, m)
  BY PlacedIsWith DEF just_play_slow2, Leaves
<1>2. /\ K \in SUBSET Point /\ \A k \in K : q[k] = d
      /\ d # c /\ d # EMPTY
      /\ \A n \in Point : P[n] = IF n = m THEN c ELSE q[n]
  BY TakenChains, PlacedAt, Marks
<1>3. \A n \in Point : Leaves(q, c, m)[n] = IF n \in K THEN EMPTY ELSE P[n]
  BY DEF Leaves
<1>4. A = {n \in Point : q[n] = d} /\ Z = {n \in Point : Leaves(q, c, m)[n] = d}
  BY DEF StonesOf
<1> HIDE DEF P, K, d, A, Z
<1>5. Z = A \ K /\ A \cap K = K /\ A \in SUBSET Point
  BY <1>2, <1>3, <1>4
<1>6. /\ Cardinality(Z) = Cardinality(A) - Cardinality(K)
      /\ Cardinality(A) \in Nat /\ Cardinality(K) \in Nat
  <2>1. IsFiniteSet(A) /\ Cardinality(A) \in Nat /\ Cardinality(K) \in Nat
    BY <1>2, <1>5, PointsAreFinite
  <2>2. Cardinality(A \ K) = Cardinality(A) - Cardinality(A \cap K)
    BY <2>1, FS_Difference
  <2> QED
    BY <1>5, <2>1, <2>2
<1>7. Cardinality(A) - Cardinality(Z) = Cardinality(K)
  <2> DEFINE a1 == Cardinality(A)
             k1 == Cardinality(K)
  <2> HIDE DEF a1, k1
  <2>1. a1 \in Nat /\ k1 \in Nat => a1 - (a1 - k1) = k1
    OBVIOUS
  <2> QED
    BY <1>6, <2>1 DEF a1, k1
<1> QED
  BY <1>1, <1>7 DEF A, Z, d, K, P

LEMMA SafetyImplied ==
  ASSUME UpdateInv
  PROVE  SafetyExact
<1> DEFINE q == cb.p
<1>1. Kept(cb, q)
  BY DEF UpdateInv
<1>2. Slow(cb) = SlowBoard /\ q \in [Point -> Stones]
  BY <1>1 DEF Slow, SlowBoard, Kept, Grouped, Owned
<1> SUFFICES ASSUME NEW m \in Empties, NEW c \in Player
             PROVE
    LET after == just_play_slow2(SlowBoard, c, m).p
        libs  == Cardinality(Liberties(after, Chain(after, m)))
        caps  == Cardinality(StonesOf(Opponent(c), cb.p)) - Cardinality(StonesOf(Opponent(c), after))
        exact == libs_after_play(cb, c, m)
    IN /\ exact.libs = libs /\ exact.caps = caps
       /\ safe_to_play(cb, c, m) = Lower(libs, 2)
       /\ safe_to_play2(cb, c, m) = [libs |-> Lower(libs, 2), caps |-> caps > 0]
       /\ caps_after_play(cb, c, m) = (caps > 0)
  BY DEF SafetyExact
<1> DEFINE after == just_play_slow2(SlowBoard, c, m).p
           libs  == Cardinality(Liberties(after, Chain(after, m)))
           caps  == Cardinality(StonesOf(Opponent(c), cb.p)) - Cardinality(StonesOf(Opponent(c), after))
           exact == libs_after_play(cb, c, m)
           E == Cardinality(ExactLiberties(q, c, m))
           K == Cardinality(Captured(With(q, m, c), m))
<1>3. m \in Point /\ q[m] = EMPTY
  BY DEF Empties
<1>4. after = Leaves(q, c, m) /\ caps = K
  <2>1. after = Leaves(q, c, m)
    BY <1>2, <1>3, SlowPlayLeaves
  <2>2. Cardinality(StonesOf(Opponent(c), q)) - Cardinality(StonesOf(Opponent(c), Leaves(q, c, m))) = K
    BY <1>2, <1>3, SlowPlayLeaves
  <2> QED
    BY <2>1, <2>2
<1>5. libs = E
  <2>1. LibertiesAt(Leaves(q, c, m), m) = ExactLiberties(q, c, m)
    BY <1>2, <1>3, LibertiesLeft
  <2> QED
    BY <1>4, <2>1 DEF LibertiesAt
<1>6. /\ exact.libs = E /\ exact.caps = K
      /\ safe_to_play(cb, c, m) = Lower(E, 2)
      /\ safe_to_play2(cb, c, m) = [libs |-> Lower(E, 2), caps |-> K > 0]
      /\ caps_after_play(cb, c, m) <=> K > 0
  BY <1>1, <1>3, LibsAfterIsExact, SafeIsExact, SafeWithCaptures, CapturesForetold
<1>7. caps_after_play(cb, c, m) \in BOOLEAN
  BY DEF caps_after_play
<1> HIDE DEF libs, caps, E, K, q
<1> QED
  BY <1>4, <1>5, <1>6, <1>7 DEF libs, caps

\* On any board, what can_play, safe_to_play, safe_to_play2, libs_after_play and
\* caps_after_play tell of a play, from the groups beside it and the counts around it, is
\* what just_play_slow2 and can_play_slow make of it: legal or not, the liberties it leaves,
\* the stones it captures.  The approximation is exact, the points being those of a grid.
THEOREM PlaysAreForetold == Spec => []PlaysForetold
<1>1. Init => UpdateInv /\ KoInv
  BY UpdateInvInit, KoInvInit
<1>2. UpdateInv /\ KoInv /\ [Next]_vars => (UpdateInv /\ KoInv)'
  BY UpdateInvStep, KoInvStep
<1>3. UpdateInv /\ KoInv => PlaysForetold
  BY LegalityImplied, SafetyImplied DEF PlaysForetold
<1> QED
  BY <1>1, <1>2, <1>3, PTL DEF Spec

-----------------------------------------------------------------------------
(* The cache of a playout. *)
\* What is known of a free point is told by the chains beside it and the stones around it.
LEMMA SameStatus ==
  ASSUME NEW b, Kept(b, b.p), NEW d, Kept(d, d.p), NEW n \in Point,
         b.p[n] = EMPTY, d.p[n] = EMPTY, SameBeside(b.p, d.p, n),
         b.last_eaten # n, d.last_eaten # n, NEW e \in Player
  PROVE  Status(d, e, n) = Status(b, e, n) /\ (SelfAtari(d, e, n) <=> SelfAtari(b, e, n))
<1> DEFINE q == b.p
           L == d.p
           N == neighbors_side[n]
           A == neighbors_3x3[n]
<1>1. q \in [Point -> Stones] /\ L \in [Point -> Stones] /\ Around(b, q) /\ Around(d, L)
  BY DEF Kept, Grouped, Owned
<1>2. \A a \in A : L[a] = q[a]
  BY DEF SameBeside
<1>3. N \subseteq A
  BY DEF neighbors_3x3
<1>4. safe_to_play(d, e, n) = safe_to_play(b, e, n)
  <2>1. safe_to_play(b, e, n) = Lower(Cardinality(ExactLiberties(q, e, n)), 2)
    BY SafeIsExact
  <2>2. safe_to_play(d, e, n) = Lower(Cardinality(ExactLiberties(L, e, n)), 2)
    BY SafeIsExact
  <2>3. ExactLiberties(L, e, n) = ExactLiberties(q, e, n)
    BY <1>1, SameExactLiberties
  <2> QED
    BY <2>1, <2>2, <2>3
<1>5. d.neighbors4[e][n] = b.neighbors4[e][n]
  <2>1. /\ b.neighbors4[e][n] = Cardinality(StonesIn(N, q, e))
        /\ d.neighbors4[e][n] = Cardinality(StonesIn(N, L, e))
    BY <1>1 DEF Around
  <2>2. StonesIn(N, q, e) = StonesIn(N, L, e)
    BY <1>2, <1>3 DEF StonesIn
  <2> QED
    BY <2>1, <2>2
<1>6. \A a \in A : d.hash[n][a] = b.hash[n][a]
  <2>1. \A a \in A : b.hash[n][a] = Mark(q[a]) /\ d.hash[n][a] = Mark(L[a])
    BY <1>1 DEF Around
  <2> QED
    BY <1>2, <2>1
<1> HIDE DEF N, A
<1>7. is_eye(d, e, n) <=> is_eye(b, e, n)
  <2> DEFINE stones(x, f, S) == Cardinality({a \in S : x.hash[n][a] = Value(f)})
  <2>1. \A f \in Player : stones(d, f, A) = stones(b, f, A) /\ stones(d, f, N) = stones(b, f, N)
    <3> TAKE f \in Player
    <3>1. {a \in A : d.hash[n][a] = Value(f)} = {a \in A : b.hash[n][a] = Value(f)}
      BY <1>6
    <3>2. {a \in N : d.hash[n][a] = Value(f)} = {a \in N : b.hash[n][a] = Value(f)}
      BY <1>3, <1>6
    <3> QED
      BY <3>1, <3>2
  <2>2. \A x : is_eye(x, e, n) <=>
          /\ stones(x, e, N) + out_neighbors4[n] = 4
          /\ IF out_neighbors4[n] = 0 THEN stones(x, Opponent(e), A) < 2
                                      ELSE stones(x, Opponent(e), A) = 0
    BY DEF is_eye, N, A
  <2>3. Opponent(e) \in Player
    BY Marks
  <2> HIDE DEF stones
  <2> QED
    BY <2>1, <2>2, <2>3
<1>8. get_ko_play(b) # n /\ get_ko_play(d) # n
  BY Marks DEF get_ko_play
<1>9. Unplayable(d, e, n) <=> Unplayable(b, e, n)
  BY <1>4, <1>7, <1>8 DEF Unplayable
<1>10. Status(d, e, n) = Status(b, e, n)
  BY <1>4, <1>9 DEF Status
<1>11. SelfAtari(d, e, n) <=> SelfAtari(b, e, n)
  BY <1>4, <1>5, <1>9 DEF SelfAtari
<1> QED
  BY <1>10, <1>11

-----------------------------------------------------------------------------
\* What known says of a point, unless marked dirty, is what would be found on b by e.
Fresh(b, known, e) ==
  \A n \in Point : "dirty" \notin known[n] =>
    IF b.p[n] # EMPTY THEN known[n] = {}
    ELSE known[n] = Status(b, e, n) \/ (known[n] = {} /\ SelfAtari(b, e, n))

FreshFor(b, caches) == \A e \in Player : Fresh(b, caches[e], e)

\* The player to play finds again what was dirty.
LEMMA RefreshedFresh ==
  ASSUME NEW b, b.empty = FreeOf(b.p), NEW c, NEW k0, Fresh(b, k0, c),
         NEW known \in Refreshed(b, c, k0)
  PROVE  /\ Fresh(b, known, c)
         /\ \A n \in Point : b.p[n] = EMPTY =>
              known[n] = Status(b, c, n) \/ (known[n] = {} /\ SelfAtari(b, c, n))
<1> DEFINE stale == {m \in b.empty : "dirty" \in k0[m]}
           ataris == {m \in stale : SelfAtari(b, c, m)}
<1>1. PICK banned \in SUBSET ataris :
        known = [m \in Point |-> IF m \in banned THEN {}
                                 ELSE IF m \in stale THEN Status(b, c, m) ELSE k0[m]]
  BY DEF Refreshed
<1>2. ASSUME NEW n \in Point, b.p[n] = EMPTY
      PROVE  known[n] = Status(b, c, n) \/ (known[n] = {} /\ SelfAtari(b, c, n))
  <2>1. CASE n \in banned
    BY <1>1, <2>1
  <2>2. CASE n \notin banned /\ n \in stale
    BY <1>1, <2>2
  <2>3. CASE n \notin banned /\ n \notin stale
    BY <1>1, <1>2, <2>3 DEF FreeOf, Fresh
  <2> QED
    BY <2>1, <2>2, <2>3
<1>3. ASSUME NEW n \in Point, b.p[n] # EMPTY PROVE known[n] = k0[n]
  BY <1>1, <1>3 DEF FreeOf
<1> QED
  BY <1>2, <1>3 DEF Fresh

\* The cache of the past has nothing to say of the point of the ko.
LEMMA PastFresh ==
  ASSUME NEW b, NEW caches \in CacheType, FreshFor(b, caches),
         NEW past, past = invalidate_cache_of_the_past(b, caches),
         NEW e \in Player, NEW n \in Point, "dirty" \notin past[e][n]
  PROVE  past[e][n] = caches[e][n] /\ n # b.last_eaten
<1>1. CASE b.last_eaten \notin Point
  BY <1>1 DEF invalidate_cache_of_the_past
<1>2. CASE b.last_eaten \in Point
  <2>1. past = [c \in Player |-> [caches[c] EXCEPT ![b.last_eaten] = Dirty]]
    BY <1>2 DEF invalidate_cache_of_the_past
  <2>2. past[e] = [caches[e] EXCEPT ![b.last_eaten] = Dirty]
    BY <2>1
  <2>3. caches[e] \in [Point -> SUBSET {"dirty", "legal", "safe"}]
    BY DEF CacheType
  <2>4. past[e][n] = IF n = b.last_eaten THEN Dirty ELSE caches[e][n]
    BY <2>2, <2>3
  <2> QED
    BY <2>4 DEF Dirty
<1> QED
  BY <1>1, <1>2

\* A pass frees the point of the ko only.
LEMMA PassFresh ==
  ASSUME NEW b, Kept(b, b.p), NEW caches \in CacheType, FreshFor(b, caches),
         NEW past, past = invalidate_cache_of_the_past(b, caches),
         NEW d, d = just_pass(b)
  PROVE  FreshFor(d, past)
<1>1. Kept(d, d.p) /\ d.p = b.p /\ d.last_eaten = NONE
  BY PassKeeps
<1> SUFFICES ASSUME NEW e \in Player, NEW n \in Point, "dirty" \notin past[e][n]
             PROVE  IF d.p[n] # EMPTY THEN past[e][n] = {}
                    ELSE past[e][n] = Status(d, e, n) \/ (past[e][n] = {} /\ SelfAtari(d, e, n))
  BY DEF FreshFor, Fresh
<1>2. past[e][n] = caches[e][n] /\ n # b.last_eaten
  BY PastFresh
<1>3. IF b.p[n] # EMPTY THEN past[e][n] = {}
      ELSE past[e][n] = Status(b, e, n) \/ (past[e][n] = {} /\ SelfAtari(b, e, n))
  BY <1>2 DEF FreshFor, Fresh
<1>4. CASE b.p[n] = EMPTY
  <2>1. Status(d, e, n) = Status(b, e, n) /\ (SelfAtari(d, e, n) <=> SelfAtari(b, e, n))
    BY <1>1, <1>2, <1>4, SameBoard, SameStatus, Marks
  <2> QED
    BY <1>1, <1>3, <1>4, <2>1
<1>5. CASE b.p[n] # EMPTY
  BY <1>1, <1>3, <1>5
<1> QED
  BY <1>4, <1>5

\* The play marks dirty every point that it changed: for both players, what is known of
\* the others is what would be found on the board it leaves.
LEMMA PlayFresh ==
  ASSUME NEW b, Kept(b, b.p), b.empty = FreeOf(b.p),
         NEW caches \in CacheType, FreshFor(b, caches),
         NEW past, past = invalidate_cache_of_the_past(b, caches),
         NEW m \in Point, b.p[m] = EMPTY, NEW c \in Player,
         NEW s, s = Play(b, c, m), NEW removed, removed = {x[1] : x \in s.removed},
         NEW new, new = invalidate_cache_after_play(s.cb, past, removed, s.libs)
  PROVE  FreshFor(s.cb, new)
<1> DEFINE d == s.cb
           q == b.p
           L == Leaves(q, c, m)
           K == Captured(With(q, m, c), m)
           own == GroupAt(d, m)
           dirty == removed \cup s.libs \cup own.ls \cup (UNION {d.group[h].ls : h \in own.neighbors})
                    \cup neighbors_diag[m]
<1>1. /\ Kept(d, L) /\ d.p = L /\ d.last_played = m /\ removed = K
      /\ \A k \in K : \A y \in neighbors_side[k] : q[y] = c => LibertiesAt(q, y) \ {m} \subseteq s.libs
  <2>1. Kept(d, d.p) /\ d.last_played = m
    BY PlayKeeps
  <2>2. /\ {x[1] : x \in s.removed} = K /\ d.p = L
        /\ \A k \in K : \A y \in neighbors_side[k] : q[y] = c => LibertiesAt(q, y) \ {m} \subseteq s.libs
    <3> HIDE DEF L
    <3>1. {x[1] : x \in s.removed} = K
      BY PlayTells
    <3>2. d.p = Leaves(q, c, m)
      BY PlayTells
    <3>3. \A k \in K : \A y \in neighbors_side[k] : q[y] = c => LibertiesAt(q, y) \ {m} \subseteq s.libs
      BY PlayTells
    <3> QED
      BY <3>1, <3>2, <3>3 DEF L
  <2> HIDE DEF d, q, L, K
  <2> QED
    BY <2>1, <2>2
<1>2. new = [e \in Player |-> [n \in Point |->
               IF n \in dirty THEN Dirty ELSE IF n = m THEN {} ELSE past[e][n]]]
  BY <1>1 DEF invalidate_cache_after_play
<1>3. q \in [Point -> Stones]
  BY FastBoardTyped DEF Kept
<1>4. /\ L \in [Point -> Stones] /\ L[m] = c /\ m \notin K /\ c # EMPTY
      /\ \A n \in Point : L[n] = IF n \in K THEN EMPTY ELSE IF n = m THEN c ELSE q[n]
  BY <1>3, LeftAt, Marks
<1>5. Marked(q, c, m, dirty)
  <2>1. own.ls = LibertiesAt(L, m)
    BY <1>1, <1>4, GroupOfStone DEF GroupAt
  <2>2. ASSUME NEW y \in Point, L[y] = Opponent(c), Touch(Chain(L, m), Chain(L, y))
        PROVE  LibertiesAt(L, y) \subseteq dirty
    <3>1. L[y] # EMPTY /\ L[y] # c
      BY <2>2, Marks
    <3>2. d.g[y] \in own.neighbors
      BY <1>1, <1>4, <2>2, <3>1, GroupsTouch DEF GroupAt
    <3>3. d.group[d.g[y]].ls = LibertiesAt(L, y)
      BY <1>1, <3>1, GroupOfStone
    <3> HIDE DEF own
    <3> QED
      BY <3>2, <3>3
  <2> HIDE DEF own
  <2>3. /\ removed \subseteq dirty /\ s.libs \subseteq dirty /\ own.ls \subseteq dirty
        /\ neighbors_diag[m] \subseteq dirty
    <3> DEFINE U == UNION {d.group[h].ls : h \in own.neighbors}
    <3>1. dirty = removed \cup s.libs \cup own.ls \cup U \cup neighbors_diag[m]
      BY DEF dirty, U
    <3> HIDE DEF U, dirty
    <3> QED
      BY <3>1
  <2> HIDE DEF dirty
  <2>4. \A k \in K : \A y \in neighbors_side[k] : q[y] = c => LibertiesAt(q, y) \ {m} \subseteq dirty
    BY <1>1, <2>3
  <2>5. K \subseteq dirty /\ LibertiesAt(L, m) \subseteq dirty
    BY <1>1, <2>1, <2>3
  <2> QED
    BY <2>2, <2>3, <2>4, <2>5 DEF Marked
<1> HIDE DEF dirty, L, q, K
<1> SUFFICES ASSUME NEW e \in Player, NEW n \in Point, "dirty" \notin new[e][n]
             PROVE  IF d.p[n] # EMPTY THEN new[e][n] = {}
                    ELSE new[e][n] = Status(d, e, n) \/ (new[e][n] = {} /\ SelfAtari(d, e, n))
  BY DEF FreshFor, Fresh
<1>6. n \notin dirty /\ new[e][n] = IF n = m THEN {} ELSE past[e][n]
  <2>1. new[e] = [k \in Point |-> IF k \in dirty THEN Dirty ELSE IF k = m THEN {} ELSE past[e][k]]
    <3> HIDE DEF d
    <3> QED
      BY ONLY <1>2, e \in Player
  <2>2. new[e][n] = IF n \in dirty THEN Dirty ELSE IF n = m THEN {} ELSE past[e][n]
    BY ONLY <2>1, n \in Point
  <2>3. n \notin dirty
    <3>1. "dirty" \notin new[e][n]
      OBVIOUS
    <3>2. "dirty" \in Dirty
      BY DEF Dirty
    <3> QED
      BY ONLY <2>2, <3>1, <3>2
  <2> QED
    BY ONLY <2>2, <2>3
<1>7. K \subseteq dirty
  BY <1>5 DEF Marked, K, q
<1>8. CASE n = m
  BY <1>1, <1>4, <1>6, <1>8
<1>9. CASE n # m
  <2>1. past[e][n] = caches[e][n] /\ n # b.last_eaten
    BY <1>6, <1>9, PastFresh
  <2>2. IF q[n] # EMPTY THEN new[e][n] = {}
        ELSE new[e][n] = Status(b, e, n) \/ (new[e][n] = {} /\ SelfAtari(b, e, n))
    BY <1>6, <1>9, <2>1 DEF FreshFor, Fresh, q
  <2>3. L[n] = q[n]
    BY <1>4, <1>6, <1>7, <1>9
  <2>4. CASE q[n] # EMPTY
    BY <1>1, <2>2, <2>3, <2>4
  <2>5. CASE q[n] = EMPTY
    <3>1. SameBeside(q, L, n)
      BY <1>3, <1>5, <1>6, <2>3, <2>5, UnmarkedUnchanged DEF L, q
    <3>2. d.last_eaten # n
      BY <1>6, <1>7, EatenIsCaptured, Marks DEF K, q
    <3>3. Status(d, e, n) = Status(b, e, n) /\ (SelfAtari(d, e, n) <=> SelfAtari(b, e, n))
      BY <1>1, <2>1, <2>3, <2>5, <3>1, <3>2, SameStatus DEF q
    <3> QED
      BY <1>1, <2>2, <2>3, <2>5, <3>3
  <2> QED
    BY <2>4, <2>5
<1> QED
  BY <1>8, <1>9

\* What CacheFresh needs of both players: the one who waits keeps what it knew.
FreshInv == phase = "playout" => FreshFor(cb, cache)

LEMMA CacheImplied ==
  ASSUME UpdateInv, FreshInv
  PROVE  CacheFresh
<1>1. colour \in Player
  BY DEF UpdateInv
<1>2. ASSUME phase = "playout", NEW m \in Point, "dirty" \notin cache[colour][m]
      PROVE  IF m \notin Empties THEN cache[colour][m] = {}
             ELSE \/ cache[colour][m] = Status(cb, colour, m)
                  \/ cache[colour][m] = {} /\ SelfAtari(cb, colour, m)
  <2>1. Fresh(cb, cache[colour], colour)
    BY <1>1, <1>2 DEF FreshInv, FreshFor
  <2> QED
    BY <1>2, <2>1 DEF Fresh, Empties
<1> QED
  BY <1>2 DEF CacheFresh

\* What a turn of a playout knows.
LEMMA TurnFresh ==
  ASSUME UpdateInv, FreshInv, phase = "playout",
         NEW known \in Refreshed(cb, colour, cache[colour])
  PROVE  /\ [cache EXCEPT ![colour] = known] \in CacheType
         /\ FreshFor(cb, [cache EXCEPT ![colour] = known])
         /\ \A n \in Point : cb.p[n] = EMPTY =>
              known[n] = Status(cb, colour, n) \/ (known[n] = {} /\ SelfAtari(cb, colour, n))
<1>1. /\ cb.empty = FreeOf(cb.p) /\ colour \in Player /\ cache \in CacheType
      /\ [cache EXCEPT ![colour] = known] \in CacheType
  BY TurnKnows DEF UpdateInv
<1>2. FreshFor(cb, cache)
  BY DEF FreshInv
<1>3. Fresh(cb, cache[colour], colour)
  BY <1>1, <1>2 DEF FreshFor
<1>4. /\ Fresh(cb, known, colour)
      /\ \A n \in Point : cb.p[n] = EMPTY =>
           known[n] = Status(cb, colour, n) \/ (known[n] = {} /\ SelfAtari(cb, colour, n))
  BY <1>1, <1>3, RefreshedFresh
<1>5. \A e \in Player : [cache EXCEPT ![colour] = known][e] = IF e = colour THEN known ELSE cache[e]
  BY <1>1 DEF CacheType
<1> QED
  BY <1>1, <1>2, <1>4, <1>5 DEF FreshFor

LEMMA HeavyPassFresh ==
  ASSUME UpdateInv, FreshInv, phase = "playout",
         NEW known \in Refreshed(cb, colour, cache[colour]), HeavyPass(known)
  PROVE  FreshInv'
<1> DEFINE caches == [cache EXCEPT ![colour] = known]
<1>1. Kept(cb, cb.p) /\ caches \in CacheType /\ FreshFor(cb, caches)
  BY TurnFresh DEF UpdateInv
<1> SUFFICES ASSUME phase' = "playout" PROVE FreshFor(cb', cache')
  BY DEF FreshInv
<1>2. cache' = invalidate_cache_of_the_past(cb, caches) /\ cb' = just_pass(cb)
  BY DEF HeavyPass
<1> HIDE DEF caches
<1> QED
  BY <1>1, <1>2, PassFresh

LEMMA HeavyPlayFresh ==
  ASSUME UpdateInv, FreshInv, phase = "playout",
         NEW known \in Refreshed(cb, colour, cache[colour]),
         NEW m \in Point, HeavyPlay(known, m)
  PROVE  FreshInv'
<1> DEFINE caches == [cache EXCEPT ![colour] = known]
           past == invalidate_cache_of_the_past(cb, caches)
           after == just_play3(cb, colour, m, diff)
           s == Play(cb, colour, m)
           removed == {e[1] : e \in s.removed}
<1>1. /\ Kept(cb, cb.p) /\ cb.empty = FreeOf(cb.p) /\ colour \in Player
      /\ caches \in CacheType /\ FreshFor(cb, caches) /\ Fits(known, cb.p)
  BY TurnFresh, TurnKnows
<1>2. m \in Selected(cb, colour, known) \ {PASS}
  BY DEF HeavyPlay
<1>3. cb.p[m] = EMPTY
  BY <1>1, <1>2, SelectedFree
<1> SUFFICES ASSUME phase' = "playout" PROVE FreshFor(cb', cache')
  BY DEF FreshInv
<1>4. /\ cb' = after.cb
      /\ cache' = invalidate_cache_after_play(after.cb, past, after.stones_removed, after.rem_nei_libs)
  BY DEF HeavyPlay
<1>5. after.cb = s.cb /\ after.stones_removed = removed /\ after.rem_nei_libs = s.libs
  BY DEF just_play3
<1> DEFINE new == invalidate_cache_after_play(s.cb, past, removed, s.libs)
<1>6. cb' = s.cb /\ cache' = new
  BY <1>4, <1>5
<1>7. FreshFor(s.cb, new)
  <2> HIDE DEF caches
  <2> QED
    BY <1>1, <1>3, PlayFresh
<1> HIDE DEF s, new
<1> QED
  BY <1>6, <1>7

LEMMA FreshInvInit == Init => FreshInv
BY DEF Init, FreshInv

LEMMA FreshInvStep ==
  ASSUME UpdateInv, FreshInv, [Next]_vars
  PROVE  FreshInv'
<1>1. CASE \E m \in Point : TreePlay(m)
  BY <1>1 DEF TreePlay, FreshInv
<1>2. CASE TreePass
  BY <1>2 DEF TreePass, FreshInv
<1>3. CASE StartPlayout
  <2>1. cache' = [c \in Player |-> AllDirty]
    BY <1>3 DEF StartPlayout
  <2> QED
    BY <2>1 DEF FreshInv, FreshFor, Fresh, AllDirty, Dirty
<1>4. CASE HeavyTurn
  <2>1. phase = "playout"
    BY <1>4 DEF HeavyTurn
  <2>2. PICK known \in Refreshed(cb, colour, cache[colour]) :
          HeavyPass(known) \/ \E m \in Point : HeavyPlay(known, m)
    BY <1>4 DEF HeavyTurn
  <2> QED
    BY <2>1, <2>2, HeavyPassFresh, HeavyPlayFresh
<1>5. CASE OutOfDepth
  BY <1>5 DEF FreshInv, OutOfDepth
<1>6. CASE UNCHANGED vars
  BY <1>6 DEF FreshInv, vars, playoutVars
<1> QED
  BY <1>1, <1>2, <1>3, <1>4, <1>5, <1>6 DEF Next

\* On any board, through any plays, captures and passes of a playout, what the cache of
\* the player to play says of a point, and is not marked dirty, is what heavy_select_play
\* would find on the board: a play changes what is legal, safe or an eye only where
\* invalidate_cache_after_play says, and the ko only where it was or is.
THEOREM CacheIsFresh == Spec => []CacheFresh
<1>1. Init => UpdateInv /\ FreshInv
  BY UpdateInvInit, FreshInvInit
<1>2. UpdateInv /\ FreshInv /\ [Next]_vars => (UpdateInv /\ FreshInv)'
  BY UpdateInvStep, FreshInvStep
<1>3. UpdateInv /\ FreshInv => CacheFresh
  BY CacheImplied
<1> QED
  BY <1>1, <1>2, <1>3, PTL DEF Spec

-----------------------------------------------------------------------------
(* The plays of a playout. *)
\* The last stone played stands.
LastInv == LastStands(cb)

LEMMA LastInvInit == Init => LastInv
<1> SUFFICES ASSUME Init PROVE LastInv
  OBVIOUS
<1>1. PICK s \in Starts : cb = cfg_from_board(s.board)
  BY DEF Init
<1>2. LastStands(s.board) /\ s.board \in Board
  BY PlayoutAssumption DEF OfMatch
<1>3. cb.p = s.board.p /\ cb.last_played = s.board.last_played
  BY <1>1, <1>2, CopyKeeps
<1> QED
  BY <1>2, <1>3 DEF LastInv, LastStands

LEMMA LastInvStep ==
  ASSUME UpdateInv, LastInv, [Next]_vars
  PROVE  LastInv'
<1>1. Kept(cb, cb.p) /\ cb.empty = FreeOf(cb.p) /\ colour \in Player
  BY DEF UpdateInv
<1>2. CASE cb'.p = cb.p /\ cb'.last_played = cb.last_played
  BY <1>2 DEF LastInv, LastStands
<1>3. CASE cb' = just_pass(cb)
  <2>1. cb'.last_played = PASS
    BY <1>1, <1>3, PassKeeps
  <2> QED
    BY <2>1, Marks DEF LastInv, LastStands
<1>4. ASSUME NEW m \in Point, cb.p[m] = EMPTY, cb' = Play(cb, colour, m).cb
      PROVE  LastInv'
  <2>1. cb'.last_played = m /\ cb'.p = Leaves(cb.p, colour, m)
    BY <1>1, <1>4, PlayKeeps, PlayTells
  <2>2. cb.p \in [Point -> Stones]
    BY <1>1, FastBoardTyped DEF Kept
  <2>3. cb'.p[m] = colour
    BY <1>1, <1>4, <2>1, <2>2, LeftAt
  <2> QED
    BY <1>1, <2>1, <2>3, Marks DEF LastInv, LastStands
<1> QED
  BY <1>2, <1>3, <1>4, BoardSteps

\* The playout's reasons not to play, of a free point: its play is illegal, in an own eye,
\* or puts itself in atari beside a stone of its own.
LEMMA StuckPoint ==
  ASSUME NEW b, Kept(b, b.p), NEW c \in Player, KoAgainst(b, c),
         NEW n \in Point, b.p[n] = EMPTY,
         NEW known, "legal" \notin known[n],
         known[n] = Status(b, c, n) \/ (known[n] = {} /\ SelfAtari(b, c, n)),
         NEW after, after = just_play_slow2(Slow(b), c, n).p
  PROVE  \/ ~can_play_slow(Slow(b), c, n)
         \/ is_eye(b, c, n)
         \/ /\ Cardinality(Liberties(after, Chain(after, n))) = 1
            /\ \E x \in neighbors_side[n] : b.p[x] = c
<1> DEFINE E == ExactLiberties(b.p, c, n)
<1>1. b.p \in [Point -> Stones]
  BY FastBoardTyped DEF Kept
<1>2. /\ can_play_slow(Slow(b), c, n) <=> get_ko_play(b) # n /\ E # {}
      /\ safe_to_play(b, c, n) = 0 <=> E = {}
      /\ safe_to_play(b, c, n) = 1 => Cardinality(E) = 1
  BY LegalByLiberties
<1> HIDE DEF E
<1>3. CASE Unplayable(b, c, n)
  BY <1>2, <1>3 DEF Unplayable
<1>4. CASE SelfAtari(b, c, n)
  <2>1. Cardinality(E) = 1
    BY <1>2, <1>4 DEF SelfAtari
  <2>2. Liberties(after, Chain(after, n)) = E
    BY <1>1, SlowPlayLeaves, LibertiesLeft DEF LibertiesAt, E
  <2>3. \E x \in neighbors_side[n] : b.p[x] = c
    <3> SUFFICES ASSUME \A x \in neighbors_side[n] : b.p[x] # c PROVE FALSE
      OBVIOUS
    <3>1. StonesIn(neighbors_side[n], b.p, c) = {}
      BY DEF StonesIn
    <3>2. b.neighbors4[c][n] = Cardinality(StonesIn(neighbors_side[n], b.p, c))
      BY DEF Kept, Around
    <3>3. b.neighbors4[c][n] = 0
      BY <3>1, <3>2, FS_EmptySet
    <3> QED
      BY <1>4, <3>3 DEF SelfAtari
  <2> QED
    BY <2>1, <2>2, <2>3
<1>5. CASE ~Unplayable(b, c, n) /\ known[n] = Status(b, c, n)
  BY <1>5 DEF Status
<1> QED
  BY <1>3, <1>4, <1>5

\* A pass is selected when no play is known to be legal.
LEMMA PassSelected ==
  ASSUME NEW b, Kept(b, b.p), b.empty = FreeOf(b.p), LastStands(b),
         NEW c, NEW known, PASS \in Selected(b, c, known)
  PROVE  \A n \in Point : b.p[n] = EMPTY => "legal" \notin known[n]
<1>1. \A h \in DOMAIN b.group : b.group[h].neighbors \subseteq DOMAIN b.group
  BY DEF Kept, Reckoned, Bordered
<1>2. \A h \in DOMAIN b.group : b.group[h].liberties = 1 => get_1st_liberty(b.group[h]) \in Point
  BY AtariLiberty
<1>3. PASS \notin Saving(b, known)
  <2>1. CASE b.last_played \notin Point
    BY <2>1 DEF Saving
  <2>2. CASE b.last_played \in Point
    <3> DEFINE weak == {h \in GroupAt(b, b.last_played).neighbors : b.group[h].liberties = 1}
               saves == {get_1st_liberty(b.group[h]) : h \in weak}
               beside == UNION {b.group[w].neighbors : w \in weak}
               kills == {get_1st_liberty(b.group[h]) : h \in {k \in beside : b.group[k].liberties = 1}}
    <3>1. Saving(b, known) = {m \in saves : "safe" \in known[m]} \cup {m \in kills : "legal" \in known[m]}
      BY <2>2 DEF Saving
    <3>2. b.g[b.last_played] \in DOMAIN b.group
      BY <2>2, GroupOfStone DEF LastStands
    <3>3. weak \subseteq DOMAIN b.group
      BY <1>1, <3>2 DEF GroupAt
    <3>4. saves \subseteq Point
      BY <1>2, <3>3
    <3>5. beside \subseteq DOMAIN b.group
      <4> HIDE DEF weak
      <4> QED
        BY <1>1, <3>3
    <3>6. kills \subseteq Point
      <4> HIDE DEF beside
      <4> QED
        BY <1>2, <3>5
    <3> HIDE DEF saves, kills
    <3> QED
      BY <3>1, <3>4, <3>6, Marks
  <2> QED
    BY <2>1, <2>2
<1>4. PASS \notin Capturing(b, c, known)
  <2>1. ToSet(b.unique_groups) \subseteq DOMAIN b.group
    BY DEF Kept, Grouped, Indexed, ToSet
  <2>2. \A h \in ToSet(b.unique_groups) : GroupAt(b, h) = b.group[h]
    BY <2>1 DEF GroupAt, Kept, Grouped, Owned
  <2> DEFINE S == {k \in ToSet(b.unique_groups) : GroupAt(b, k).colour # c /\ GroupAt(b, k).liberties = 1}
  <2>3. \A h \in S : get_1st_liberty(b.group[h]) \in Point
    BY <1>2, <2>1, <2>2
  <2>4. Capturing(b, c, known) \subseteq {get_1st_liberty(b.group[h]) : h \in S}
    BY DEF Capturing
  <2> HIDE DEF S
  <2> QED
    BY <2>3, <2>4, Marks
<1>5. PASS \notin Patterns(b, known)
  BY NeighborsAreMutual, Marks DEF Patterns
<1> DEFINE legal == {m \in b.empty : "legal" \in known[m]}
<1>6. PASS \in IF legal = {} THEN {PASS} ELSE legal
  BY <1>3, <1>4, <1>5 DEF Selected
<1>7. legal \subseteq Point
  BY DEF FreeOf
<1>8. legal = {}
  <2> HIDE DEF legal
  <2> QED
    BY <1>6, <1>7, Marks
<1> QED
  BY <1>8 DEF FreeOf

\* What a turn of a playout does, as the rules have it.
PlaysLegally ==
  phase = "playout" /\ cb'.p # cb.p =>
    LET m == cb'.last_played IN
    can_play_slow(SlowBoard, colour, m) /\ ~is_eye(cb, colour, m)

PassesStuck ==
  phase = "playout" /\ phase' = "playout" /\ cb'.last_played = PASS =>
    \A m \in Empties :
      \/ ~can_play_slow(SlowBoard, colour, m)
      \/ is_eye(cb, colour, m)
      \/ LET after == just_play_slow2(SlowBoard, colour, m).p IN
         /\ Cardinality(Liberties(after, Chain(after, m))) = 1
         /\ \E n \in neighbors_side[m] : cb.p[n] = colour

LEMMA HeavyPlayLegal ==
  ASSUME UpdateInv, KoInv, FreshInv, phase = "playout",
         NEW known \in Refreshed(cb, colour, cache[colour]),
         NEW m \in Point, HeavyPlay(known, m)
  PROVE  PlaysLegally /\ PassesStuck
<1>1. Kept(cb, cb.p) /\ cb.empty = FreeOf(cb.p) /\ colour \in Player
  BY DEF UpdateInv
<1>2. m \in Selected(cb, colour, known) \ {PASS} /\ cb' = Play(cb, colour, m).cb
  BY DEF HeavyPlay, just_play3
<1>3. Fits(known, cb.p)
  BY TurnKnows
<1>4. cb.p[m] = EMPTY /\ ("legal" \in known[m] \/ "safe" \in known[m])
  BY <1>1, <1>2, <1>3, SelectedFree, SelectedKnown
<1>5. cb'.last_played = m
  BY <1>1, <1>2, <1>4, PlayKeeps
<1>6. known[m] = Status(cb, colour, m)
  BY <1>4, TurnFresh
<1>7. ~Unplayable(cb, colour, m)
  BY <1>4, <1>6 DEF Status
<1>8. KoAgainst(cb, colour)
  BY DEF KoInv
<1>9. can_play_slow(Slow(cb), colour, m)
  BY <1>1, <1>4, <1>7, <1>8, LegalByLiberties DEF Unplayable
<1>10. Slow(cb) = SlowBoard /\ ~is_eye(cb, colour, m)
  BY <1>7 DEF Slow, SlowBoard, Unplayable
<1>11. m # PASS
  BY Marks
<1> QED
  BY <1>5, <1>9, <1>10, <1>11 DEF PlaysLegally, PassesStuck

LEMMA HeavyPassStuck ==
  ASSUME UpdateInv, KoInv, FreshInv, LastInv, phase = "playout",
         NEW known \in Refreshed(cb, colour, cache[colour]), HeavyPass(known)
  PROVE  PlaysLegally /\ PassesStuck
<1>1. Kept(cb, cb.p) /\ cb.empty = FreeOf(cb.p) /\ colour \in Player
  BY DEF UpdateInv
<1>2. PASS \in Selected(cb, colour, known) /\ (cb' = cb \/ cb' = just_pass(cb))
  BY DEF HeavyPass
<1>3. cb'.p = cb.p
  BY <1>1, <1>2, PassKeeps
<1>4. Slow(cb) = SlowBoard /\ KoAgainst(cb, colour)
  BY DEF Slow, SlowBoard, KoInv
<1>5. \A n \in Point : cb.p[n] = EMPTY =>
        /\ "legal" \notin known[n]
        /\ known[n] = Status(cb, colour, n) \/ (known[n] = {} /\ SelfAtari(cb, colour, n))
  BY <1>1, <1>2, PassSelected, TurnFresh DEF LastInv
<1>6. ASSUME NEW n \in Empties
      PROVE  \/ ~can_play_slow(SlowBoard, colour, n)
             \/ is_eye(cb, colour, n)
             \/ LET after == just_play_slow2(SlowBoard, colour, n).p IN
                /\ Cardinality(Liberties(after, Chain(after, n))) = 1
                /\ \E x \in neighbors_side[n] : cb.p[x] = colour
  <2>1. n \in Point /\ cb.p[n] = EMPTY
    BY DEF Empties
  <2>2. /\ "legal" \notin known[n]
        /\ known[n] = Status(cb, colour, n) \/ (known[n] = {} /\ SelfAtari(cb, colour, n))
    BY <1>5, <2>1
  <2> QED
    BY <1>1, <1>4, <2>1, <2>2, StuckPoint
<1>7. PlaysLegally
  BY <1>3 DEF PlaysLegally
<1>8. PassesStuck
  BY <1>6 DEF PassesStuck
<1> QED
  BY <1>7, <1>8

LEMMA StepPlays ==
  ASSUME UpdateInv, KoInv, FreshInv, LastInv, [Next]_vars
  PROVE  [PlaysLegally]_vars /\ [PassesStuck]_vars
<1>1. CASE phase # "playout"
  BY <1>1 DEF PlaysLegally, PassesStuck
<1>2. CASE phase = "playout" /\ phase' = "over" /\ cb' = cb
  BY <1>2 DEF PlaysLegally, PassesStuck
<1>3. CASE HeavyTurn
  <2>1. phase = "playout"
    BY <1>3 DEF HeavyTurn
  <2>2. PICK known \in Refreshed(cb, colour, cache[colour]) :
          HeavyPass(known) \/ \E m \in Point : HeavyPlay(known, m)
    BY <1>3 DEF HeavyTurn
  <2> QED
    BY <2>1, <2>2, HeavyPassStuck, HeavyPlayLegal
<1>4. CASE OutOfDepth
  BY <1>2, <1>4 DEF OutOfDepth
<1>5. CASE \/ \E m \in Point : TreePlay(m)
           \/ TreePass
           \/ StartPlayout
  BY <1>1, <1>5 DEF TreePlay, TreePass, StartPlayout
<1>6. CASE UNCHANGED vars
  BY <1>6
<1> QED
  BY <1>3, <1>4, <1>5, <1>6 DEF Next

\* On any board a playout plays by the rules of the slow board and not in its own eyes, and
\* passes only when every play left is illegal, in an own eye, or puts itself in atari: a
\* play is chosen from a cache, filled some plays before, and what the cache says still holds.
THEOREM PlayoutsPlay == Spec => PlayoutPlays
<1> DEFINE Inv == UpdateInv /\ KoInv /\ FreshInv /\ LastInv
<1>1. Init => Inv
  BY UpdateInvInit, KoInvInit, FreshInvInit, LastInvInit
<1>2. Inv /\ [Next]_vars => Inv'
  BY UpdateInvStep, KoInvStep, FreshInvStep, LastInvStep
<1>3. Inv /\ [Next]_vars => [PlaysLegally]_vars /\ [PassesStuck]_vars
  BY StepPlays
<1>4. Spec => [][PlaysLegally]_vars /\ [][PassesStuck]_vars
  <2> HIDE DEF Inv
  <2> QED
    BY <1>1, <1>2, <1>3, PTL DEF Spec
<1>5. [][PlaysLegally]_vars => PlayoutPlaysLegal
  BY DEF PlaysLegally, PlayoutPlaysLegal
<1>6. [][PassesStuck]_vars => PassesWhenStuck
  BY DEF PassesStuck, PassesWhenStuck
<1> QED
  BY <1>4, <1>5, <1>6 DEF PlayoutPlays

-----------------------------------------------------------------------------
(* Stones on the board have liberties; types. *)
\* A simulation plays only what leaves itself a liberty.
LEMMA PlaysWithLiberties ==
  ASSUME UpdateInv, FreshInv, [Next]_vars
  PROVE  \/ cb'.p = cb.p
         \/ \E m \in Point : /\ cb.p[m] = EMPTY /\ ExactLiberties(cb.p, colour, m) # {}
                             /\ cb'.p = Leaves(cb.p, colour, m)
<1>1. Kept(cb, cb.p) /\ cb.empty = FreeOf(cb.p) /\ colour \in Player
  BY DEF UpdateInv
<1>2. CASE cb' = cb \/ cb' = just_pass(cb)
  BY <1>1, <1>2, PassKeeps
<1>3. ASSUME NEW m \in Point, cb.p[m] = EMPTY, ExactLiberties(cb.p, colour, m) # {},
             cb' = Play(cb, colour, m).cb
      PROVE  \E n \in Point : /\ cb.p[n] = EMPTY /\ ExactLiberties(cb.p, colour, n) # {}
                              /\ cb'.p = Leaves(cb.p, colour, n)
  BY <1>1, <1>3, PlayTells
<1>4. ASSUME NEW m \in Point, TreePlay(m)
      PROVE  \E n \in Point : /\ cb.p[n] = EMPTY /\ ExactLiberties(cb.p, colour, n) # {}
                              /\ cb'.p = Leaves(cb.p, colour, n)
  <2>1. m \in cb.empty /\ libs_after_play(cb, colour, m).libs > 0 /\ cb' = Play(cb, colour, m).cb
    BY <1>4 DEF TreePlay, just_play2
  <2>2. cb.p[m] = EMPTY
    BY <1>1, <2>1 DEF FreeOf
  <2>3. ExactLiberties(cb.p, colour, m) # {}
    <3>1. libs_after_play(cb, colour, m).libs = Cardinality(ExactLiberties(cb.p, colour, m))
      BY <1>1, <2>2, LibsAfterIsExact
    <3> QED
      BY <2>1, <3>1, FS_EmptySet
  <2> QED
    BY <1>3, <2>1, <2>2, <2>3
<1>5. CASE TreePass
  BY <1>2, <1>5 DEF TreePass
<1>6. CASE StartPlayout
  <2>1. PICK points \in {{}, cb.empty \ {get_ko_play(cb)}} : cb' = Examined(cb, colour, points)
    BY <1>6 DEF StartPlayout
  <2>2. points \in SUBSET Point
    BY <1>1, <2>1 DEF FreeOf
  <2> QED
    BY <1>1, <2>1, <2>2, ExaminedKeeps
<1>7. CASE HeavyTurn
  <2>1. phase = "playout"
    BY <1>7 DEF HeavyTurn
  <2>2. PICK known \in Refreshed(cb, colour, cache[colour]) :
          HeavyPass(known) \/ \E m \in Point : HeavyPlay(known, m)
    BY <1>7 DEF HeavyTurn
  <2>3. CASE HeavyPass(known)
    BY <1>2, <2>3 DEF HeavyPass
  <2>4. ASSUME NEW m \in Point, HeavyPlay(known, m)
        PROVE  \E n \in Point : /\ cb.p[n] = EMPTY /\ ExactLiberties(cb.p, colour, n) # {}
                                /\ cb'.p = Leaves(cb.p, colour, n)
    <3>1. m \in Selected(cb, colour, known) \ {PASS} /\ cb' = Play(cb, colour, m).cb
      BY <2>4 DEF HeavyPlay, just_play3
    <3>2. Fits(known, cb.p)
      BY <2>1, <2>2, TurnKnows
    <3>3. cb.p[m] = EMPTY /\ ("legal" \in known[m] \/ "safe" \in known[m])
      BY <1>1, <3>1, <3>2, SelectedFree, SelectedKnown
    <3>4. known[m] = Status(cb, colour, m)
      BY <2>1, <2>2, <3>3, TurnFresh
    <3>5. safe_to_play(cb, colour, m) # 0
      BY <3>3, <3>4 DEF Status, Unplayable
    <3>6. ExactLiberties(cb.p, colour, m) # {}
      <4>1. safe_to_play(cb, colour, m) = Lower(Cardinality(ExactLiberties(cb.p, colour, m)), 2)
        BY <1>1, <3>3, SafeIsExact
      <4> QED
        BY <3>5, <4>1, FS_EmptySet DEF Lower
    <3> QED
      BY <1>3, <3>1, <3>3, <3>6
  <2> QED
    BY <2>2, <2>3, <2>4
<1>8. CASE OutOfDepth
  BY <1>2, <1>8 DEF OutOfDepth
<1>9. CASE UNCHANGED vars
  BY <1>2, <1>9 DEF vars
<1> QED
  BY <1>4, <1>5, <1>6, <1>7, <1>8, <1>9 DEF Next

AliveInv == Alive(cb.p)

LEMMA AliveInvInit == Init => AliveInv
<1> SUFFICES ASSUME Init PROVE AliveInv
  OBVIOUS
<1>1. PICK s \in Starts : cb = cfg_from_board(s.board)
  BY DEF Init
<1>2. s.board \in Board /\ \A m \in Point : s.board.p[m] # EMPTY => is_alive(s.board.p, m)
  BY PlayoutAssumption DEF OfMatch
<1>3. cb.p = s.board.p
  BY <1>1, <1>2, CopyKeeps
<1> QED
  BY <1>2, <1>3, LibertiesOfChain DEF AliveInv, Alive

LEMMA AliveInvStep ==
  ASSUME UpdateInv, FreshInv, AliveInv, [Next]_vars
  PROVE  AliveInv'
<1>1. cb.p \in [Point -> Stones] /\ colour \in Player
  BY FastBoardTyped DEF UpdateInv, Kept
<1> QED
  BY <1>1, PlaysWithLiberties, PlayLeavesAlive DEF AliveInv

\* What a simulation keeps beside the board.
CountersInv ==
  /\ phase \in {"tree", "playout", "over"}
  /\ diff \in Int /\ depth_max \in Nat /\ tree_plays \in 0..MaxTreePlays
  /\ outcome # NONE <=> phase = "over"

LEMMA TypesImplied ==
  ASSUME UpdateInv, AliveInv, CountersInv
  PROVE  TypeOK
<1>1. Kept(cb, cb.p) /\ cb.empty = FreeOf(cb.p) /\ cache \in CacheType /\ colour \in Player
  BY DEF UpdateInv
<1>2. \A m \in Point : (cb.p[m] = EMPTY) = (cb.g[m] = NONE)
  <2>1. \A m \in Point : cb.g[m] = NONE <=> cb.p[m] = EMPTY
    BY <1>1 DEF Kept, Grouped, Owned
  <2> QED
    BY <2>1
<1>3. \A m \in Point \ Empties :
        LET g == GroupAt(cb, m) IN
        /\ g.colour = cb.p[m]
        /\ g.liberties > 0 /\ g.liberties_min_coord \in Point
        /\ cb.unique_groups[g.unique_groups_idx] = cb.g[m]
        /\ \A s \in g.stones : cb.g[s] = cb.g[m]
  BY <1>1, GroupsVerified DEF AliveInv, Empties
<1>4. \A c \in Player : cb.neighbors4[c] \in [Point -> 0..4] /\ cb.neighbors8[c] \in [Point -> 0..8]
  BY <1>1, CountsTyped
<1>5. cb.last_eaten \in Point \cup {NONE} /\ cb.last_played \in Point \cup {NONE, PASS}
  BY <1>1, FastBoardTyped DEF Kept
<1>6. cb.empty \subseteq Point
  BY <1>1 DEF FreeOf
<1>7. (outcome # NONE) = (phase = "over")
  BY DEF CountersInv
<1> QED
  BY <1>1, <1>2, <1>3, <1>4, <1>5, <1>6, <1>7 DEF TypeOK, CacheType, CountersInv

\* Differences of stones, and of points, are numbers.
LEMMA ScoresTyped ==
  ASSUME NEW q
  PROVE  stone_diff(q) \in Int /\ score_stones_and_area(q) \in Int /\ Komi \div 2 \in Int
<1>1. \A S \in SUBSET Point : Cardinality(S) \in Int
  BY PointsAreFinite
<1>2. stone_diff(q) \in Int
  <2>1. StonesOf("black", q) \in SUBSET Point /\ StonesOf("white", q) \in SUBSET Point
    BY DEF StonesOf
  <2> QED
    BY <1>1, <2>1 DEF stone_diff
<1>3. Komi \in Nat
  BY PlayoutAssumption
<1>4. score_stones_and_area(q) \in Int
  <2> DEFINE Touches(m, c) == \E n \in Chain(q, m) : \E a \in neighbors_side[n] : q[a] = c
             Area(c) == {m \in Point : \/ q[m] = c
                                       \/ q[m] = EMPTY /\ Touches(m, c) /\ ~Touches(m, Opponent(c))}
             x == Cardinality(Area("black"))
             y == Cardinality(Area("white"))
  <2>1. x \in Int /\ y \in Int
    BY <1>1
  <2>2. score_stones_and_area(q) = 2 * (x - y) - Komi
    BY DEF score_stones_and_area
  <2> HIDE DEF x, y
  <2> QED
    BY <1>3, <2>1, <2>2
<1> QED
  BY <1>2, <1>3, <1>4

LEMMA CountersInvInit == Init => CountersInv
BY PlayoutAssumption DEF Init, CountersInv

LEMMA CountersInvStep ==
  ASSUME UpdateInv, CountersInv, [Next]_vars
  PROVE  CountersInv'
<1>1. /\ NONE \notin Int /\ MaxTreePlays \in Nat /\ score_stones_and_area(cb.p) \in Int
      /\ stone_diff(cb.p) - Komi \div 2 \in Int
  BY PlayoutAssumption, ScoresTyped
<1>2. Kept(cb, cb.p) /\ cb.empty = FreeOf(cb.p) /\ colour \in Player /\ cb.p \in [Point -> Stones]
  BY FastBoardTyped DEF UpdateInv, Kept
<1>3. ASSUME NEW m \in Point, TreePlay(m) PROVE CountersInv'
  BY <1>1, <1>3 DEF TreePlay, CountersInv, playoutVars
<1>4. CASE TreePass
  BY <1>1, <1>4 DEF TreePass, CountersInv, playoutVars
<1>5. CASE StartPlayout
  <2>1. MAX_PLAYOUT_DEPTH_OVER_EMPTY \in Nat
    BY PointsAreFinite DEF MAX_PLAYOUT_DEPTH_OVER_EMPTY
  <2>2. Cardinality(cb.empty) \in Nat
    BY <1>2, PointsAreFinite DEF FreeOf
  <2> QED
    BY <1>1, <1>5, <2>1, <2>2 DEF StartPlayout, CountersInv
<1>6. CASE HeavyTurn
  <2>1. phase = "playout" /\ depth_max' \in Nat /\ tree_plays' = tree_plays
    BY <1>6 DEF HeavyTurn, CountersInv
  <2>2. PICK known \in Refreshed(cb, colour, cache[colour]) :
          HeavyPass(known) \/ \E m \in Point : HeavyPlay(known, m)
    BY <1>6 DEF HeavyTurn
  <2>3. CASE HeavyPass(known)
    BY <1>1, <2>1, <2>3 DEF HeavyPass, CountersInv
  <2>4. ASSUME NEW m \in Point, HeavyPlay(known, m) PROVE CountersInv'
    <3> DEFINE after == just_play3(cb, colour, m, diff)
               s == Play(cb, colour, m)
    <3>1. /\ m \in Selected(cb, colour, known) \ {PASS}
          /\ diff' = after.diff
          /\ (phase' = "over" /\ outcome' = after.diff) \/ (phase' = phase /\ outcome' = outcome)
      BY <2>4 DEF HeavyPlay
    <3>2. cb.p[m] = EMPTY
      <4>1. Fits(known, cb.p)
        BY <2>1, <2>2, TurnKnows
      <4> QED
        BY <1>2, <3>1, <4>1, SelectedFree
    <3>3. s.captures \in Nat
      <4>1. \E K \in SUBSET Point : s.captures = Cardinality(K)
        BY <1>2, <3>2, PlayKeeps
      <4> QED
        BY <4>1, PointsAreFinite
    <3>4. after.diff = IF colour = "black" THEN diff + (1 + s.captures) ELSE diff - (1 + s.captures)
      BY DEF just_play3
    <3> HIDE DEF after, s
    <3>5. after.diff \in Int
      BY <3>3, <3>4 DEF CountersInv
    <3> QED
      BY <1>1, <2>1, <3>1, <3>5 DEF CountersInv
  <2> QED
    BY <2>2, <2>3, <2>4
<1>7. CASE OutOfDepth
  BY <1>1, <1>7 DEF OutOfDepth, CountersInv, playoutVars
<1>8. CASE UNCHANGED vars
  BY <1>8 DEF CountersInv, vars, playoutVars
<1> QED
  BY <1>3, <1>4, <1>5, <1>6, <1>7, <1>8 DEF Next

\* On any board, what the code asserts of its groups around every operation holds after
\* any plays of a simulation: each belongs to its stones, is where its index says, and has
\* a liberty, as no play is made that leaves a stone without one.
THEOREM TypeCorrect == Spec => []TypeOK
<1> DEFINE Inv == UpdateInv /\ FreshInv /\ AliveInv /\ CountersInv
<1>1. Init => Inv
  BY UpdateInvInit, FreshInvInit, AliveInvInit, CountersInvInit
<1>2. Inv /\ [Next]_vars => Inv'
  BY UpdateInvStep, FreshInvStep, AliveInvStep, CountersInvStep
<1>3. Inv => TypeOK
  BY TypesImplied
<1> QED
  BY <1>1, <1>2, <1>3, PTL DEF Spec
=============================================================================
