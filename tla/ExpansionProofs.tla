--------------------------- MODULE ExpansionProofs ----------------------------
(***************************************************************************)
(* Proofs of the properties of Expansion, for any size of the board the    *)
(* program accepts, any states of a match to start from, any order of the  *)
(* points, any addresses that differ and whatever is read of attacks and   *)
(* defences.  What they need of the fast board is in CfgBoardProofs.       *)
(***************************************************************************)
EXTENDS Expansion, CfgBoardProofs

-----------------------------------------------------------------------------
(***************************************************************************)
(* The board of a state of the tree.                                       *)
(***************************************************************************)
PlaysFromFree == phase = "expanded" => DOMAIN stats \subseteq cb.empty \cup {PASS}

BoardInv ==
  /\ colour \in Player /\ phase \in {"new", "expanded", "over"} /\ plays \in 0..MaxPlays
  /\ Kept(cb, cb.p) /\ cb.empty = FreeOf(cb.p)
  /\ phase # "over" => KoAgainst(cb, colour)
  /\ PlaysFromFree

LEMMA BoardInvInit == Init => BoardInv
<1> SUFFICES ASSUME Init PROVE BoardInv
  OBVIOUS
<1>1. PICK s \in Starts : cb = cfg_from_board(s.board) /\ colour = s.colour
  BY DEF Init
<1>2. /\ s.colour \in Player /\ s.board \in Board /\ KoAgainst(s.board, s.colour)
      /\ MaxPlays \in Nat
  BY ExpansionAssumption DEF OfMatch
<1>3. /\ Kept(cb, cb.p) /\ cb.p = s.board.p /\ cb.empty = {m \in Point : cb.p[m] = EMPTY}
      /\ cb.last_played = s.board.last_played /\ cb.last_eaten = s.board.last_eaten
  BY <1>1, <1>2, CopyKeeps
<1>4. KoAgainst(cb, colour)
  BY <1>1, <1>2, <1>3 DEF KoAgainst
<1>5. phase = "new" /\ plays = 0
  BY DEF Init
<1> QED
  BY <1>1, <1>2, <1>3, <1>4, <1>5 DEF BoardInv, PlaysFromFree, FreeOf

LEMMA CandidatesFree ==
  ASSUME NEW b, b.empty = FreeOf(b.p), NEW e
  PROVE  Candidates(b, e) \in SUBSET Point /\ \A m \in Candidates(b, e) : b.p[m] = EMPTY
BY DEF Candidates, FreeOf

\* What counting liberties leaves the board of.
LEMMA SameKoAgainst ==
  ASSUME NEW b, NEW c, KoAgainst(b, c), NEW d, d.p = b.p,
         d.last_played = b.last_played, d.last_eaten = b.last_eaten
  PROVE  KoAgainst(d, c)
BY DEF KoAgainst

\* What an expansion does.
LEMMA Expanded ==
  ASSUME Expand
  PROVE  /\ phase = "new" /\ phase' = "expanded" /\ colour' = colour /\ plays' = plays
         /\ \E order \in Orders, address \in Addresses, patterns \in {{}, Point} :
              /\ estimate' = estimate_eyes(cb, colour, order, address)
              /\ saving_play' = AtStake(cb, Saves(cb, colour, estimate'.eyes))
              /\ capturable' = AtStake(cb, Kills(cb, colour, estimate'.eyes))
              /\ stats' = Priors(cb, colour, estimate', saving_play', capturable', patterns)
              /\ cb' = Examined(cb, colour, Candidates(cb, estimate'))
<1>1. phase = "new" /\ phase' = "expanded" /\ colour' = colour /\ plays' = plays
  BY DEF Expand
<1>2. PICK e \in {estimate_eyes(cb, colour, order, address) :
                    order \in Orders, address \in Addresses} :
        \E saves \in {AtStake(cb, Saves(cb, colour, e.eyes))},
           captures \in {AtStake(cb, Kills(cb, colour, e.eyes))},
           patterns \in {{}, Point} :
          /\ estimate' = e
          /\ saving_play' = saves
          /\ capturable' = captures
          /\ stats' = Priors(cb, colour, e, saves, captures, patterns)
          /\ cb' = Examined(cb, colour, Candidates(cb, e))
  BY DEF Expand
<1>3. PICK order \in Orders, address \in Addresses : e = estimate_eyes(cb, colour, order, address)
  BY <1>2
<1>4. PICK patterns \in {{}, Point} :
      /\ estimate' = estimate_eyes(cb, colour, order, address)
      /\ saving_play' = AtStake(cb, Saves(cb, colour, estimate'.eyes))
      /\ capturable' = AtStake(cb, Kills(cb, colour, estimate'.eyes))
      /\ stats' = Priors(cb, colour, estimate', saving_play', capturable', patterns)
      /\ cb' = Examined(cb, colour, Candidates(cb, estimate'))
  BY <1>2, <1>3
<1> QED
  BY <1>1, <1>4

\* What a state offers, the pass too.
AllOffered(b, c, e) ==
  Offered(b, c, e) \cup {n \in {PASS} : PassOffered(b, Offered(b, c, e))}

LEMMA DomainOfPriors ==
  ASSUME NEW b, NEW c, NEW e, NEW saves, NEW captures, NEW patterns
  PROVE  DOMAIN Priors(b, c, e, saves, captures, patterns) = AllOffered(b, c, e)
BY DEF Priors, AllOffered

LEMMA BoardInvStep == BoardInv /\ [Next]_vars => BoardInv'
<1> SUFFICES ASSUME BoardInv, [Next]_vars PROVE BoardInv'
  OBVIOUS
<1>1. /\ colour \in Player /\ plays \in 0..MaxPlays /\ MaxPlays \in Nat
      /\ Kept(cb, cb.p) /\ cb.empty = FreeOf(cb.p) /\ PlaysFromFree
      /\ phase # "over" => KoAgainst(cb, colour)
  BY ExpansionAssumption DEF BoardInv
<1>2. CASE Expand
  <2> DEFINE points == Candidates(cb, estimate')
  <2>1. /\ phase = "new" /\ phase' = "expanded" /\ colour' = colour /\ plays' = plays
        /\ cb' = Examined(cb, colour, points)
    BY <1>2, Expanded
  <2>2. points \in SUBSET Point
    BY <1>1, CandidatesFree
  <2>3. /\ Kept(cb', cb'.p) /\ cb'.p = cb.p /\ cb'.empty = cb.empty
        /\ cb'.last_played = cb.last_played /\ cb'.last_eaten = cb.last_eaten
    <3> HIDE DEF points
    <3> QED
      BY <1>1, <2>1, <2>2, ExaminedKeeps
  <2>4. KoAgainst(cb', colour')
    BY <1>1, <2>1, <2>3, SameKoAgainst
  <2>5. PlaysFromFree'
    <3>1. DOMAIN stats' = AllOffered(cb, colour, estimate')
      <4>1. PICK patterns \in {{}, Point} :
              stats' = Priors(cb, colour, estimate', saving_play', capturable', patterns)
        BY <1>2, Expanded
      <4> QED
        BY <4>1, DomainOfPriors
    <3>2. Offered(cb, colour, estimate') \subseteq cb.empty
      BY DEF Offered, Candidates
    <3> QED
      BY <2>3, <3>1, <3>2 DEF PlaysFromFree, AllOffered
  <2> QED
    BY <1>1, <2>1, <2>3, <2>4, <2>5 DEF BoardInv
<1>3. ASSUME NEW m \in Point \cup {PASS}, Select(m) PROVE BoardInv'
  <2>1. /\ phase = "expanded" /\ plays < MaxPlays /\ plays' = plays + 1
        /\ m \in DOMAIN stats
    BY <1>3 DEF Select
  <2>2. plays' \in 0..MaxPlays /\ Opponent(colour) \in Player
    BY <1>1, <2>1, Marks
  <2>3. CASE m = PASS /\ cb.last_played = PASS
    <3>1. phase' = "over" /\ cb' = cb /\ colour' = colour
      BY <1>3, <2>3 DEF Select
    <3> QED
      BY <1>1, <2>2, <3>1 DEF BoardInv, PlaysFromFree
  <2>4. CASE m = PASS /\ cb.last_played # PASS
    <3>1. phase' = "new" /\ cb' = just_pass(cb) /\ colour' = Opponent(colour)
      BY <1>3, <2>4 DEF Select
    <3>2. /\ Kept(cb', cb'.p) /\ cb'.p = cb.p /\ cb'.empty = cb.empty
          /\ cb'.last_eaten = NONE
      BY <1>1, <3>1, PassKeeps
    <3>3. KoAgainst(cb', colour')
      BY <3>2, Marks DEF KoAgainst
    <3> QED
      BY <1>1, <2>2, <3>1, <3>2, <3>3 DEF BoardInv, PlaysFromFree
  <2>5. CASE m # PASS
    <3>1. phase' = "new" /\ cb' = Play(cb, colour, m).cb /\ colour' = Opponent(colour)
      BY <1>3, <2>5 DEF Select, just_play
    <3>2. m \in Point /\ cb.p[m] = EMPTY
      BY <1>1, <2>1, <2>5 DEF PlaysFromFree, FreeOf
    <3>3. Kept(cb', cb'.p) /\ cb'.empty = FreeOf(cb'.p)
      BY <1>1, <3>1, <3>2, PlayKeeps
    <3>4. KoAgainst(cb', colour')
      BY <1>1, <3>1, <3>2, PlayLeavesKo
    <3> QED
      BY <1>1, <2>2, <3>1, <3>3, <3>4 DEF BoardInv, PlaysFromFree
  <2> QED
    BY <2>3, <2>4, <2>5
<1>4. CASE UNCHANGED vars
  BY <1>4 DEF BoardInv, PlaysFromFree, vars, tables, KoAgainst
<1> QED
  BY <1>2, <1>3, <1>4 DEF Next

-----------------------------------------------------------------------------
(***************************************************************************)
(* The plays offered.                                                      *)
(***************************************************************************)
\* The eyes of the player to play are all that is not viable.
Spares(b, c, e) == e.viable \subseteq Point /\ \A m \in Point \ e.viable : is_eye(b, c, m)

\* Legal plays are those that leave a liberty, but for the ko.
LEMMA LegalOffered ==
  ASSUME NEW b, Kept(b, b.p), NEW c \in Player, KoAgainst(b, c), NEW m \in Point, b.p[m] = EMPTY
  PROVE  can_play(b, c, m) <=> m # get_ko_play(b) /\ libs_after_play(b, c, m).libs > 0
<1> DEFINE L == ExactLiberties(b.p, c, m)
<1>1. can_play(b, c, m) <=> get_ko_play(b) # m /\ L # {}
  BY SameLegality, LegalByLiberties
<1>2. libs_after_play(b, c, m).libs = Cardinality(L)
  BY LibsAfterIsExact
<1>3. L \in SUBSET Point
  BY NeighborsAreMutual DEF ExactLiberties, FreeSides, LibertiesAt, Liberties, Captured, Chain
<1> HIDE DEF L
<1>4. Cardinality(L) \in Nat /\ (Cardinality(L) = 0 <=> L = {})
  BY <1>3, FewPoints
<1> QED
  BY <1>1, <1>2, <1>4

LEMMA OneTaken ==
  ASSUME NEW S \in SUBSET Point, NEW p
  PROVE  /\ S \ {p} \in SUBSET Point
         /\ Cardinality(S) \in Nat /\ Cardinality(S \ {p}) \in Nat
         /\ Cardinality(S) <= Cardinality(S \ {p}) + 1
<1>1. S \ {p} \in SUBSET Point /\ Cardinality(S) \in Nat
  BY FewPoints
<1>2. Cardinality(S \ {p}) \in Nat
  BY <1>1, FewPoints
<1>3. CASE p \in S
  <2>1. Cardinality(S \ {p}) = Cardinality(S) - 1
    BY <1>3, FewPoints
  <2> QED
    BY <1>1, <1>2, <2>1
<1>4. CASE p \notin S
  <2>1. S \ {p} = S
    BY <1>4
  <2> QED
    BY <1>1, <1>2, <2>1
<1> QED
  BY <1>3, <1>4

LEMMA ThreePoints ==
  ASSUME NEW S \in SUBSET Point, NEW p1, NEW p2, NEW p3, S \subseteq {p1, p2, p3}
  PROVE  Cardinality(S) <= 3
<1> DEFINE A == S \ {p1}
           B == A \ {p2}
           C == B \ {p3}
<1>1. C = {}
  OBVIOUS
<1>2. Cardinality(C) = 0
  BY <1>1, FS_EmptySet
<1>3. /\ A \in SUBSET Point /\ Cardinality(S) \in Nat /\ Cardinality(A) \in Nat
      /\ Cardinality(S) <= Cardinality(A) + 1
  BY OneTaken
<1> HIDE DEF A
<1>4. /\ B \in SUBSET Point /\ Cardinality(B) \in Nat /\ Cardinality(A) <= Cardinality(B) + 1
  BY <1>3, OneTaken
<1> HIDE DEF B
<1>5. Cardinality(B) <= Cardinality(C) + 1
  BY <1>4, OneTaken
<1> HIDE DEF C
<1> QED
  BY <1>2, <1>3, <1>4, <1>5

LEMMA AtTheEdge ==
  ASSUME NEW m \in Point, ~(distances_to_border[m] > 0)
  PROVE  out_neighbors4[m] > 0
<1> DEFINE S == {X(m), Y(m), BOARD_SIZ - 1 - X(m), BOARD_SIZ - 1 - Y(m)}
           N == neighbors_side[m]
<1>1. X(m) \in 0..(BOARD_SIZ - 1) /\ Y(m) \in 0..(BOARD_SIZ - 1) /\ BOARD_SIZ \in Nat
  BY Coordinates
<1>2. S \in SUBSET Nat /\ S # {}
  BY <1>1
<1>3. Lowest(S) \in S
  <2> HIDE DEF S
  <2>1. \E k \in S : \A n \in S : k <= n
    BY <1>2, LeastNumber
  <2> QED
    BY <2>1 DEF Lowest
<1>4. Lowest(S) = 0
  BY <1>2, <1>3 DEF distances_to_border
<1>5. ~(X(m) > 0 /\ X(m) < BOARD_SIZ - 1 /\ Y(m) > 0 /\ Y(m) < BOARD_SIZ - 1)
  BY <1>1, <1>3, <1>4
<1>6. \E p1, p2, p3 : N \subseteq {p1, p2, p3}
  <2>1. \A n \in N : IsSide(m, n)
    BY NeighborsOfPoint
  <2>2. CASE ~(X(m) > 0)
    <3>1. N \subseteq {m + 1, m - BOARD_SIZ, m + BOARD_SIZ}
      BY <2>1, <2>2 DEF IsSide
    <3> QED
      BY <3>1
  <2>3. CASE ~(X(m) < BOARD_SIZ - 1)
    <3>1. N \subseteq {m - 1, m - BOARD_SIZ, m + BOARD_SIZ}
      BY <2>1, <2>3 DEF IsSide
    <3> QED
      BY <3>1
  <2>4. CASE ~(Y(m) > 0)
    <3>1. N \subseteq {m - 1, m + 1, m + BOARD_SIZ}
      BY <2>1, <2>4 DEF IsSide
    <3> QED
      BY <3>1
  <2>5. CASE ~(Y(m) < BOARD_SIZ - 1)
    <3>1. N \subseteq {m - 1, m + 1, m - BOARD_SIZ}
      BY <2>1, <2>5 DEF IsSide
    <3> QED
      BY <3>1
  <2> QED
    BY <1>5, <2>2, <2>3, <2>4, <2>5
<1>7. N \in SUBSET Point
  BY NeighborsAreMutual
<1> HIDE DEF N
<1>8. Cardinality(N) <= 3 /\ Cardinality(N) \in Nat
  BY <1>6, <1>7, ThreePoints, FewPoints
<1> QED
  BY <1>8 DEF out_neighbors4, N

\* No stone is counted where none is.
LEMMA NoStoneAround ==
  ASSUME NEW b, b.p \in [Point -> Stones], NEW m \in Point, ~(stones_in_manhattan_dst3(b, m) > 0)
  PROVE  \A n \in nei_dst_3[m] : b.p[n] = EMPTY
<1> DEFINE S == {n \in nei_dst_3[m] : b.p[n] # EMPTY}
<1>1. S \in SUBSET Point /\ nei_dst_3[m] \subseteq Point
  BY DEF nei_dst_3
<1>2. stones_in_manhattan_dst3(b, m) = Cardinality(S)
  BY DEF stones_in_manhattan_dst3
<1>3. S = {}
  <2> HIDE DEF S
  <2> QED
    BY <1>1, <1>2, FewPoints
<1> QED
  BY <1>3

LEMMA SomethingOffered ==
  ASSUME NEW b, NEW c, NEW e, Candidates(b, e) \in SUBSET Point
  PROVE  Offered(b, c, e) \cup {n \in {PASS} : PassOffered(b, Offered(b, c, e))} # {}
<1> DEFINE S == Offered(b, c, e)
<1>1. S \in SUBSET Point
  BY DEF Offered
<1>2. CASE S = {}
  <2>1. Cardinality(S) = 0
    BY <1>2, FS_EmptySet
  <2>2. TOTAL_BOARD_SIZ >= 25
    <3>1. BOARD_SIZ \in Nat /\ BOARD_SIZ >= 5
      BY SizeAssumption, ExpansionAssumption
    <3>2. BOARD_SIZ * BOARD_SIZ >= 5 * BOARD_SIZ
      BY <3>1
    <3> QED
      BY <3>1, <3>2 DEF TOTAL_BOARD_SIZ
  <2>3. TOTAL_BOARD_SIZ \div 8 > 0
    BY <2>2, PointsAreFinite
  <2>4. PassOffered(b, S)
    BY <2>1, <2>3 DEF PassOffered
  <2> QED
    BY <2>4
<1> QED
  BY <1>2

\* What OffersComplete says, of the plays that an estimate leaves.
LEMMA PlaysOffered ==
  ASSUME NEW b, Kept(b, b.p), b.empty = FreeOf(b.p), NEW c \in Player, KoAgainst(b, c),
         NEW e, Spares(b, c, e), NEW m \in Point
  PROVE  /\ m \in Offered(b, c, e) => can_play(b, c, m)
         /\ m \notin Offered(b, c, e) =>
              \/ ~can_play(b, c, m)
              \/ is_eye(b, c, m)
              \/ out_neighbors4[m] > 0 /\ \A n \in nei_dst_3[m] : b.p[n] = EMPTY
<1>1. m \in b.empty <=> b.p[m] = EMPTY
  BY DEF FreeOf
<1>2. b.p[m] # EMPTY => ~can_play(b, c, m)
  BY DEF can_play, can_play_ignoring_ko
<1>3. b.p \in [Point -> Stones]
  BY DEF Kept, Grouped, Owned
<1>4. m \in Offered(b, c, e) => can_play(b, c, m)
  <2>1. m \in Offered(b, c, e) =>
          m \in b.empty /\ m # get_ko_play(b) /\ libs_after_play(b, c, m).libs > 0
    BY DEF Offered, Candidates
  <2> QED
    BY <1>1, <2>1, LegalOffered
<1>5. ASSUME m \notin Offered(b, c, e), can_play(b, c, m), ~is_eye(b, c, m)
      PROVE  out_neighbors4[m] > 0 /\ \A n \in nei_dst_3[m] : b.p[n] = EMPTY
  <2>1. b.p[m] = EMPTY /\ m \in b.empty
    BY <1>1, <1>2, <1>5
  <2>2. m \in e.viable
    BY <1>5 DEF Spares
  <2>3. m # get_ko_play(b) /\ libs_after_play(b, c, m).libs > 0
    BY <1>5, <2>1, LegalOffered
  <2>4. ~(stones_in_manhattan_dst3(b, m) > 0 \/ distances_to_border[m] > 0)
    BY <1>5, <2>1, <2>2, <2>3 DEF Offered, Candidates
  <2> QED
    BY <1>3, <2>4, AtTheEdge, NoStoneAround
<1> QED
  BY <1>4, <1>5

-----------------------------------------------------------------------------
(***************************************************************************)
(* Dragons.                                                                *)
(***************************************************************************)
\* Links lead to higher addresses.
Linked(e, address) ==
  \A h \in DOMAIN e.next : e.next[h] # NONE => address[h] < address[e.next[h]]

LEMMA AddressesDiffer ==
  ASSUME NEW address \in Addresses
  PROVE  /\ address \in [Point -> Int]
         /\ \A m, n \in Point : address[m] = address[n] => m = n
BY MemoryAssumption DEF IsInjective

LEMMA OrderIsOfPoints ==
  ASSUME NEW order \in Orders
  PROVE  /\ DOMAIN order = 1..TOTAL_BOARD_SIZ
         /\ \A k \in 1..TOTAL_BOARD_SIZ : order[k] \in Point
BY MemoryAssumption

\* However far apart the groups are in memory, they are finitely many.
Span(address) == CHOOSE n \in Nat : \A m \in Point : address[m] \in (-n)..n

LEMMA AddressesSpan ==
  ASSUME NEW address \in Addresses
  PROVE  /\ Span(address) \in Nat
         /\ \A m \in Point : address[m] \in (-Span(address))..Span(address)
<1> DEFINE Within(S, n) == \A m \in S : address[m] \in (-n)..n
           T == {S \in SUBSET Point : \E n \in Nat : Within(S, n)}
<1>1. {} \in T
  <2>1. Within({}, 0) /\ 0 \in Nat
    OBVIOUS
  <2> QED
    BY <2>1
<1>2. ASSUME NEW S \in SUBSET Point, S # {}, S \ {Chosen(S)} \in T
      PROVE  S \in T
  <2>1. Chosen(S) \in S
    BY <1>2, PointsAreFinite, ChosenApart
  <2>2. PICK n \in Nat : Within(S \ {Chosen(S)}, n)
    BY <1>2
  <2>3. address[Chosen(S)] \in Int
    BY <2>1, AddressesDiffer
  <2>4. PICK k \in Nat : address[Chosen(S)] \in (-k)..k
    <3>1. CASE address[Chosen(S)] >= 0
      BY <2>3, <3>1
    <3>2. CASE address[Chosen(S)] < 0
      <4>1. -address[Chosen(S)] \in Nat /\ address[Chosen(S)] \in (-(-address[Chosen(S)]))..(-address[Chosen(S)])
        BY <2>3, <3>2
      <4> QED
        BY <4>1
    <3> QED
      BY <2>3, <3>1, <3>2
  <2>5. Within(S, n + k)
    <3> SUFFICES ASSUME NEW m \in S PROVE address[m] \in (-(n + k))..(n + k)
      OBVIOUS
    <3>1. CASE m = Chosen(S)
      BY <2>4, <3>1
    <3>2. CASE m # Chosen(S)
      <4>1. address[m] \in (-n)..n
        BY <2>2, <3>2
      <4> QED
        BY <4>1
    <3> QED
      BY <3>1, <3>2
  <2> QED
    BY <2>5
<1>3. Point \in T
  <2>1. \A S \in SUBSET Point : S # {} /\ S \ {Chosen(S)} \in T => S \in T
    BY <1>2
  <2> HIDE DEF T
  <2> QED
    BY <1>1, <2>1, PointsAreFinite, InductionOnSets
<1> QED
  BY <1>3 DEF Span

\* How far a group is from the highest address there may be: links lead nearer.
Rank(address, h) == Span(address) - address[h]

LEMMA LinksLeadUp ==
  ASSUME NEW D \in SUBSET Point, NEW e, e.next \in [D -> D \cup {NONE}],
         NEW address \in Addresses, Linked(e, address)
  PROVE  /\ \A h \in D : Rank(address, h) \in 0..(2 * Span(address))
         /\ \A h \in D : e.next[h] # NONE =>
              e.next[h] \in D /\ Rank(address, e.next[h]) < Rank(address, h)
         /\ 2 * Span(address) \in Nat /\ NONE \notin D
<1>1. Span(address) \in Nat /\ 2 * Span(address) \in Nat
  BY AddressesSpan
<1>2. \A h \in D : Rank(address, h) \in 0..(2 * Span(address))
  BY <1>1, AddressesSpan DEF Rank
<1>3. \A h \in D : e.next[h] # NONE => e.next[h] \in D /\ Rank(address, e.next[h]) < Rank(address, h)
  <2> SUFFICES ASSUME NEW h \in D, e.next[h] # NONE
               PROVE  e.next[h] \in D /\ Rank(address, e.next[h]) < Rank(address, h)
    OBVIOUS
  <2>1. e.next[h] \in D
    OBVIOUS
  <2>2. address[h] < address[e.next[h]] /\ address[h] \in Int /\ address[e.next[h]] \in Int
    BY <2>1, AddressesDiffer DEF Linked
  <2> QED
    BY <1>1, <2>1, <2>2 DEF Rank
<1> QED
  BY <1>1, <1>2, <1>3, Marks

\* What holds of a group once it holds of the one it is linked to holds of all.
LEMMA InductionOnLinks ==
  ASSUME NEW D \in SUBSET Point, NEW e, e.next \in [D -> D \cup {NONE}],
         NEW address \in Addresses, Linked(e, address),
         NEW T, \A h \in D : (e.next[h] # NONE => e.next[h] \in T) => h \in T
  PROVE  \A h \in D : h \in T
<1> DEFINE N == 2 * Span(address) + 1
           Upto == {k \in 0..N : \A h \in D : Rank(address, h) < k => h \in T}
<1>1. /\ N \in Nat
      /\ \A h \in D : Rank(address, h) \in 0..(N - 1)
      /\ \A h \in D : e.next[h] # NONE => e.next[h] \in D /\ Rank(address, e.next[h]) < Rank(address, h)
  BY LinksLeadUp
<1> HIDE DEF N
<1>2. 0 \in Upto
  BY <1>1
<1>3. ASSUME NEW k \in 0..(N - 1), k \in Upto PROVE k + 1 \in Upto
  <2>1. ASSUME NEW h \in D, Rank(address, h) < k + 1 PROVE h \in T
    <3>1. e.next[h] # NONE => e.next[h] \in D /\ Rank(address, e.next[h]) < k
      BY <1>1, <2>1
    <3>2. e.next[h] # NONE => e.next[h] \in T
      BY <1>3, <3>1
    <3> QED
      BY <3>2
  <2>2. k + 1 \in 0..N
    BY <1>1
  <2> QED
    BY <2>1, <2>2
<1>4. \A k \in 0..N : k \in Upto
  <2>1. \A k \in 0..(N - 1) : k \in Upto => k + 1 \in Upto
    BY <1>3
  <2> HIDE DEF Upto
  <2> QED
    BY <1>1, <1>2, <2>1, InductionUpTo
<1>5. N \in Upto /\ \A h \in D : Rank(address, h) < N
  <2>1. N \in 0..N /\ \A k \in 0..(N - 1) : k < N
    BY <1>1
  <2> HIDE DEF Upto
  <2> QED
    BY <1>1, <1>4, <2>1
<1> QED
  BY <1>5

\* The head of a group is the head of the group it is linked to.
LEMMA HeadIs ==
  ASSUME NEW D \in SUBSET Point, NEW e, e.next \in [D -> D \cup {NONE}],
         NEW address \in Addresses, Linked(e, address)
  PROVE  \A h \in D : dragon_head(e, h) =
           IF e.next[h] = NONE THEN h ELSE dragon_head(e, e.next[h])
<1> DEFINE N == 2 * Span(address) + 1
           rank(g) == Rank(address, g)
           Right(f, g) == f[g] = IF e.next[g] = NONE THEN g ELSE f[e.next[g]]
           Known == {k \in 0..N : \E f \in [D -> D] : \A g \in D : rank(g) < k => Right(f, g)}
<1>1. /\ N \in Nat /\ NONE \notin D /\ DOMAIN e.next = D
      /\ \A g \in D : rank(g) \in 0..(N - 1) /\ rank(g) \in Int
  BY LinksLeadUp
<1>2. \A g \in D : e.next[g] # NONE => e.next[g] \in D /\ rank(e.next[g]) < rank(g)
  BY LinksLeadUp
<1>3. 0 \in Known
  <2> DEFINE f == [g \in D |-> g]
  <2>1. f \in [D -> D]
    OBVIOUS
  <2>2. \A g \in D : ~(rank(g) < 0)
    BY <1>1
  <2>3. 0 \in 0..N
    BY <1>1
  <2> HIDE DEF f, Right, rank, N
  <2> QED
    BY <2>1, <2>2, <2>3
<1> HIDE DEF rank, N
<1>4. ASSUME NEW k \in 0..(N - 1), k \in Known PROVE k + 1 \in Known
  <2>1. PICK f \in [D -> D] : \A g \in D : rank(g) < k => Right(f, g)
    BY <1>4
  <2> DEFINE f1 == [g \in D |-> IF rank(g) = k /\ e.next[g] # NONE THEN f[e.next[g]]
                                ELSE IF rank(g) = k THEN g ELSE f[g]]
  <2>2. f1 \in [D -> D]
    BY <1>2
  <2>3. ASSUME NEW g \in D, rank(g) < k + 1 PROVE Right(f1, g)
    <3>1. CASE e.next[g] = NONE
      <4>1. rank(g) = k \/ rank(g) < k
        BY <1>1, <2>3
      <4> QED
        BY <2>1, <3>1, <4>1
    <3>2. CASE e.next[g] # NONE
      <4>1. e.next[g] \in D /\ rank(e.next[g]) # k /\ f1[e.next[g]] = f[e.next[g]]
        BY <1>1, <1>2, <2>3, <3>2
      <4>2. rank(g) = k \/ rank(g) < k
        BY <1>1, <2>3
      <4> QED
        BY <1>1, <2>1, <3>2, <4>1, <4>2
    <3> QED
      BY <3>1, <3>2
  <2>4. k + 1 \in 0..N
    BY <1>1
  <2> HIDE DEF f1, Right
  <2> QED
    BY <2>2, <2>3, <2>4
<1>5. \A k \in 0..N : k \in Known
  <2>1. \A k \in 0..(N - 1) : k \in Known => k + 1 \in Known
    BY <1>4
  <2> HIDE DEF Known
  <2> QED
    BY <1>1, <1>3, <2>1, InductionUpTo
<1>6. PICK f \in [D -> D] : \A g \in D : Right(f, g)
  <2>1. N \in Known /\ \A g \in D : rank(g) < N
    <3>1. N \in 0..N /\ \A k \in 0..(N - 1) : k < N
      BY <1>1
    <3> HIDE DEF Known
    <3> QED
      BY <1>1, <1>5, <3>1
  <2> HIDE DEF Right
  <2> QED
    BY <2>1
<1> DEFINE head == CHOOSE x : x = [g \in D |-> IF e.next[g] = NONE THEN g ELSE x[e.next[g]]]
<1>7. f = [g \in D |-> IF e.next[g] = NONE THEN g ELSE f[e.next[g]]]
  BY <1>6
<1>8. head = [g \in D |-> IF e.next[g] = NONE THEN g ELSE head[e.next[g]]]
  <2> HIDE DEF Right, Known
  <2> QED
    BY <1>7
<1>9. \A h : dragon_head(e, h) = head[h]
  BY <1>1 DEF dragon_head
<1> HIDE DEF head
<1> QED
  BY <1>2, <1>8, <1>9

\* The links of a group lead to a head, as they lead to higher addresses.
LEMMA HeadOfDragon ==
  ASSUME NEW D \in SUBSET Point, NEW e, e.next \in [D -> D \cup {NONE}],
         NEW address \in Addresses, Linked(e, address), NEW h \in D
  PROVE  dragon_head(e, h) \in D /\ e.next[dragon_head(e, h)] = NONE
<1> DEFINE T == {g \in D : dragon_head(e, g) \in D /\ e.next[dragon_head(e, g)] = NONE}
<1>1. \A g \in D : dragon_head(e, g) = IF e.next[g] = NONE THEN g ELSE dragon_head(e, e.next[g])
  BY HeadIs
<1>2. \A g \in D : (e.next[g] # NONE => e.next[g] \in T) => g \in T
  BY <1>1
<1> HIDE DEF T
<1>3. h \in T
  BY <1>2, InductionOnLinks
<1> QED
  BY <1>3 DEF T

\* There is no other way to lead all groups to their heads.
LeadsToHeads(D, e, H) == \A h \in D : H[h] = IF e.next[h] = NONE THEN h ELSE H[e.next[h]]

LEMMA OneWayToHeads ==
  ASSUME NEW D \in SUBSET Point, NEW e, e.next \in [D -> D \cup {NONE}],
         NEW address \in Addresses, Linked(e, address),
         NEW H, LeadsToHeads(D, e, H)
  PROVE  \A h \in D : dragon_head(e, h) = H[h]
<1> DEFINE T == {g \in D : dragon_head(e, g) = H[g]}
<1>1. \A g \in D : dragon_head(e, g) = IF e.next[g] = NONE THEN g ELSE dragon_head(e, e.next[g])
  BY HeadIs
<1>2. \A g \in D : (e.next[g] # NONE => e.next[g] \in T) => g \in T
  BY <1>1 DEF LeadsToHeads
<1> HIDE DEF T
<1>3. \A g \in D : g \in T
  BY <1>2, InductionOnLinks
<1> QED
  BY <1>3 DEF T

EstimateType(D) ==
  [eyes : [D -> Nat], borrowed : [D -> Nat], next : [D -> D \cup {NONE}],
   viable : SUBSET Point, okay : SUBSET Point, nakade : [Point -> 0..(U16 - 1)]]

\* The estimates of the eyes of the groups of b for c, done or in progress.
Estimates(b, c, address) ==
  {e \in EstimateType(DOMAIN b.group) : Linked(e, address) /\ Spares(b, c, e)}

LEMMA GroupsAreAt ==
  ASSUME NEW b, Kept(b, b.p)
  PROVE  /\ DOMAIN b.group \in SUBSET Point /\ NONE \notin DOMAIN b.group
         /\ b.p \in [Point -> Stones] /\ b.group \in [DOMAIN b.group -> GroupType]
         /\ \A n \in Point : b.g[n] # NONE => b.g[n] \in DOMAIN b.group
         /\ \A n \in Point : b.p[n] # EMPTY => b.g[n] \in DOMAIN b.group
BY Marks DEF Kept, Grouped, GroupsTyped, Owned

\* The bound of a u16, and no more of it than the proofs need.
LEMMA U16IsLarge == U16 \in Nat /\ U16 > 25
BY SMT DEF U16

LEMMA NewEstimateTyped ==
  ASSUME NEW b, Kept(b, b.p), NEW c, NEW address
  PROVE  NewEstimate(b) \in Estimates(b, c, address)
BY U16IsLarge DEF NewEstimate, Estimates, EstimateType, Linked, Spares

LEMMA HeadTyped ==
  ASSUME NEW b, Kept(b, b.p), NEW c, NEW address \in Addresses,
         NEW e \in Estimates(b, c, address), NEW h \in DOMAIN b.group
  PROVE  dragon_head(e, h) \in DOMAIN b.group /\ e.next[dragon_head(e, h)] = NONE
<1>1. e.next \in [DOMAIN b.group -> DOMAIN b.group \cup {NONE}] /\ Linked(e, address)
  BY DEF Estimates, EstimateType
<1> QED
  BY <1>1, GroupsAreAt, HeadOfDragon

LEMMA TwoOrOne ==
  ASSUME NEW x \in Point, NEW y \in Point
  PROVE  Cardinality({x, y}) = 1 <=> x = y
<1>1. {x, y} \in SUBSET Point
  OBVIOUS
<1>2. Cardinality({x, y}) = 1 <=> \E z : {x, y} = {z}
  BY <1>1, FewPoints
<1> QED
  BY <1>2

LEMMA UniteTyped ==
  ASSUME NEW b, Kept(b, b.p), NEW c, NEW address \in Addresses,
         NEW e \in Estimates(b, c, address), NEW h1 \in DOMAIN b.group, NEW h2 \in DOMAIN b.group
  PROVE  unite_dragons(e, h1, h2, address) \in Estimates(b, c, address)
<1> DEFINE D == DOMAIN b.group
           x == dragon_head(e, h1)
           y == dragon_head(e, h2)
           heads == {x, y}
           low == CHOOSE h \in heads : \A k \in heads : address[h] <= address[k]
           high == CHOOSE h \in heads : \A k \in heads : address[h] >= address[k]
           d == [e EXCEPT !.next[low] = high, !.eyes[high] = @ + e.eyes[low]]
<1>1. /\ x \in D /\ y \in D /\ e.next[x] = NONE /\ e.next[y] = NONE
      /\ D \in SUBSET Point /\ NONE \notin D
  BY HeadTyped, GroupsAreAt
<1>2. unite_dragons(e, h1, h2, address) = IF Cardinality(heads) = 1 THEN e ELSE d
  BY DEF unite_dragons
<1>3. Cardinality(heads) = 1 <=> x = y
  BY <1>1, TwoOrOne
<1>4. e \in EstimateType(D) /\ Linked(e, address) /\ Spares(b, c, e)
  BY DEF Estimates
<1> HIDE DEF x, y
<1>5. ASSUME x # y PROVE d \in Estimates(b, c, address)
  <2>1. /\ address[x] \in Int /\ address[y] \in Int /\ address[x] # address[y]
    BY <1>1, <1>5, AddressesDiffer
  <2>2. low \in heads /\ \A k \in heads : address[low] <= address[k]
    <3>1. \E h \in heads : \A k \in heads : address[h] <= address[k]
      BY <2>1
    <3> QED
      BY <3>1
  <2>3. high \in heads /\ \A k \in heads : address[high] >= address[k]
    <3>1. \E h \in heads : \A k \in heads : address[h] >= address[k]
      BY <2>1
    <3> QED
      BY <3>1
  <2> HIDE DEF low, high
  <2>4. low \in D /\ high \in D /\ address[low] < address[high]
    BY <1>1, <2>1, <2>2, <2>3
  <2>5. d \in EstimateType(D)
    <3> DEFINE eyes == [e.eyes EXCEPT ![high] = @ + e.eyes[low]]
               next == [e.next EXCEPT ![low] = high]
    <3>1. eyes \in [D -> Nat]
      BY <1>4, <2>4 DEF EstimateType
    <3>2. next \in [D -> D \cup {NONE}]
      BY <1>4, <2>4 DEF EstimateType
    <3>3. d = [e EXCEPT !.next = next, !.eyes = eyes]
      BY <1>4 DEF EstimateType
    <3> HIDE DEF d, eyes, next
    <3> QED
      BY <1>4, <3>1, <3>2, <3>3 DEF EstimateType
  <2>6. d.next = [e.next EXCEPT ![low] = high] /\ d.viable = e.viable
    BY <1>4 DEF EstimateType
  <2>7. Linked(d, address)
    BY <1>4, <2>4, <2>6 DEF Linked, EstimateType
  <2>8. Spares(b, c, d)
    BY <1>4, <2>6 DEF Spares
  <2> HIDE DEF d
  <2> QED
    BY <2>5, <2>7, <2>8 DEF Estimates
<1> HIDE DEF d, heads
<1> QED
  BY <1>2, <1>3, <1>5

LEMMA AddEyeTyped ==
  ASSUME NEW b, NEW c, NEW address, NEW e \in Estimates(b, c, address), NEW h
  PROVE  AddEye(e, h) \in Estimates(b, c, address)
<1> DEFINE D == DOMAIN b.group
           x == dragon_head(e, h)
           d == [e EXCEPT !.eyes[x] = @ + 1]
<1>1. e \in EstimateType(D) /\ Linked(e, address) /\ Spares(b, c, e)
  BY DEF Estimates
<1>2. AddEye(e, h) = d
  BY DEF AddEye
<1> HIDE DEF x
<1>3. d \in EstimateType(D)
  BY <1>1 DEF EstimateType
<1>4. d.next = e.next /\ d.viable = e.viable
  BY <1>1 DEF EstimateType
<1> HIDE DEF d
<1> QED
  BY <1>1, <1>2, <1>3, <1>4 DEF Estimates, Linked, Spares

\* What is marked of points may change.
LEMMA OkayTyped ==
  ASSUME NEW b, NEW c, NEW address, NEW e \in Estimates(b, c, address), NEW S
  PROVE  [e EXCEPT !.okay = @ \ S] \in Estimates(b, c, address)
BY DEF Estimates, EstimateType, Linked, Spares

LEMMA ViableTyped ==
  ASSUME NEW b, NEW c, NEW address, NEW e \in Estimates(b, c, address),
         NEW m \in Point, is_eye(b, c, m)
  PROVE  [e EXCEPT !.viable = @ \ {m}] \in Estimates(b, c, address)
<1> DEFINE d == [e EXCEPT !.viable = @ \ {m}]
<1>1. e \in EstimateType(DOMAIN b.group) /\ Linked(e, address) /\ Spares(b, c, e)
  BY DEF Estimates
<1>2. d \in EstimateType(DOMAIN b.group) /\ d.next = e.next /\ d.viable = e.viable \ {m}
  BY <1>1 DEF EstimateType
<1> HIDE DEF d
<1>3. Linked(d, address) /\ Spares(b, c, d)
  BY <1>1, <1>2 DEF Linked, Spares
<1> QED
  BY <1>2, <1>3 DEF Estimates, d

LEMMA MiddleTyped ==
  ASSUME NEW b, NEW c, NEW address, NEW e \in Estimates(b, c, address), NEW S,
         NEW m \in Point, NEW size \in 0..(U16 - 1)
  PROVE  [e EXCEPT !.okay = @ \ S, !.nakade[m] = size] \in Estimates(b, c, address)
<1> DEFINE d == [e EXCEPT !.okay = @ \ S, !.nakade[m] = size]
<1>1. e \in EstimateType(DOMAIN b.group) /\ Linked(e, address) /\ Spares(b, c, e)
  BY DEF Estimates
<1>2. d \in EstimateType(DOMAIN b.group) /\ d.next = e.next /\ d.viable = e.viable
  BY <1>1 DEF EstimateType
<1> HIDE DEF d
<1>3. Linked(d, address) /\ Spares(b, c, d)
  BY <1>1, <1>2 DEF Linked, Spares
<1> QED
  BY <1>2, <1>3 DEF Estimates, d

\* A fold goes through estimates, one for each element.
LEMMA UniteAllSteps ==
  ASSUME NEW b, Kept(b, b.p), NEW c, NEW address \in Addresses,
         NEW e \in Estimates(b, c, address), NEW gs \in Seq(DOMAIN b.group)
  PROVE  \E r \in [0..Len(gs) -> Estimates(b, c, address)] :
           /\ r[0] = e
           /\ \A k \in 1..Len(gs) : r[k] = unite_dragons(r[k - 1], Head(gs), gs[k], address)
           /\ r[Len(gs)] = UniteAll(e, gs, address)
<1> DEFINE n == Len(gs)
           V == Estimates(b, c, address)
           Step(d, h) == unite_dragons(d, Head(gs), h, address)
           One(d, h) == CHOOSE w \in {Step(u, h) : u \in {d}} : TRUE
           F == [k \in 1..n |-> [d \in V |-> Step(d, gs[k])]]
           f == CHOOSE g : g = [S \in SUBSET (DOMAIN gs) |->
                  IF S = {} THEN e ELSE One(g[S \ {Max(S)}], gs[Max(S)])]
<1>1. /\ n \in Nat /\ DOMAIN gs = 1..n
      /\ \A k \in 1..n : gs[k] \in DOMAIN b.group /\ Head(gs) \in DOMAIN b.group
  OBVIOUS
<1>2. UniteAll(e, gs, address) = f[DOMAIN gs]
  BY DEF UniteAll, FoldSteps, FoldLeft, MapThenFoldSet
<1>3. \A d, h : One(d, h) = Step(d, h)
  <2> TAKE d, h
  <2>1. {Step(u, h) : u \in {d}} = {Step(d, h)}
    OBVIOUS
  <2> QED
    BY <2>1
<1>4. \A k \in 1..n : \A d \in V : Step(d, gs[k]) \in V
  BY <1>1, UniteTyped
<1> HIDE DEF V, n, One, Step
<1>5. F \in [1..n -> [V -> V]]
  BY <1>4
<1>6. PICK g : IsFold(V, n, e, F, g)
  <2>1. e \in V
    BY DEF V
  <2> HIDE DEF F
  <2> QED
    BY <1>1, <1>5, <2>1, FoldExists
<1>7. f = [S \in SUBSET (DOMAIN gs) |-> IF S = {} THEN e ELSE One(f[S \ {Max(S)}], gs[Max(S)])]
  <2>1. ASSUME NEW S \in SUBSET (1..n), S # {}
        PROVE  g[S] = One(g[S \ {Max(S)}], gs[Max(S)])
    <3>1. Max(S) \in 1..n /\ g[S \ {Max(S)}] \in V
      BY <1>1, <1>6, <2>1, MaxOfRange DEF IsFold
    <3>2. g[S] = F[Max(S)][g[S \ {Max(S)}]]
      BY <1>6, <2>1 DEF IsFold
    <3> QED
      BY <1>3, <3>1, <3>2
  <2>2. g = [S \in SUBSET (DOMAIN gs) |-> IF S = {} THEN e ELSE One(g[S \ {Max(S)}], gs[Max(S)])]
    <3> HIDE DEF F
    <3> QED
      BY <1>1, <1>6, <2>1 DEF IsFold
  <2> QED
    BY <2>2, Zenon
<1> HIDE DEF f, F
<1>8. f[{}] \in V
  BY <1>7 DEF V
<1>9. ASSUME NEW k \in 1..n PROVE f[1..k] = One(f[1..(k - 1)], gs[k])
  <2>1. /\ 1..k # {} /\ 1..k \in SUBSET (1..n) /\ Max(1..k) = k /\ (1..k) \ {k} = 1..(k - 1)
    BY <1>1, MaxOfInitial
  <2> QED
    BY <1>1, <1>7, <2>1
<1>10. \A k \in 0..n : f[1..k] \in V
  <2>1. ASSUME NEW k \in 1..n, f[1..(k - 1)] \in V PROVE f[1..k] \in V
    BY <1>3, <1>4, <1>9, <2>1
  <2> QED
    BY <1>1, <1>8, <2>1, FoldValues
<1> DEFINE r == [k \in 0..n |-> f[1..k]]
<1>11. r \in [0..n -> V]
  BY <1>10
<1>12. r[0] = e /\ r[n] = f[DOMAIN gs]
  <2>1. 1..0 = {} /\ 0 \in 0..n /\ n \in 0..n
    BY <1>1
  <2> QED
    BY <1>1, <1>7, <2>1
<1>13. \A k \in 1..n : r[k] = Step(r[k - 1], gs[k])
  <2> TAKE k \in 1..n
  <2>1. k \in 0..n /\ k - 1 \in 0..n
    BY <1>1
  <2> QED
    BY <1>3, <1>9, <2>1
<1> HIDE DEF r
<1> QED
  BY <1>1, <1>2, <1>11, <1>12, <1>13 DEF V, n, Step

LEMMA UniteAllTyped ==
  ASSUME NEW b, Kept(b, b.p), NEW c, NEW address \in Addresses,
         NEW e \in Estimates(b, c, address), NEW gs \in Seq(DOMAIN b.group)
  PROVE  UniteAll(e, gs, address) \in Estimates(b, c, address)
BY UniteAllSteps

-----------------------------------------------------------------------------
(***************************************************************************)
(* The points of shapes.                                                   *)
(***************************************************************************)
LEMMA Moved ==
  ASSUME NEW m \in Point, NEW dx \in Int, NEW dy \in Int,
         X(m) + dx \in 0..(BOARD_SIZ - 1), Y(m) + dy \in 0..(BOARD_SIZ - 1),
         NEW n, n = m + dx + BOARD_SIZ * dy
  PROVE  n \in Point /\ X(n) = X(m) + dx /\ Y(n) = Y(m) + dy
<1>1. PICK k \in Point : X(k) = X(m) + dx /\ Y(k) = Y(m) + dy
  BY PointAt
<1>2. /\ m = BOARD_SIZ * Y(m) + X(m) /\ k = BOARD_SIZ * Y(k) + X(k)
      /\ BOARD_SIZ \in Int /\ X(m) \in Int /\ Y(m) \in Int
  BY Coordinates
<1>3. BOARD_SIZ * (Y(m) + dy) = BOARD_SIZ * Y(m) + BOARD_SIZ * dy
  BY <1>2
<1>4. k = n
  BY <1>1, <1>2, <1>3
<1> QED
  BY <1>1, <1>4

\* Columns and rows of a point.
LEMMA Borders ==
  ASSUME NEW m \in Point
  PROVE  /\ X(m) \in 0..(BOARD_SIZ - 1) /\ Y(m) \in 0..(BOARD_SIZ - 1)
         /\ BOARD_SIZ \in Nat /\ BOARD_SIZ >= 5 /\ m \in Int
         /\ LEFT = -1 /\ RIGHT = 1 /\ TOP = BOARD_SIZ * (-1) /\ BOTTOM = BOARD_SIZ * 1
         /\ ~border_left(m) <=> X(m) - 1 >= 0
         /\ ~border_right(m) <=> X(m) + 1 <= BOARD_SIZ - 1
         /\ ~border_top(m) <=> Y(m) - 1 >= 0
         /\ ~border_bottom(m) <=> Y(m) + 1 <= BOARD_SIZ - 1
<1>1. X(m) \in 0..(BOARD_SIZ - 1) /\ Y(m) \in 0..(BOARD_SIZ - 1) /\ BOARD_SIZ \in Nat /\ m \in Nat
  BY Coordinates
<1> QED
  BY <1>1, ExpansionAssumption
       DEF border_left, border_right, border_top, border_bottom, LEFT, RIGHT, TOP, BOTTOM

LEMMA SidePoints ==
  ASSUME NEW m \in Point
  PROVE  /\ ~border_left(m) => m + LEFT \in neighbors_side[m]
         /\ ~border_right(m) => m + RIGHT \in neighbors_side[m]
         /\ ~border_top(m) => m + TOP \in neighbors_side[m]
         /\ ~border_bottom(m) => m + BOTTOM \in neighbors_side[m]
         /\ neighbors_side[m] \subseteq Point
<1>1. neighbors_side[m] \subseteq Point /\ \A n : n \in neighbors_side[m] <=> IsSide(m, n)
  BY NeighborsOfPoint, NeighborsAreMutual
<1>2. /\ X(m) \in 0..(BOARD_SIZ - 1) /\ Y(m) \in 0..(BOARD_SIZ - 1) /\ BOARD_SIZ \in Nat /\ m \in Nat
  BY Coordinates
<1> QED
  BY <1>1, <1>2 DEF border_left, border_right, border_top, border_bottom, LEFT, RIGHT, TOP,
                    BOTTOM, IsSide

\* The other three points of a square.
LEMMA SquarePoints ==
  ASSUME NEW m \in Point, ~border_right(m), ~border_bottom(m)
  PROVE  /\ m + RIGHT \in Point /\ m + BOTTOM \in Point /\ m + BOTTOM + RIGHT \in Point
         /\ X(m + RIGHT) = X(m) + 1 /\ Y(m + RIGHT) = Y(m)
         /\ X(m + BOTTOM) = X(m) /\ Y(m + BOTTOM) = Y(m) + 1
         /\ X(m + BOTTOM + RIGHT) = X(m) + 1 /\ Y(m + BOTTOM + RIGHT) = Y(m) + 1
<1>1. /\ X(m) + 0 \in 0..(BOARD_SIZ - 1) /\ Y(m) + 0 \in 0..(BOARD_SIZ - 1)
      /\ X(m) + 1 \in 0..(BOARD_SIZ - 1) /\ Y(m) + 1 \in 0..(BOARD_SIZ - 1)
      /\ X(m) + 0 = X(m) /\ Y(m) + 0 = Y(m)
  BY Borders
<1>2. /\ m + RIGHT = m + 1 + BOARD_SIZ * 0 /\ m + BOTTOM = m + 0 + BOARD_SIZ * 1
      /\ m + BOTTOM + RIGHT = m + 1 + BOARD_SIZ * 1
  BY Borders
<1>3. m + RIGHT \in Point /\ X(m + RIGHT) = X(m) + 1 /\ Y(m + RIGHT) = Y(m)
  BY <1>1, <1>2, Moved
<1>4. m + BOTTOM \in Point /\ X(m + BOTTOM) = X(m) /\ Y(m + BOTTOM) = Y(m) + 1
  BY <1>1, <1>2, Moved
<1>5. /\ m + BOTTOM + RIGHT \in Point
      /\ X(m + BOTTOM + RIGHT) = X(m) + 1 /\ Y(m + BOTTOM + RIGHT) = Y(m) + 1
  BY <1>1, <1>2, Moved
<1> QED
  BY <1>3, <1>4, <1>5

LEMMA OneOrNone ==
  ASSUME NEW D
  PROVE  <<>> \in Seq(D) /\ \A d \in D : <<d>> \in Seq(D)
OBVIOUS

LEMMA IfTyped ==
  ASSUME NEW b, Kept(b, b.p), NEW test, NEW n, test => n \in Point
  PROVE  If(test, b, n) \in Seq(DOMAIN b.group)
<1> DEFINE h == b.g[n]
           D == DOMAIN b.group
<1>1. test /\ h # NONE => h \in D
  BY GroupsAreAt
<1>2. If(test, b, n) = IF test /\ h # NONE THEN <<h>> ELSE <<>>
  BY DEF If
<1> HIDE DEF h, D
<1>3. CASE test /\ h # NONE
  BY <1>1, <1>2, <1>3, OneOrNone DEF D
<1>4. CASE ~(test /\ h # NONE)
  BY <1>2, <1>4, OneOrNone DEF D
<1> QED
  BY <1>3, <1>4

LEMMA FourLists ==
  ASSUME NEW D, NEW s1 \in Seq(D), NEW s2 \in Seq(D), NEW s3 \in Seq(D), NEW s4 \in Seq(D)
  PROVE  s1 \o s2 \o s3 \o s4 \in Seq(D)
OBVIOUS

LEMMA SquareSides ==
  ASSUME NEW m \in Point, ~border_right(m), ~border_bottom(m)
  PROVE  /\ ~border_left(m) => m + LEFT \in Point
         /\ ~border_right(m + RIGHT) => m + RIGHT + RIGHT \in Point
         /\ ~border_top(m) => m + TOP \in Point
         /\ ~border_bottom(m + BOTTOM) => m + BOTTOM + BOTTOM \in Point
<1>1. m + RIGHT \in Point /\ m + BOTTOM \in Point
  BY SquarePoints
<1> QED
  BY <1>1, SidePoints

LEMMA DiagonalPoints ==
  ASSUME NEW m \in Point
  PROVE  /\ ~border_left(m) /\ ~border_top(m) => m + LEFT + TOP \in Point
         /\ ~border_left(m) /\ ~border_bottom(m) => m + LEFT + BOTTOM \in Point
         /\ ~border_right(m) /\ ~border_top(m) => m + RIGHT + TOP \in Point
         /\ ~border_right(m) /\ ~border_bottom(m) => m + RIGHT + BOTTOM \in Point
<1>1. /\ X(m) \in 0..(BOARD_SIZ - 1) /\ Y(m) \in 0..(BOARD_SIZ - 1) /\ BOARD_SIZ \in Nat /\ m \in Int
      /\ LEFT = -1 /\ RIGHT = 1 /\ TOP = BOARD_SIZ * (-1) /\ BOTTOM = BOARD_SIZ * 1
      /\ ~border_left(m) => X(m) + (-1) \in 0..(BOARD_SIZ - 1)
      /\ ~border_right(m) => X(m) + 1 \in 0..(BOARD_SIZ - 1)
      /\ ~border_top(m) => Y(m) + (-1) \in 0..(BOARD_SIZ - 1)
      /\ ~border_bottom(m) => Y(m) + 1 \in 0..(BOARD_SIZ - 1)
  BY Borders
<1>2. \A dx, dy \in {-1, 1} :
        X(m) + dx \in 0..(BOARD_SIZ - 1) /\ Y(m) + dy \in 0..(BOARD_SIZ - 1)
          => m + dx + BOARD_SIZ * dy \in Point
  BY Moved
<1> QED
  BY <1>1, <1>2

LEMMA NakadeTyped ==
  ASSUME NEW b, Kept(b, b.p), NEW m \in Point
  PROVE  is_nakade(b, m) \in 0..25
<1> DEFINE around == {c \in Player : b.neighbors8[c][m] > 0}
           c == CHOOSE d \in around : TRUE
<1>1. CASE Cardinality(around) # 1
  BY <1>1 DEF is_nakade
<1>2. CASE Cardinality(around) = 1
  <2>1. around # {}
    BY <1>2, FS_EmptySet
  <2>2. c \in Player
    BY <2>1
  <2>3. b.neighbors4[c][m] \in 0..4 /\ out_neighbors4[m] \in Nat
    <3>1. Cardinality(neighbors_side[m]) \in Nat /\ Cardinality(neighbors_side[m]) <= 4
      BY EightAround, NeighborsAreMutual, PointsAreFinite
    <3> QED
      BY <2>2, <3>1, CountsTyped DEF out_neighbors4
  <2>4. Own4(b, c, m) \in Nat
    BY <2>3 DEF Own4
  <2>5. is_nakade(b, m) = IF NakadeStar(b, c, m)
                          THEN IF StarIsClosed(b, c, m) THEN (4 - Own4(b, c, m)) * 4 + 4 ELSE 0
                          ELSE IF NakadeCorner(b, c, m) /\ CornerIsClosed(b, c, m)
                          THEN (5 - Own4(b, c, m)) * 5 ELSE 0
    BY <1>2 DEF is_nakade
  <2>6. /\ NakadeStar(b, c, m) => Own4(b, c, m) < 3
        /\ NakadeCorner(b, c, m) => Own4(b, c, m) < 2
    BY DEF NakadeStar, NakadeCorner
  <2> HIDE DEF c, around
  <2> QED
    BY <2>4, <2>5, <2>6
<1> QED
  BY <1>1, <1>2

-----------------------------------------------------------------------------
(***************************************************************************)
(* What is found at a point keeps the estimate.                            *)
(***************************************************************************)
LEMMA OnEyeTyped ==
  ASSUME NEW b, Kept(b, b.p), NEW c, NEW address \in Addresses,
         NEW e \in Estimates(b, c, address), NEW m \in Point
  PROVE  OnEye(e, b, c, m) \in Estimates(b, c, address)
<1> DEFINE g == IF border_left(m) THEN b.g[m + RIGHT] ELSE b.g[m + LEFT]
           d == AddEye(e, g)
<1>1. d \in Estimates(b, c, address)
  BY AddEyeTyped
<1>2. OnEye(e, b, c, m) = [d EXCEPT !.viable = IF is_eye(b, c, m) THEN @ \ {m} ELSE @]
  BY DEF OnEye
<1> HIDE DEF d
<1>3. CASE is_eye(b, c, m)
  <2>1. OnEye(e, b, c, m) = [d EXCEPT !.viable = @ \ {m}]
    BY <1>2, <1>3
  <2> QED
    BY <1>1, <1>3, <2>1, ViableTyped
<1>4. CASE ~is_eye(b, c, m)
  <2>1. OnEye(e, b, c, m) = d
    BY <1>1, <1>2, <1>4 DEF Estimates, EstimateType
  <2> QED
    BY <1>1, <2>1
<1> QED
  BY <1>3, <1>4

LEMMA On2ptEyeTyped ==
  ASSUME NEW b, Kept(b, b.p), NEW c, NEW address \in Addresses,
         NEW e \in Estimates(b, c, address), NEW m \in Point
  PROVE  On2ptEye(e, b, c, m) \in Estimates(b, c, address)
<1>1. AddEye(e, get_closest_group(b, m)) \in Estimates(b, c, address)
  BY AddEyeTyped
<1> QED
  BY <1>1, OkayTyped DEF On2ptEye

LEMMA On4ptEyeTyped ==
  ASSUME NEW b, Kept(b, b.p), NEW c, NEW address \in Addresses,
         NEW e \in Estimates(b, c, address), NEW m \in Point, FreeSquare(b, m)
  PROVE  On4ptEye(e, b, c, m, address) \in Estimates(b, c, address)
<1> DEFINE s1 == If(~border_left(m), b, m + LEFT)
           s2 == If(~border_right(m + RIGHT), b, m + RIGHT + RIGHT)
           s3 == If(~border_top(m), b, m + TOP)
           s4 == If(~border_bottom(m + BOTTOM), b, m + BOTTOM + BOTTOM)
           gs == s1 \o s2 \o s3 \o s4
           spare == IF m = 0 THEN m + RIGHT + BOTTOM ELSE m
           kept == is_4pt_eye(b, c, m) /\ ~Forcing4pt(b, c, m)
           S == IF kept THEN Square(m) ELSE Square(m) \ {spare}
           d == AddEye(UniteAll(e, gs, address), Head(gs))
<1>1. gs \in Seq(DOMAIN b.group)
  <2>1. ~border_right(m) /\ ~border_bottom(m)
    BY DEF FreeSquare
  <2>2. /\ s1 \in Seq(DOMAIN b.group) /\ s2 \in Seq(DOMAIN b.group)
        /\ s3 \in Seq(DOMAIN b.group) /\ s4 \in Seq(DOMAIN b.group)
    BY <2>1, SquareSides, IfTyped
  <2> HIDE DEF s1, s2, s3, s4
  <2> QED
    BY <2>2, FourLists
<1>2. On4ptEye(e, b, c, m, address) = [d EXCEPT !.okay = @ \ S]
  BY DEF On4ptEye
<1> HIDE DEF gs
<1>3. d \in Estimates(b, c, address)
  BY <1>1, UniteAllTyped, AddEyeTyped
<1> HIDE DEF d, S
<1>4. [d EXCEPT !.okay = @ \ S] \in Estimates(b, c, address)
  BY <1>3, OkayTyped
<1> QED
  BY <1>2, <1>4

LEMMA OnNakadeTyped ==
  ASSUME NEW b, Kept(b, b.p), NEW c, NEW address \in Addresses,
         NEW e \in Estimates(b, c, address), NEW m \in Point
  PROVE  OnNakade(e, b, m, address) \in Estimates(b, c, address)
<1> DEFINE s1 == If(~border_left(m) /\ ~border_top(m), b, m + LEFT + TOP)
           s2 == If(~border_left(m) /\ ~border_bottom(m), b, m + LEFT + BOTTOM)
           s3 == If(~border_right(m) /\ ~border_top(m), b, m + RIGHT + TOP)
           s4 == If(~border_right(m) /\ ~border_bottom(m), b, m + RIGHT + BOTTOM)
           gs == s1 \o s2 \o s3 \o s4
           united == UniteAll(e, gs, address)
           d == IF gs # <<>> THEN AddEye(united, Head(gs)) ELSE united
<1>1. gs \in Seq(DOMAIN b.group)
  <2>1. /\ s1 \in Seq(DOMAIN b.group) /\ s2 \in Seq(DOMAIN b.group)
        /\ s3 \in Seq(DOMAIN b.group) /\ s4 \in Seq(DOMAIN b.group)
    BY DiagonalPoints, IfTyped
  <2> HIDE DEF s1, s2, s3, s4
  <2> QED
    BY <2>1, FourLists
<1>2. OnNakade(e, b, m, address) =
        [d EXCEPT !.okay = @ \ neighbors_3x3[m], !.nakade[m] = is_nakade(b, m)]
  BY DEF OnNakade
<1> HIDE DEF gs
<1>3. d \in Estimates(b, c, address)
  BY <1>1, UniteAllTyped, AddEyeTyped
<1>4. is_nakade(b, m) \in 0..(U16 - 1)
  <2>1. is_nakade(b, m) \in 0..25
    BY NakadeTyped
  <2> QED
    BY <2>1, U16IsLarge, SMT
<1> HIDE DEF d
<1>5. [d EXCEPT !.okay = @ \ neighbors_3x3[m], !.nakade[m] = is_nakade(b, m)]
        \in Estimates(b, c, address)
  BY <1>3, <1>4, MiddleTyped
<1> QED
  BY <1>2, <1>5

LEMMA OnShapeTyped ==
  ASSUME NEW b, Kept(b, b.p), NEW c, NEW address \in Addresses,
         NEW e \in Estimates(b, c, address), NEW m \in Point
  PROVE  OnShape(e, b, m, address) \in Estimates(b, c, address)
<1> DEFINE corner == \E a \in Player : is_corner_liberty(b, a, m)
           f == [e EXCEPT !.okay = IF corner THEN @ \ {m} ELSE @]
           Joined(g1, g2) ==
             IF groups_shared_liberties(b.group[g1], b.group[g2]) = 2
             THEN unite_dragons(f, g1, g2, address) ELSE f
<1>1. f \in Estimates(b, c, address)
  <2>1. CASE corner
    <3>1. f = [e EXCEPT !.okay = @ \ {m}]
      BY <2>1
    <3> QED
      BY <3>1, OkayTyped
  <2>2. CASE ~corner
    <3>1. f = e
      BY <2>2 DEF Estimates, EstimateType
    <3> QED
      BY <3>1
  <2> QED
    BY <2>1, <2>2
<1>2. OnShape(e, b, m, address) =
        IF is_vertical_bamboo_joint(b, m) THEN Joined(b.g[m + TOP], b.g[m + BOTTOM])
        ELSE IF is_horizontal_bamboo_joint(b, m) THEN Joined(b.g[m + LEFT], b.g[m + RIGHT])
        ELSE f
  BY DEF OnShape
<1> HIDE DEF f
<1>3. \A g1, g2 \in DOMAIN b.group : Joined(g1, g2) \in Estimates(b, c, address)
  BY <1>1, UniteTyped
<1>4. \A n \in Point, a \in Player : b.p[n] = a => b.g[n] \in DOMAIN b.group
  BY GroupsAreAt, Marks
<1>5. CASE is_vertical_bamboo_joint(b, m)
  <2>1. m + TOP \in Point /\ m + BOTTOM \in Point
    BY <1>5, SidePoints DEF is_vertical_bamboo_joint
  <2>2. \E a \in Player : b.p[m + TOP] = a /\ b.p[m + BOTTOM] = a
    BY <1>5 DEF is_vertical_bamboo_joint, AllOfOne
  <2>3. b.g[m + TOP] \in DOMAIN b.group /\ b.g[m + BOTTOM] \in DOMAIN b.group
    BY <1>4, <2>1, <2>2
  <2> HIDE DEF Joined
  <2> QED
    BY <1>2, <1>3, <1>5, <2>3
<1>6. CASE ~is_vertical_bamboo_joint(b, m) /\ is_horizontal_bamboo_joint(b, m)
  <2>1. m + LEFT \in Point /\ m + RIGHT \in Point
    BY <1>6, SidePoints DEF is_horizontal_bamboo_joint
  <2>2. \E a \in Player : b.p[m + LEFT] = a /\ b.p[m + RIGHT] = a
    BY <1>6 DEF is_horizontal_bamboo_joint, AllOfOne
  <2>3. b.g[m + LEFT] \in DOMAIN b.group /\ b.g[m + RIGHT] \in DOMAIN b.group
    BY <1>4, <2>1, <2>2
  <2> HIDE DEF Joined
  <2> QED
    BY <1>2, <1>3, <1>6, <2>3
<1> QED
  BY <1>1, <1>2, <1>5, <1>6

LEMMA OnPointTyped ==
  ASSUME NEW b, Kept(b, b.p), NEW c, NEW address \in Addresses,
         NEW e \in Estimates(b, c, address), NEW m \in Point
  PROVE  OnPoint(e, b, c, m, address) \in Estimates(b, c, address)
<1> DEFINE four == is_4pt_eye(b, c, m) \/ is_4pt_eye(b, Opponent(c), m)
<1>1. four => FreeSquare(b, m)
  BY DEF is_4pt_eye
<1>2. \/ OnPoint(e, b, c, m, address) = e
      \/ OnPoint(e, b, c, m, address) = OnEye(e, b, c, m)
      \/ OnPoint(e, b, c, m, address) = On2ptEye(e, b, c, m)
      \/ four /\ OnPoint(e, b, c, m, address) = On4ptEye(e, b, c, m, address)
      \/ OnPoint(e, b, c, m, address) = OnNakade(e, b, m, address)
      \/ OnPoint(e, b, c, m, address) = OnShape(e, b, m, address)
  BY DEF OnPoint
<1> QED
  BY <1>1, <1>2, OnEyeTyped, On2ptEyeTyped, On4ptEyeTyped, OnNakadeTyped, OnShapeTyped

OnPoints(e, b, c, order, address) ==
  FoldSteps(LAMBDA d, m : OnPoint(d, b, c, m, address), e, order)

LEMMA PointsSteps ==
  ASSUME NEW b, Kept(b, b.p), NEW c \in Player, NEW address \in Addresses,
         NEW e \in Estimates(b, c, address), NEW order \in Orders
  PROVE  \E r \in [0..TOTAL_BOARD_SIZ -> Estimates(b, c, address)] :
           /\ r[0] = e
           /\ \A k \in 1..TOTAL_BOARD_SIZ : r[k] = OnPoint(r[k - 1], b, c, order[k], address)
           /\ r[TOTAL_BOARD_SIZ] = OnPoints(e, b, c, order, address)
<1> DEFINE n == TOTAL_BOARD_SIZ
           V == Estimates(b, c, address)
           Step(d, x) == OnPoint(d, b, c, x, address)
           One(d, x) == CHOOSE w \in {Step(u, x) : u \in {d}} : TRUE
           F == [k \in 1..n |-> [d \in V |-> Step(d, order[k])]]
           f == CHOOSE g : g = [S \in SUBSET (DOMAIN order) |->
                  IF S = {} THEN e ELSE One(g[S \ {Max(S)}], order[Max(S)])]
<1>1. n \in Nat /\ DOMAIN order = 1..n /\ \A k \in 1..n : order[k] \in Point
  BY PointsAreFinite, OrderIsOfPoints
<1>2. OnPoints(e, b, c, order, address) = f[DOMAIN order]
  BY DEF OnPoints, FoldSteps, FoldLeft, MapThenFoldSet
<1>3. \A d, x : One(d, x) = Step(d, x)
  <2> TAKE d, x
  <2>1. {Step(u, x) : u \in {d}} = {Step(d, x)}
    OBVIOUS
  <2> QED
    BY <2>1
<1>4. \A k \in 1..n : \A d \in V : Step(d, order[k]) \in V
  BY <1>1, OnPointTyped
<1>5. e \in V
  BY DEF V
<1> HIDE DEF V, n, One, Step
<1>6. F \in [1..n -> [V -> V]]
  BY <1>4
<1>7. PICK g : IsFold(V, n, e, F, g)
  <2> HIDE DEF F
  <2> QED
    BY <1>1, <1>5, <1>6, FoldExists
<1>8. f = [S \in SUBSET (DOMAIN order) |->
             IF S = {} THEN e ELSE One(f[S \ {Max(S)}], order[Max(S)])]
  <2>1. ASSUME NEW S \in SUBSET (1..n), S # {}
        PROVE  g[S] = One(g[S \ {Max(S)}], order[Max(S)])
    <3>1. Max(S) \in 1..n /\ g[S \ {Max(S)}] \in V
      BY <1>1, <1>7, <2>1, MaxOfRange DEF IsFold
    <3>2. g[S] = F[Max(S)][g[S \ {Max(S)}]]
      BY <1>7, <2>1 DEF IsFold
    <3> QED
      BY <1>3, <3>1, <3>2
  <2>2. g = [S \in SUBSET (DOMAIN order) |->
               IF S = {} THEN e ELSE One(g[S \ {Max(S)}], order[Max(S)])]
    <3> HIDE DEF F
    <3> QED
      BY <1>1, <1>7, <2>1 DEF IsFold
  <2> QED
    BY <2>2, Zenon
<1> HIDE DEF f, F
<1>9. f[{}] \in V
  BY <1>5, <1>8
<1>10. ASSUME NEW k \in 1..n PROVE f[1..k] = One(f[1..(k - 1)], order[k])
  <2>1. /\ 1..k # {} /\ 1..k \in SUBSET (1..n) /\ Max(1..k) = k /\ (1..k) \ {k} = 1..(k - 1)
    BY <1>1, MaxOfInitial
  <2> QED
    BY <1>1, <1>8, <2>1
<1>11. \A k \in 0..n : f[1..k] \in V
  <2>1. ASSUME NEW k \in 1..n, f[1..(k - 1)] \in V PROVE f[1..k] \in V
    BY <1>3, <1>4, <1>10, <2>1
  <2> QED
    BY <1>1, <1>9, <2>1, FoldValues
<1> DEFINE r == [k \in 0..n |-> f[1..k]]
<1>12. r \in [0..n -> V]
  BY <1>11
<1>13. r[0] = e /\ r[n] = f[DOMAIN order]
  <2>1. 1..0 = {} /\ 0 \in 0..n /\ n \in 0..n
    BY <1>1
  <2> QED
    BY <1>1, <1>8, <2>1
<1>14. \A k \in 1..n : r[k] = Step(r[k - 1], order[k])
  <2> TAKE k \in 1..n
  <2>1. k \in 0..n /\ k - 1 \in 0..n
    BY <1>1
  <2> QED
    BY <1>3, <1>10, <2>1
<1> HIDE DEF r
<1> QED
  BY <1>1, <1>2, <1>12, <1>13, <1>14 DEF V, n, Step

LEMMA PointsTyped ==
  ASSUME NEW b, Kept(b, b.p), NEW c \in Player, NEW address \in Addresses,
         NEW e \in Estimates(b, c, address), NEW order \in Orders
  PROVE  OnPoints(e, b, c, order, address) \in Estimates(b, c, address)
BY PointsSteps, PointsAreFinite

-----------------------------------------------------------------------------
(***************************************************************************)
(* The passes after it keep the estimate.                                  *)
(***************************************************************************)
LEMMA FunctionIsList ==
  ASSUME NEW D, NEW k \in Nat, NEW f \in [1..k -> D]
  PROVE  f \in Seq(D)
OBVIOUS

LEMMA OneMoreEye ==
  ASSUME NEW D, NEW f \in [D -> Nat], NEW h
  PROVE  [f EXCEPT ![h] = @ + 1] \in [D -> Nat]
<1>1. CASE h \in D
  <2>1. f[h] + 1 \in Nat
    BY <1>1
  <2> QED
    BY <2>1
<1>2. CASE h \notin D
  BY <1>2
<1> QED
  BY <1>1, <1>2

LEMMA ShelteredGroups ==
  ASSUME NEW b, Kept(b, b.p), NEW m \in Point, sheltered_liberty(b, m)
  PROVE  \A n \in neighbors_side[m] : b.g[n] \in DOMAIN b.group
<1>1. PICK c \in Player : Own4(b, c, m) = 4
  BY DEF sheltered_liberty
<1> DEFINE N == neighbors_side[m]
           S == StonesIn(N, b.p, c)
<1>2. N \in SUBSET Point /\ S \in SUBSET N
  BY NeighborsAreMutual DEF StonesIn
<1>3. b.neighbors4[c][m] = Cardinality(S)
  BY DEF Kept, Around
<1>4. Cardinality(S) = Cardinality(N)
  <2>1. Cardinality(S) \in Nat /\ Cardinality(N) \in Nat /\ out_neighbors4[m] = 4 - Cardinality(N)
    BY <1>2, PointsAreFinite DEF out_neighbors4
  <2> HIDE DEF S, N
  <2> QED
    BY <1>1, <1>3, <2>1 DEF Own4
<1>5. S = N
  <2> HIDE DEF S, N
  <2> QED
    BY <1>2, <1>4, PointsAreFinite, FS_Subset
<1>6. \A n \in N : n \in Point /\ b.p[n] = c /\ c # EMPTY
  BY <1>2, <1>5, Marks DEF StonesIn
<1> QED
  BY <1>6, GroupsAreAt

LEMMA OnShelteredTyped ==
  ASSUME NEW b, Kept(b, b.p), NEW c, NEW address \in Addresses,
         NEW e \in Estimates(b, c, address), NEW m \in Point
  PROVE  OnSheltered(e, b, c, m, address) \in Estimates(b, c, address)
<1> DEFINE heads == [i \in DOMAIN Sides[m] |-> dragon_head(e, b.g[Sides[m][i]])]
           united == UniteAll(e, heads, address)
           d == [united EXCEPT !.eyes[Head(heads)] = @ + 1, !.okay = @ \ {m}]
<1>1. OnSheltered(e, b, c, m, address) \in {e, d}
  BY DEF OnSheltered
<1>2. OnSheltered(e, b, c, m, address) = e \/ sheltered_liberty(b, m)
  BY DEF OnSheltered
<1>3. ASSUME sheltered_liberty(b, m) PROVE d \in Estimates(b, c, address)
  <2>1. Sides[m] \in Seq(Point) /\ \A i \in DOMAIN Sides[m] : Sides[m][i] \in neighbors_side[m]
    BY NeighborsOfPoint DEF ToSet
  <2>2. \A i \in DOMAIN Sides[m] : heads[i] \in DOMAIN b.group
    BY <1>3, <2>1, ShelteredGroups, HeadTyped
  <2>3. heads \in Seq(DOMAIN b.group)
    <3>1. DOMAIN Sides[m] = 1..Len(Sides[m]) /\ Len(Sides[m]) \in Nat
      BY <2>1
    <3>2. heads \in [1..Len(Sides[m]) -> DOMAIN b.group]
      BY <2>2, <3>1
    <3> HIDE DEF heads
    <3> QED
      BY <3>1, <3>2, FunctionIsList
  <2> HIDE DEF heads
  <2>4. united \in Estimates(b, c, address)
    BY <2>3, UniteAllTyped
  <2> DEFINE D == DOMAIN b.group
             h == Head(heads)
  <2>5. united \in EstimateType(D) /\ Linked(united, address) /\ Spares(b, c, united)
    BY <2>4 DEF Estimates
  <2> HIDE DEF united, h
  <2>6. d \in EstimateType(D) /\ d.next = united.next /\ d.viable = united.viable
    <3> DEFINE eyes == [united.eyes EXCEPT ![h] = @ + 1]
    <3>1. eyes \in [D -> Nat] /\ united.okay \ {m} \in SUBSET Point
      <4>1. united.eyes \in [D -> Nat] /\ united.okay \in SUBSET Point
        BY <2>5 DEF EstimateType
      <4>2. eyes \in [D -> Nat]
        BY <4>1, OneMoreEye
      <4> QED
        BY <4>1, <4>2
    <3>2. d = [united EXCEPT !.eyes = eyes, !.okay = @ \ {m}]
      BY <2>5 DEF EstimateType, h
    <3> HIDE DEF d, eyes
    <3> QED
      BY <2>5, <3>1, <3>2 DEF EstimateType
  <2> HIDE DEF d
  <2>7. Linked(d, address) /\ Spares(b, c, d)
    BY <2>5, <2>6 DEF Linked, Spares
  <2> QED
    BY <2>6, <2>7 DEF Estimates
<1> QED
  BY <1>1, <1>2, <1>3

LEMMA BorrowTyped ==
  ASSUME NEW b, Kept(b, b.p), NEW c, NEW address \in Addresses,
         NEW e \in Estimates(b, c, address), NEW g1 \in DOMAIN b.group, NEW g2 \in DOMAIN b.group
  PROVE  Borrow(e, g1, g2) \in Estimates(b, c, address)
<1> DEFINE D == DOMAIN b.group
           h1 == dragon_head(e, g1)
           h2 == dragon_head(e, g2)
           more(n, k) == IF n > k THEN n ELSE k
           d == [e EXCEPT !.borrowed[h1] = more(e.eyes[h2], @), !.borrowed[h2] = more(e.eyes[h1], @)]
<1>1. h1 \in D /\ h2 \in D
  BY HeadTyped
<1>2. Borrow(e, g1, g2) \in {e, d}
  BY DEF Borrow
<1>3. e \in EstimateType(D) /\ Linked(e, address) /\ Spares(b, c, e)
  BY DEF Estimates
<1> HIDE DEF h1, h2
<1>4. d \in EstimateType(D) /\ d.next = e.next /\ d.viable = e.viable
  <2> DEFINE one == [e.borrowed EXCEPT ![h1] = more(e.eyes[h2], @)]
             two == [one EXCEPT ![h2] = more(e.eyes[h1], @)]
  <2>1. e.eyes[h1] \in Nat /\ e.eyes[h2] \in Nat /\ e.borrowed \in [D -> Nat]
    BY <1>1, <1>3 DEF EstimateType
  <2>2. one \in [D -> Nat]
    BY <1>1, <2>1
  <2>3. two \in [D -> Nat]
    <3> HIDE DEF one
    <3> QED
      BY <1>1, <2>1, <2>2
  <2>4. d = [e EXCEPT !.borrowed = two]
    BY <1>3 DEF EstimateType
  <2> HIDE DEF d, two
  <2> QED
    BY <1>3, <2>3, <2>4 DEF EstimateType
<1> HIDE DEF d
<1>5. Linked(d, address) /\ Spares(b, c, d)
  BY <1>3, <1>4 DEF Linked, Spares
<1> QED
  BY <1>2, <1>4, <1>5 DEF Estimates

LEMMA OnKosumiTyped ==
  ASSUME NEW b, Kept(b, b.p), NEW c, NEW address \in Addresses,
         NEW e \in Estimates(b, c, address), NEW m \in Point
  PROVE  OnKosumi(e, b, m) \in Estimates(b, c, address)
<1> DEFINE f == IF is_kosumi1(b, m) THEN Borrow(e, b.g[m + RIGHT], b.g[m + BOTTOM]) ELSE e
<1>1. \A n \in Point, a \in Player : b.p[n] = a => b.g[n] \in DOMAIN b.group
  BY GroupsAreAt, Marks
<1>2. f \in Estimates(b, c, address)
  <2>1. CASE is_kosumi1(b, m)
    <3>1. m + RIGHT \in Point /\ m + BOTTOM \in Point
      BY <2>1, SidePoints DEF is_kosumi1
    <3>2. \E a \in Player : b.p[m + RIGHT] = a /\ b.p[m + BOTTOM] = a
      BY <2>1 DEF is_kosumi1, AllOfOne
    <3> QED
      BY <1>1, <2>1, <3>1, <3>2, BorrowTyped
  <2>2. CASE ~is_kosumi1(b, m)
    BY <2>2
  <2> QED
    BY <2>1, <2>2
<1>3. ASSUME is_kosumi2(b, m)
      PROVE  Borrow(f, b.g[m + LEFT], b.g[m + BOTTOM]) \in Estimates(b, c, address)
  <2>1. m + LEFT \in Point /\ m + BOTTOM \in Point
    BY <1>3, SidePoints DEF is_kosumi2
  <2>2. \E a \in Player : b.p[m + LEFT] = a /\ b.p[m + BOTTOM] = a
    BY <1>3 DEF is_kosumi2, AllOfOne
  <2> HIDE DEF f
  <2> QED
    BY <1>1, <1>2, <2>1, <2>2, BorrowTyped
<1>4. OnKosumi(e, b, m) = IF m \notin b.empty THEN e
                          ELSE IF is_kosumi2(b, m) THEN Borrow(f, b.g[m + LEFT], b.g[m + BOTTOM]) ELSE f
  BY DEF OnKosumi
<1> HIDE DEF f
<1> QED
  BY <1>2, <1>3, <1>4

OnAllSheltered(e, b, c, order, address) ==
  FoldSteps(LAMBDA d, m : OnSheltered(d, b, c, m, address), e, order)

LEMMA ShelteredSteps ==
  ASSUME NEW b, Kept(b, b.p), NEW c \in Player, NEW address \in Addresses,
         NEW e \in Estimates(b, c, address), NEW order \in Orders
  PROVE  \E r \in [0..TOTAL_BOARD_SIZ -> Estimates(b, c, address)] :
           /\ r[0] = e
           /\ \A k \in 1..TOTAL_BOARD_SIZ : r[k] = OnSheltered(r[k - 1], b, c, order[k], address)
           /\ r[TOTAL_BOARD_SIZ] = OnAllSheltered(e, b, c, order, address)
<1> DEFINE n == TOTAL_BOARD_SIZ
           V == Estimates(b, c, address)
           Step(d, x) == OnSheltered(d, b, c, x, address)
           One(d, x) == CHOOSE w \in {Step(u, x) : u \in {d}} : TRUE
           F == [k \in 1..n |-> [d \in V |-> Step(d, order[k])]]
           f == CHOOSE g : g = [S \in SUBSET (DOMAIN order) |->
                  IF S = {} THEN e ELSE One(g[S \ {Max(S)}], order[Max(S)])]
<1>1. n \in Nat /\ DOMAIN order = 1..n /\ \A k \in 1..n : order[k] \in Point
  BY PointsAreFinite, OrderIsOfPoints
<1>2. OnAllSheltered(e, b, c, order, address) = f[DOMAIN order]
  BY DEF OnAllSheltered, FoldSteps, FoldLeft, MapThenFoldSet
<1>3. \A d, x : One(d, x) = Step(d, x)
  <2> TAKE d, x
  <2>1. {Step(u, x) : u \in {d}} = {Step(d, x)}
    OBVIOUS
  <2> QED
    BY <2>1
<1>4. \A k \in 1..n : \A d \in V : Step(d, order[k]) \in V
  BY <1>1, OnShelteredTyped
<1>5. e \in V
  BY DEF V
<1> HIDE DEF V, n, One, Step
<1>6. F \in [1..n -> [V -> V]]
  BY <1>4
<1>7. PICK g : IsFold(V, n, e, F, g)
  <2> HIDE DEF F
  <2> QED
    BY <1>1, <1>5, <1>6, FoldExists
<1>8. f = [S \in SUBSET (DOMAIN order) |->
             IF S = {} THEN e ELSE One(f[S \ {Max(S)}], order[Max(S)])]
  <2>1. ASSUME NEW S \in SUBSET (1..n), S # {}
        PROVE  g[S] = One(g[S \ {Max(S)}], order[Max(S)])
    <3>1. Max(S) \in 1..n /\ g[S \ {Max(S)}] \in V
      BY <1>1, <1>7, <2>1, MaxOfRange DEF IsFold
    <3>2. g[S] = F[Max(S)][g[S \ {Max(S)}]]
      BY <1>7, <2>1 DEF IsFold
    <3> QED
      BY <1>3, <3>1, <3>2
  <2>2. g = [S \in SUBSET (DOMAIN order) |->
               IF S = {} THEN e ELSE One(g[S \ {Max(S)}], order[Max(S)])]
    <3> HIDE DEF F
    <3> QED
      BY <1>1, <1>7, <2>1 DEF IsFold
  <2> QED
    BY <2>2, Zenon
<1> HIDE DEF f, F
<1>9. f[{}] \in V
  BY <1>5, <1>8
<1>10. ASSUME NEW k \in 1..n PROVE f[1..k] = One(f[1..(k - 1)], order[k])
  <2>1. /\ 1..k # {} /\ 1..k \in SUBSET (1..n) /\ Max(1..k) = k /\ (1..k) \ {k} = 1..(k - 1)
    BY <1>1, MaxOfInitial
  <2> QED
    BY <1>1, <1>8, <2>1
<1>11. \A k \in 0..n : f[1..k] \in V
  <2>1. ASSUME NEW k \in 1..n, f[1..(k - 1)] \in V PROVE f[1..k] \in V
    BY <1>3, <1>4, <1>10, <2>1
  <2> QED
    BY <1>1, <1>9, <2>1, FoldValues
<1> DEFINE r == [k \in 0..n |-> f[1..k]]
<1>12. r \in [0..n -> V]
  BY <1>11
<1>13. r[0] = e /\ r[n] = f[DOMAIN order]
  <2>1. 1..0 = {} /\ 0 \in 0..n /\ n \in 0..n
    BY <1>1
  <2> QED
    BY <1>1, <1>8, <2>1
<1>14. \A k \in 1..n : r[k] = Step(r[k - 1], order[k])
  <2> TAKE k \in 1..n
  <2>1. k \in 0..n /\ k - 1 \in 0..n
    BY <1>1
  <2> QED
    BY <1>3, <1>10, <2>1
<1> HIDE DEF r
<1> QED
  BY <1>1, <1>2, <1>12, <1>13, <1>14 DEF V, n, Step

LEMMA ShelteredTyped ==
  ASSUME NEW b, Kept(b, b.p), NEW c \in Player, NEW address \in Addresses,
         NEW e \in Estimates(b, c, address), NEW order \in Orders
  PROVE  OnAllSheltered(e, b, c, order, address) \in Estimates(b, c, address)
BY ShelteredSteps, PointsAreFinite

OnAllKosumi(e, b, order) ==
  FoldSteps(LAMBDA d, m : OnKosumi(d, b, m), e, order)

LEMMA KosumiSteps ==
  ASSUME NEW b, Kept(b, b.p), NEW c \in Player, NEW address \in Addresses,
         NEW e \in Estimates(b, c, address), NEW order \in Orders
  PROVE  \E r \in [0..TOTAL_BOARD_SIZ -> Estimates(b, c, address)] :
           /\ r[0] = e
           /\ \A k \in 1..TOTAL_BOARD_SIZ : r[k] = OnKosumi(r[k - 1], b, order[k])
           /\ r[TOTAL_BOARD_SIZ] = OnAllKosumi(e, b, order)
<1> DEFINE n == TOTAL_BOARD_SIZ
           V == Estimates(b, c, address)
           Step(d, x) == OnKosumi(d, b, x)
           One(d, x) == CHOOSE w \in {Step(u, x) : u \in {d}} : TRUE
           F == [k \in 1..n |-> [d \in V |-> Step(d, order[k])]]
           f == CHOOSE g : g = [S \in SUBSET (DOMAIN order) |->
                  IF S = {} THEN e ELSE One(g[S \ {Max(S)}], order[Max(S)])]
<1>1. n \in Nat /\ DOMAIN order = 1..n /\ \A k \in 1..n : order[k] \in Point
  BY PointsAreFinite, OrderIsOfPoints
<1>2. OnAllKosumi(e, b, order) = f[DOMAIN order]
  BY DEF OnAllKosumi, FoldSteps, FoldLeft, MapThenFoldSet
<1>3. \A d, x : One(d, x) = Step(d, x)
  <2> TAKE d, x
  <2>1. {Step(u, x) : u \in {d}} = {Step(d, x)}
    OBVIOUS
  <2> QED
    BY <2>1
<1>4. \A k \in 1..n : \A d \in V : Step(d, order[k]) \in V
  BY <1>1, OnKosumiTyped
<1>5. e \in V
  BY DEF V
<1> HIDE DEF V, n, One, Step
<1>6. F \in [1..n -> [V -> V]]
  BY <1>4
<1>7. PICK g : IsFold(V, n, e, F, g)
  <2> HIDE DEF F
  <2> QED
    BY <1>1, <1>5, <1>6, FoldExists
<1>8. f = [S \in SUBSET (DOMAIN order) |->
             IF S = {} THEN e ELSE One(f[S \ {Max(S)}], order[Max(S)])]
  <2>1. ASSUME NEW S \in SUBSET (1..n), S # {}
        PROVE  g[S] = One(g[S \ {Max(S)}], order[Max(S)])
    <3>1. Max(S) \in 1..n /\ g[S \ {Max(S)}] \in V
      BY <1>1, <1>7, <2>1, MaxOfRange DEF IsFold
    <3>2. g[S] = F[Max(S)][g[S \ {Max(S)}]]
      BY <1>7, <2>1 DEF IsFold
    <3> QED
      BY <1>3, <3>1, <3>2
  <2>2. g = [S \in SUBSET (DOMAIN order) |->
               IF S = {} THEN e ELSE One(g[S \ {Max(S)}], order[Max(S)])]
    <3> HIDE DEF F
    <3> QED
      BY <1>1, <1>7, <2>1 DEF IsFold
  <2> QED
    BY <2>2, Zenon
<1> HIDE DEF f, F
<1>9. f[{}] \in V
  BY <1>5, <1>8
<1>10. ASSUME NEW k \in 1..n PROVE f[1..k] = One(f[1..(k - 1)], order[k])
  <2>1. /\ 1..k # {} /\ 1..k \in SUBSET (1..n) /\ Max(1..k) = k /\ (1..k) \ {k} = 1..(k - 1)
    BY <1>1, MaxOfInitial
  <2> QED
    BY <1>1, <1>8, <2>1
<1>11. \A k \in 0..n : f[1..k] \in V
  <2>1. ASSUME NEW k \in 1..n, f[1..(k - 1)] \in V PROVE f[1..k] \in V
    BY <1>3, <1>4, <1>10, <2>1
  <2> QED
    BY <1>1, <1>9, <2>1, FoldValues
<1> DEFINE r == [k \in 0..n |-> f[1..k]]
<1>12. r \in [0..n -> V]
  BY <1>11
<1>13. r[0] = e /\ r[n] = f[DOMAIN order]
  <2>1. 1..0 = {} /\ 0 \in 0..n /\ n \in 0..n
    BY <1>1
  <2> QED
    BY <1>1, <1>8, <2>1
<1>14. \A k \in 1..n : r[k] = Step(r[k - 1], order[k])
  <2> TAKE k \in 1..n
  <2>1. k \in 0..n /\ k - 1 \in 0..n
    BY <1>1
  <2> QED
    BY <1>3, <1>10, <2>1
<1> HIDE DEF r
<1> QED
  BY <1>1, <1>2, <1>12, <1>13, <1>14 DEF V, n, Step

LEMMA KosumiTyped ==
  ASSUME NEW b, Kept(b, b.p), NEW c \in Player, NEW address \in Addresses,
         NEW e \in Estimates(b, c, address), NEW order \in Orders
  PROVE  OnAllKosumi(e, b, order) \in Estimates(b, c, address)
BY KosumiSteps, PointsAreFinite

\* The two loops of the strong connections.
UnitedIfStrong(d, b, i, j, address) ==
  LET g1 == b.group[b.unique_groups[i]]
      g2 == b.group[b.unique_groups[j]]
  IN IF /\ i < j
        /\ g1.liberties >= 3 /\ g2.liberties >= 3
        /\ g1.colour = g2.colour
        /\ groups_shared_liberties(g1, g2) > 2
     THEN unite_dragons(d, b.unique_groups[i], b.unique_groups[j], address) ELSE d

UnitedFrom(d, b, i, address) ==
  FoldSteps(LAMBDA f, j : UnitedIfStrong(f, b, i, j, address), d,
            [n \in 1..Len(b.unique_groups) |-> n])

LEMMA UnitedIfStrongTyped ==
  ASSUME NEW b, Kept(b, b.p), NEW c, NEW address \in Addresses,
         NEW e \in Estimates(b, c, address),
         NEW i \in 1..Len(b.unique_groups), NEW j \in 1..Len(b.unique_groups)
  PROVE  UnitedIfStrong(e, b, i, j, address) \in Estimates(b, c, address)
<1>1. b.unique_groups[i] \in DOMAIN b.group /\ b.unique_groups[j] \in DOMAIN b.group
  BY DEF Kept, Grouped, Indexed
<1> QED
  BY <1>1, UniteTyped DEF UnitedIfStrong

LEMMA UnitedFromSteps ==
  ASSUME NEW b, Kept(b, b.p), NEW c \in Player, NEW address \in Addresses,
         NEW e \in Estimates(b, c, address), NEW i \in 1..Len(b.unique_groups)
  PROVE  \E r \in [0..Len(b.unique_groups) -> Estimates(b, c, address)] :
           /\ r[0] = e
           /\ \A k \in 1..Len(b.unique_groups) : r[k] = UnitedIfStrong(r[k - 1], b, i, k, address)
           /\ r[Len(b.unique_groups)] = UnitedFrom(e, b, i, address)
<1> DEFINE n == Len(b.unique_groups)
           list == [k \in 1..Len(b.unique_groups) |-> k]
           V == Estimates(b, c, address)
           Step(d, x) == UnitedIfStrong(d, b, i, x, address)
           One(d, x) == CHOOSE w \in {Step(u, x) : u \in {d}} : TRUE
           F == [k \in 1..n |-> [d \in V |-> Step(d, list[k])]]
           f == CHOOSE g : g = [S \in SUBSET (DOMAIN list) |->
                  IF S = {} THEN e ELSE One(g[S \ {Max(S)}], list[Max(S)])]
<1>1. n \in Nat /\ DOMAIN list = 1..n /\ \A k \in 1..n : list[k] = k /\ n = Len(b.unique_groups)
  BY DEF Kept, Grouped, Indexed
<1>2. UnitedFrom(e, b, i, address) = f[DOMAIN list]
  BY DEF UnitedFrom, FoldSteps, FoldLeft, MapThenFoldSet
<1>3. \A d, x : One(d, x) = Step(d, x)
  <2> TAKE d, x
  <2>1. {Step(u, x) : u \in {d}} = {Step(d, x)}
    OBVIOUS
  <2> QED
    BY <2>1
<1>4. \A k \in 1..n : \A d \in V : Step(d, list[k]) \in V
  BY <1>1, UnitedIfStrongTyped
<1>5. e \in V
  BY DEF V
<1> HIDE DEF V, n, list, One, Step
<1>6. F \in [1..n -> [V -> V]]
  BY <1>4
<1>7. PICK g : IsFold(V, n, e, F, g)
  <2> HIDE DEF F
  <2> QED
    BY <1>1, <1>5, <1>6, FoldExists
<1>8. f = [S \in SUBSET (DOMAIN list) |->
             IF S = {} THEN e ELSE One(f[S \ {Max(S)}], list[Max(S)])]
  <2>1. ASSUME NEW S \in SUBSET (1..n), S # {}
        PROVE  g[S] = One(g[S \ {Max(S)}], list[Max(S)])
    <3>1. Max(S) \in 1..n /\ g[S \ {Max(S)}] \in V
      BY <1>1, <1>7, <2>1, MaxOfRange DEF IsFold
    <3>2. g[S] = F[Max(S)][g[S \ {Max(S)}]]
      BY <1>7, <2>1 DEF IsFold
    <3> QED
      BY <1>3, <3>1, <3>2
  <2>2. g = [S \in SUBSET (DOMAIN list) |->
               IF S = {} THEN e ELSE One(g[S \ {Max(S)}], list[Max(S)])]
    <3> HIDE DEF F
    <3> QED
      BY <1>1, <1>7, <2>1 DEF IsFold
  <2> QED
    BY <2>2, Zenon
<1> HIDE DEF f, F
<1>9. f[{}] \in V
  BY <1>5, <1>8
<1>10. ASSUME NEW k \in 1..n PROVE f[1..k] = One(f[1..(k - 1)], list[k])
  <2>1. /\ 1..k # {} /\ 1..k \in SUBSET (1..n) /\ Max(1..k) = k /\ (1..k) \ {k} = 1..(k - 1)
    BY <1>1, MaxOfInitial
  <2> QED
    BY <1>1, <1>8, <2>1
<1>11. \A k \in 0..n : f[1..k] \in V
  <2>1. ASSUME NEW k \in 1..n, f[1..(k - 1)] \in V PROVE f[1..k] \in V
    BY <1>3, <1>4, <1>10, <2>1
  <2> QED
    BY <1>1, <1>9, <2>1, FoldValues
<1> DEFINE r == [k \in 0..n |-> f[1..k]]
<1>12. r \in [0..n -> V]
  BY <1>11
<1>13. r[0] = e /\ r[n] = f[DOMAIN list]
  <2>1. 1..0 = {} /\ 0 \in 0..n /\ n \in 0..n
    BY <1>1
  <2> QED
    BY <1>1, <1>8, <2>1
<1>14. \A k \in 1..n : r[k] = Step(r[k - 1], list[k])
  <2> TAKE k \in 1..n
  <2>1. k \in 0..n /\ k - 1 \in 0..n
    BY <1>1
  <2> QED
    BY <1>3, <1>10, <2>1
<1> HIDE DEF r
<1> QED
  BY <1>1, <1>2, <1>12, <1>13, <1>14 DEF V, n, Step, list

LEMMA UnitedFromTyped ==
  ASSUME NEW b, Kept(b, b.p), NEW c \in Player, NEW address \in Addresses,
         NEW e \in Estimates(b, c, address), NEW i \in 1..Len(b.unique_groups)
  PROVE  UnitedFrom(e, b, i, address) \in Estimates(b, c, address)
<1>1. Len(b.unique_groups) \in Nat
  BY DEF Kept, Grouped, Indexed
<1>2. Len(b.unique_groups) \in 0..Len(b.unique_groups)
  BY <1>1
<1> QED
  BY <1>2, UnitedFromSteps

LEMMA StrongSteps ==
  ASSUME NEW b, Kept(b, b.p), NEW c \in Player, NEW address \in Addresses,
         NEW e \in Estimates(b, c, address)
  PROVE  \E r \in [0..Len(b.unique_groups) -> Estimates(b, c, address)] :
           /\ r[0] = e
           /\ \A k \in 1..Len(b.unique_groups) : r[k] = UnitedFrom(r[k - 1], b, k, address)
           /\ r[Len(b.unique_groups)] = StrongConnections(e, b, address)
<1> DEFINE n == Len(b.unique_groups)
           list == [k \in 1..Len(b.unique_groups) |-> k]
           V == Estimates(b, c, address)
           Step(d, x) == UnitedFrom(d, b, x, address)
           One(d, x) == CHOOSE w \in {Step(u, x) : u \in {d}} : TRUE
           F == [k \in 1..n |-> [d \in V |-> Step(d, list[k])]]
           f == CHOOSE g : g = [S \in SUBSET (DOMAIN list) |->
                  IF S = {} THEN e ELSE One(g[S \ {Max(S)}], list[Max(S)])]
<1>1. n \in Nat /\ DOMAIN list = 1..n /\ \A k \in 1..n : list[k] = k /\ n = Len(b.unique_groups)
  BY DEF Kept, Grouped, Indexed
<1>2. StrongConnections(e, b, address) = f[DOMAIN list]
  BY DEF StrongConnections, UnitedFrom, UnitedIfStrong, FoldSteps, FoldLeft, MapThenFoldSet
<1>3. \A d, x : One(d, x) = Step(d, x)
  <2> TAKE d, x
  <2>1. {Step(u, x) : u \in {d}} = {Step(d, x)}
    OBVIOUS
  <2> QED
    BY <2>1
<1>4. \A k \in 1..n : \A d \in V : Step(d, list[k]) \in V
  BY <1>1, UnitedFromTyped
<1>5. e \in V
  BY DEF V
<1> HIDE DEF V, n, list, One, Step
<1>6. F \in [1..n -> [V -> V]]
  BY <1>4
<1>7. PICK g : IsFold(V, n, e, F, g)
  <2> HIDE DEF F
  <2> QED
    BY <1>1, <1>5, <1>6, FoldExists
<1>8. f = [S \in SUBSET (DOMAIN list) |->
             IF S = {} THEN e ELSE One(f[S \ {Max(S)}], list[Max(S)])]
  <2>1. ASSUME NEW S \in SUBSET (1..n), S # {}
        PROVE  g[S] = One(g[S \ {Max(S)}], list[Max(S)])
    <3>1. Max(S) \in 1..n /\ g[S \ {Max(S)}] \in V
      BY <1>1, <1>7, <2>1, MaxOfRange DEF IsFold
    <3>2. g[S] = F[Max(S)][g[S \ {Max(S)}]]
      BY <1>7, <2>1 DEF IsFold
    <3> QED
      BY <1>3, <3>1, <3>2
  <2>2. g = [S \in SUBSET (DOMAIN list) |->
               IF S = {} THEN e ELSE One(g[S \ {Max(S)}], list[Max(S)])]
    <3> HIDE DEF F
    <3> QED
      BY <1>1, <1>7, <2>1 DEF IsFold
  <2> QED
    BY <2>2, Zenon
<1> HIDE DEF f, F
<1>9. f[{}] \in V
  BY <1>5, <1>8
<1>10. ASSUME NEW k \in 1..n PROVE f[1..k] = One(f[1..(k - 1)], list[k])
  <2>1. /\ 1..k # {} /\ 1..k \in SUBSET (1..n) /\ Max(1..k) = k /\ (1..k) \ {k} = 1..(k - 1)
    BY <1>1, MaxOfInitial
  <2> QED
    BY <1>1, <1>8, <2>1
<1>11. \A k \in 0..n : f[1..k] \in V
  <2>1. ASSUME NEW k \in 1..n, f[1..(k - 1)] \in V PROVE f[1..k] \in V
    BY <1>3, <1>4, <1>10, <2>1
  <2> QED
    BY <1>1, <1>9, <2>1, FoldValues
<1> DEFINE r == [k \in 0..n |-> f[1..k]]
<1>12. r \in [0..n -> V]
  BY <1>11
<1>13. r[0] = e /\ r[n] = f[DOMAIN list]
  <2>1. 1..0 = {} /\ 0 \in 0..n /\ n \in 0..n
    BY <1>1
  <2> QED
    BY <1>1, <1>8, <2>1
<1>14. \A k \in 1..n : r[k] = Step(r[k - 1], list[k])
  <2> TAKE k \in 1..n
  <2>1. k \in 0..n /\ k - 1 \in 0..n
    BY <1>1
  <2> QED
    BY <1>3, <1>10, <2>1
<1> HIDE DEF r
<1> QED
  BY <1>1, <1>2, <1>12, <1>13, <1>14 DEF V, n, Step, list

LEMMA StrongTyped ==
  ASSUME NEW b, Kept(b, b.p), NEW c \in Player, NEW address \in Addresses,
         NEW e \in Estimates(b, c, address)
  PROVE  StrongConnections(e, b, address) \in Estimates(b, c, address)
BY StrongSteps DEF Kept, Grouped, Indexed

\* What estimate_eyes gives.
LEMMA EstimateIsSound ==
  ASSUME NEW b, Kept(b, b.p), NEW c \in Player, NEW order \in Orders, NEW address \in Addresses,
         NEW e, e = estimate_eyes(b, c, order, address)
  PROVE  e \in EstimateType(DOMAIN b.group) /\ Spares(b, c, e)
<1> DEFINE V == Estimates(b, c, address)
           D == DOMAIN b.group
           shapes == OnPoints(NewEstimate(b), b, c, order, address)
           strong == StrongConnections(shapes, b, address)
           sheltered == OnAllSheltered(strong, b, c, order, address)
           last == OnAllKosumi(sheltered, b, order)
<1>1. shapes \in V
  BY NewEstimateTyped, PointsTyped
<1> HIDE DEF shapes
<1>2. strong \in V
  BY <1>1, StrongTyped
<1> HIDE DEF strong
<1>3. sheltered \in V
  BY <1>2, ShelteredTyped
<1> HIDE DEF sheltered
<1>4. last \in V
  BY <1>3, KosumiTyped
<1>5. e = EyesOfDragons(last)
  BY Zenon DEF estimate_eyes, OnPoints, OnAllSheltered, OnAllKosumi, shapes, strong, sheltered
<1> HIDE DEF last
<1>6. last \in EstimateType(D) /\ Spares(b, c, last)
  BY <1>4 DEF Estimates
<1> DEFINE eyes == [h \in D |-> last.eyes[dragon_head(last, h)] + last.borrowed[dragon_head(last, h)]]
<1>7. \A h \in D : dragon_head(last, h) \in D
  BY <1>4, HeadTyped
<1>8. eyes \in [D -> Nat]
  <2>1. last.eyes \in [D -> Nat] /\ last.borrowed \in [D -> Nat]
    BY <1>6 DEF EstimateType
  <2> QED
    BY <1>7, <2>1
<1>9. e = [last EXCEPT !.eyes = eyes]
  BY <1>5, <1>6 DEF EyesOfDragons, EstimateType
<1> HIDE DEF eyes
<1>10. e \in EstimateType(D) /\ e.viable = last.viable
  BY <1>6, <1>8, <1>9 DEF EstimateType
<1> QED
  BY <1>6, <1>10 DEF Spares

-----------------------------------------------------------------------------
(***************************************************************************)
(* The plays offered after an expansion.                                   *)
(***************************************************************************)
\* An expansion leaves eyes and legal plays what they are.
LEMMA ExaminedShows ==
  ASSUME NEW b, Kept(b, b.p), NEW c \in Player, KoAgainst(b, c), NEW points \in SUBSET Point,
         NEW d, d = Examined(b, c, points), NEW m \in Point
  PROVE  /\ DOMAIN d.group = DOMAIN b.group
         /\ is_eye(d, c, m) <=> is_eye(b, c, m)
         /\ can_play(d, c, m) <=> can_play(b, c, m)
<1> DEFINE low(h) == Lowest({gr[h].liberties_min_coord :
                               gr \in {libs_after_play(b, c, n).cb.group : n \in points}
                                      \cup {b.group}})
           gr1 == [h \in DOMAIN b.group |-> [b.group[h] EXCEPT !.liberties_min_coord = low(h)]]
<1>1. d = [b EXCEPT !.group = gr1]
  BY DEF Examined
<1>2. DOMAIN gr1 = DOMAIN b.group
  OBVIOUS
<1> HIDE DEF gr1
<1>3. d.group = gr1 /\ d.hash = b.hash
  BY <1>1 DEF Kept, Grouped, IsFast
<1>4. is_eye(d, c, m) <=> is_eye(b, c, m)
  BY <1>3 DEF is_eye
<1>5. /\ Kept(d, d.p) /\ d.p = b.p
      /\ d.last_played = b.last_played /\ d.last_eaten = b.last_eaten
  BY ExaminedKeeps
<1>6. KoAgainst(d, c)
  BY <1>5, SameKoAgainst
<1>7. Slow(d) = Slow(b)
  BY <1>5 DEF Slow
<1>8. can_play(d, c, m) <=> can_play(b, c, m)
  BY <1>5, <1>6, <1>7, SameLegality
<1> QED
  BY <1>2, <1>3, <1>4, <1>8

LEMMA OffersCompleteStep ==
  BoardInv /\ OffersComplete /\ [Next]_vars => OffersComplete'
<1> SUFFICES ASSUME BoardInv, OffersComplete, [Next]_vars, phase' = "expanded"
             PROVE  OffersComplete'
  BY DEF OffersComplete
<1>1. CASE Expand
  <2> DEFINE offered == Offered(cb, colour, estimate')
             points == Candidates(cb, estimate')
  <2>1. phase = "new" /\ colour' = colour /\ cb' = Examined(cb, colour, points)
    BY <1>1, Expanded
  <2>2. Spares(cb, colour, estimate')
    <3>1. PICK order \in Orders, address \in Addresses :
            estimate' = estimate_eyes(cb, colour, order, address)
      BY <1>1, Expanded
    <3> QED
      BY <3>1, EstimateIsSound DEF BoardInv
  <2>3. DOMAIN stats' = offered \cup {n \in {PASS} : PassOffered(cb, offered)}
    <3>1. PICK patterns \in {{}, Point} :
            stats' = Priors(cb, colour, estimate', saving_play', capturable', patterns)
      BY <1>1, Expanded
    <3>2. DOMAIN stats' = AllOffered(cb, colour, estimate')
      BY <3>1, DomainOfPriors
    <3> QED
      BY <3>2 DEF AllOffered
  <2>4. /\ colour \in Player /\ Kept(cb, cb.p) /\ cb.empty = FreeOf(cb.p)
        /\ KoAgainst(cb, colour)
    BY <2>1 DEF BoardInv
  <2>5. points \in SUBSET Point /\ offered \subseteq points /\ PASS \notin Point
    BY <2>4, CandidatesFree, Marks DEF Offered
  <2>6. \A m \in Point : m \in DOMAIN stats' <=> m \in offered
    BY <2>3, <2>5
  <2>7. DOMAIN stats' # {}
    BY <2>3, <2>5, SomethingOffered
  <2>8. \A m \in Point : /\ is_eye(cb', colour, m) <=> is_eye(cb, colour, m)
                         /\ can_play(cb', colour, m) <=> can_play(cb, colour, m)
    <3> HIDE DEF points
    <3> QED
      BY <2>1, <2>4, <2>5, ExaminedShows
  <2>9. cb'.p = cb.p
    <3> HIDE DEF points
    <3> QED
      BY <2>1, <2>4, <2>5, ExaminedKeeps
  <2>10. \A m \in DOMAIN stats' \ {PASS} : can_play(cb', colour, m)
    <3> TAKE m \in DOMAIN stats' \ {PASS}
    <3>1. m \in Point /\ m \in offered
      BY <2>3, <2>5
    <3> QED
      BY <2>2, <2>4, <2>8, <3>1, PlaysOffered
  <2>11. \A m \in Point \ DOMAIN stats' :
           \/ ~can_play(cb', colour, m)
           \/ is_eye(cb', colour, m)
           \/ out_neighbors4[m] > 0 /\ \A n \in nei_dst_3[m] : cb'.p[n] = EMPTY
    <3> TAKE m \in Point \ DOMAIN stats'
    <3>1. m \notin offered
      BY <2>6
    <3> QED
      BY <2>2, <2>4, <2>8, <2>9, <3>1, PlaysOffered
  <2> QED
    BY <2>1, <2>7, <2>10, <2>11 DEF OffersComplete
<1>2. ASSUME NEW m \in Point \cup {PASS}, Select(m) PROVE OffersComplete'
  <2>1. phase' \in {"over", "new"}
    BY <1>2 DEF Select
  <2> QED
    BY <2>1
<1>3. CASE UNCHANGED vars
  BY <1>3 DEF OffersComplete, vars, tables
<1> QED
  BY <1>1, <1>2, <1>3 DEF Next

\* Whatever the estimate of eyes, every play that an expansion offers the search is
\* legal, and it offers every legal play but those in an own eye and those at the edge
\* with no stone around; it offers one at least.
THEOREM SearchDeniedNothing == Spec => []OffersComplete
<1>1. Init => OffersComplete
  BY DEF Init, OffersComplete
<1>2. Init => BoardInv
  BY BoardInvInit
<1>3. BoardInv /\ OffersComplete /\ [Next]_vars => BoardInv' /\ OffersComplete'
  BY BoardInvStep, OffersCompleteStep
<1> QED
  BY <1>1, <1>2, <1>3, PTL DEF Spec

-----------------------------------------------------------------------------
(***************************************************************************)
(* What is at stake.                                                       *)
(***************************************************************************)
LEMMA FitsU16 ==
  ASSUME NEW k \in Int
  PROVE  k % U16 \in 0..(U16 - 1)
BY U16IsLarge, SMT

\* The stakes of finitely many reads of a play fit in a u16.
LEMMA AtStakeTyped ==
  ASSUME NEW b, Kept(b, b.p), NEW reads, \A r \in reads : r[1] \in DOMAIN b.group,
         \A m \in Point : IsFiniteSet({r \in reads : r[2] = m})
  PROVE  AtStake(b, reads) \in [Point -> 0..(U16 - 1)]
<1> DEFINE V == 0..(U16 - 1)
           Add(r, n) == (n + Stakes(b.group[r[1]])) % U16
<1>1. \A r \in reads : Stakes(b.group[r[1]]) \in Int
  <2> TAKE r \in reads
  <2>1. b.group[r[1]] \in GroupType
    BY GroupsAreAt
  <2>2. b.group[r[1]].stones \in SUBSET Point /\ b.group[r[1]].liberties \in Int
    BY <2>1 DEF GroupType
  <2> QED
    BY <2>2, FewPoints DEF Stakes
<1>2. \A r \in reads : \A n \in V : Add(r, n) \in V
  <2> TAKE r \in reads
  <2> TAKE n \in V
  <2>1. n + Stakes(b.group[r[1]]) \in Int
    BY <1>1
  <2> QED
    BY <2>1, FitsU16
<1>3. 0 \in V
  BY U16IsLarge, SMT
<1> HIDE DEF V, Add
<1>4. ASSUME NEW m \in Point
      PROVE  FoldSet(LAMBDA r, n : (n + Stakes(b.group[r[1]])) % U16, 0, {r \in reads : r[2] = m})
               \in V
  <2> DEFINE S == {r \in reads : r[2] = m}
             f == CHOOSE g : g = [s \in SUBSET S |->
                    IF s = {} THEN 0 ELSE Add(CHOOSE x \in s : TRUE, g[s \ {CHOOSE x \in s : TRUE}])]
             F == [r \in S |-> [n \in V |-> Add(r, n)]]
  <2>1. FoldSet(LAMBDA r, n : (n + Stakes(b.group[r[1]])) % U16, 0, S) = f[S]
    BY DEF FoldSet, MapThenFoldSet, Add
  <2>2. IsFiniteSet(S) /\ \A r \in S : r \in reads
    OBVIOUS
  <2> HIDE DEF S
  <2>3. F \in [S -> [V -> V]]
    BY <1>2, <2>2
  <2>4. PICK g : IsSetFold(V, S, 0, F, g)
    <3> HIDE DEF F
    <3> QED
      BY <1>3, <2>2, <2>3, SetFoldExists
  <2>5. ASSUME NEW s \in SUBSET S, s # {}
        PROVE  g[s] = Add(CHOOSE x \in s : TRUE, g[s \ {CHOOSE x \in s : TRUE}])
    <3>1. Chosen(s) \in S /\ s \ {Chosen(s)} \in SUBSET S
      BY <2>2, <2>5, ChosenApart
    <3>2. g[s] = F[Chosen(s)][g[s \ {Chosen(s)}]] /\ g[s \ {Chosen(s)}] \in V
      BY <2>4, <2>5, <3>1 DEF IsSetFold
    <3> QED
      BY <3>1, <3>2 DEF Chosen
  <2>6. g = [s \in SUBSET S |->
               IF s = {} THEN 0 ELSE Add(CHOOSE x \in s : TRUE, g[s \ {CHOOSE x \in s : TRUE}])]
    <3> HIDE DEF F
    <3> QED
      BY <2>4, <2>5 DEF IsSetFold
  <2>7. f = [s \in SUBSET S |->
               IF s = {} THEN 0 ELSE Add(CHOOSE x \in s : TRUE, f[s \ {CHOOSE x \in s : TRUE}])]
    BY <2>6, Zenon
  <2> DEFINE T == {s \in SUBSET S : f[s] \in V}
  <2> HIDE DEF f, F
  <2>8. {} \in T
    BY <1>3, <2>7
  <2>9. ASSUME NEW s \in SUBSET S, s # {}, s \ {Chosen(s)} \in T PROVE s \in T
    <3>1. Chosen(s) \in S
      BY <2>2, <2>9, ChosenApart
    <3>2. f[s] = Add(Chosen(s), f[s \ {Chosen(s)}])
      BY <2>7, <2>9 DEF Chosen
    <3> QED
      BY <1>2, <2>2, <2>9, <3>1, <3>2
  <2>10. S \in T
    <3> HIDE DEF T
    <3>1. \A s \in SUBSET S : s # {} /\ s \ {Chosen(s)} \in T => s \in T
      BY <2>9
    <3> QED
      BY <2>2, <2>8, <3>1, InductionOnSets
  <2>11. f[S] \in V
    BY <2>10
  <2> QED
    BY <2>1, <2>11 DEF S
<1> QED
  BY <1>4 DEF AtStake, V

\* What is read of a play is finite.
LEMMA ReadsOfPlay ==
  ASSUME NEW D \in SUBSET Point, NEW reads, NEW m \in Point,
         \A r \in reads : r[2] = m =>
           \/ \E h \in D : r = <<h, m>>
           \/ \E h \in D, k \in Point \cup {NONE} : r = <<h, m, k>>
  PROVE  IsFiniteSet({r \in reads : r[2] = m})
<1> DEFINE S == {r \in reads : r[2] = m}
           P == D \X (Point \cup {NONE})
           Short == {r \in S : \E h \in D : r = <<h, m>>}
           Long == {r \in S : \E h \in D, k \in Point \cup {NONE} : r = <<h, m, k>>}
           f == [r \in Long |-> <<r[1], r[3]>>]
           g == [r \in Short |-> r[1]]
<1>1. IsFiniteSet(D) /\ IsFiniteSet(P)
  <2>1. IsFiniteSet(D) /\ IsFiniteSet(Point)
    BY PointsAreFinite
  <2>2. IsFiniteSet(Point \cup {NONE})
    BY <2>1, FS_AddElement
  <2> QED
    BY <2>1, <2>2, FS_Product
<1>2. f \in Injection(Long, P)
  <2>1. \A r \in Long : \E h \in D, k \in Point \cup {NONE} :
          r = <<h, m, k>> /\ r[1] = h /\ r[3] = k
    OBVIOUS
  <2>2. f \in [Long -> P]
    BY <2>1
  <2>3. \A r, s \in Long : f[r] = f[s] => r = s
    BY <2>1
  <2> QED
    BY <2>2, <2>3 DEF Injection, IsInjective
<1>3. g \in Injection(Short, D)
  <2>1. \A r \in Short : \E h \in D : r = <<h, m>> /\ r[1] = h
    OBVIOUS
  <2> QED
    BY <2>1 DEF Injection, IsInjective
<1>4. S = Short \cup Long
  OBVIOUS
<1> HIDE DEF S, Short, Long, f, g, P
<1>5. IsFiniteSet(Short) /\ IsFiniteSet(Long)
  BY <1>1, <1>2, <1>3, FS_Injection
<1>6. IsFiniteSet(S)
  BY <1>4, <1>5, FS_Union
<1> QED
  BY <1>6 DEF S

\* What saves a group is tried for one of its neighbours, or for none.
LEMMA ReasonsAreTyped ==
  ASSUME NEW b, Kept(b, b.p), NEW h \in DOMAIN b.group, NEW r \in can_be_saved_all(b, h)
  PROVE  r[2] \in Point \cup {NONE}
<1>1. r \in SavingReasons(b, h)
  BY DEF can_be_saved_all
<1>2. b.group[h].neighbors \in SUBSET Point
  <2>1. b.group[h] \in GroupType
    BY GroupsAreAt
  <2> QED
    BY <2>1 DEF GroupType
<1>3. \/ \E k \in b.group[h].neighbors : r = <<get_1st_liberty(b.group[k]), k>>
      \/ \E m \in ThreeLiberties(b.group[h]) : r = <<m, NONE>>
  BY <1>1 DEF SavingReasons
<1> QED
  BY <1>2, <1>3

LEMMA SavesTyped ==
  ASSUME NEW b, Kept(b, b.p), NEW c, NEW eyes
  PROVE  AtStake(b, Saves(b, c, eyes)) \in [Point -> 0..(U16 - 1)]
<1> DEFINE D == DOMAIN b.group
           reads == Saves(b, c, eyes)
<1>1. ASSUME NEW r \in reads
      PROVE  \E h \in D, k \in Point \cup {NONE} : \E m : r = <<h, m, k>>
  <2>1. PICK h \in D : \E q \in can_be_saved_all(b, h) : r = <<h, q[1], q[2]>>
    BY <1>1 DEF Saves
  <2>2. PICK q \in can_be_saved_all(b, h) : r = <<h, q[1], q[2]>>
    BY <2>1
  <2> QED
    BY <2>2, ReasonsAreTyped
<1> HIDE DEF reads
<1>2. \A r \in reads : r[1] \in D
  BY <1>1
<1>3. ASSUME NEW m \in Point PROVE IsFiniteSet({r \in reads : r[2] = m})
  <2>1. \A r \in reads : r[2] = m =>
          \/ \E h \in D : r = <<h, m>>
          \/ \E h \in D, k \in Point \cup {NONE} : r = <<h, m, k>>
    BY <1>1
  <2>2. D \in SUBSET Point
    BY GroupsAreAt
  <2> QED
    BY <2>1, <2>2, ReadsOfPlay
<1>4. AtStake(b, reads) \in [Point -> 0..(U16 - 1)]
  BY <1>2, <1>3, AtStakeTyped
<1> QED
  BY <1>4 DEF reads

LEMMA KillsTyped ==
  ASSUME NEW b, Kept(b, b.p), NEW c, NEW eyes
  PROVE  AtStake(b, Kills(b, c, eyes)) \in [Point -> 0..(U16 - 1)]
<1> DEFINE D == DOMAIN b.group
           reads == Kills(b, c, eyes)
<1>1. ASSUME NEW r \in reads PROVE \E h \in D : \E m : r = <<h, m>>
  BY <1>1 DEF Kills
<1> HIDE DEF reads
<1>2. \A r \in reads : r[1] \in D
  BY <1>1
<1>3. ASSUME NEW m \in Point PROVE IsFiniteSet({r \in reads : r[2] = m})
  <2>1. \A r \in reads : r[2] = m =>
          \/ \E h \in D : r = <<h, m>>
          \/ \E h \in D, k \in Point \cup {NONE} : r = <<h, m, k>>
    BY <1>1
  <2>2. D \in SUBSET Point
    BY GroupsAreAt
  <2> QED
    BY <2>1, <2>2, ReadsOfPlay
<1>4. AtStake(b, reads) \in [Point -> 0..(U16 - 1)]
  BY <1>2, <1>3, AtStakeTyped
<1> QED
  BY <1>4 DEF reads

-----------------------------------------------------------------------------
(***************************************************************************)
(* The plays offered have more visits than wins.                           *)
(***************************************************************************)
LEMMA CountsOfU16 ==
  ASSUME NEW k \in 0..(U16 - 1)
  PROVE  k \in Nat /\ (k > 0 => k \in 1..(U16 - 1))
BY U16IsLarge

LEMMA PenaltyTyped ==
  ASSUME NEW b, NEW c, NEW m, NEW e, NEW captures
  PROVE  Penalty(b, c, m, e, captures) \in Nat
<1>1. \A test, n : n \in Nat => When(test, n) \in Nat
  BY DEF When
<1>2. /\ PRIOR_BAD_PLAY \in Nat /\ PRIOR_SELF_ATARI \in Nat /\ PRIOR_LINE2 \in Nat
      /\ PRIOR_CORNER \in Nat
  BY DEF PRIOR_BAD_PLAY, PRIOR_SELF_ATARI, PRIOR_LINE2, PRIOR_CORNER
<1> DEFINE alone == stones_in_manhattan_dst3(b, m) = 0
           own == When(m \notin e.okay \/ safe_tigers_mouth(b, c, m), PRIOR_BAD_PLAY)
           bare == When(out_neighbors4[m] = 2 /\ b.neighbors8[Opponent(c)][m] = 0, PRIOR_BAD_PLAY)
           atari == When(/\ captures[0] = 0
                         /\ libs_after_play(b, c, m).libs < 2 /\ lib2_self_atari(b, c, m),
                         PRIOR_SELF_ATARI)
           line == When(alone /\ distances_to_border[m] = 1, PRIOR_LINE2)
           corner == When(out_neighbors4[m] = 2, PRIOR_CORNER)
<1>3. /\ own \in Nat /\ bare \in Nat /\ atari \in Nat /\ line \in Nat /\ corner \in Nat
  BY <1>1, <1>2, Zenon
<1>4. Penalty(b, c, m, e, captures) = own + bare + atari + line + corner
  BY Zenon DEF Penalty
<1> HIDE DEF own, bare, atari, line, corner
<1> QED
  BY <1>3, <1>4

LEMMA BonusTyped ==
  ASSUME NEW b, NEW c, NEW m \in Point, NEW D, NEW e \in EstimateType(D), NEW eyes,
         NEW saves \in [Point -> 0..(U16 - 1)], NEW captures \in [Point -> 0..(U16 - 1)],
         NEW patterns
  PROVE  Bonus(b, c, m, e, eyes, saves, captures, patterns) \in Nat
<1>1. \A test, n : n \in Nat => When(test, n) \in Nat
  BY DEF When
<1>2. \A k \in 0..(U16 - 1) : k > 0 => Scaled[k] \in Nat
  <2>1. Scaled \in [1..(U16 - 1) -> 0..(U16 - 1)]
    BY ExpansionAssumption
  <2>2. \A k \in 0..(U16 - 1) : k \in Nat /\ (k > 0 => k \in 1..(U16 - 1))
    BY CountsOfU16
  <2> QED
    BY <2>1, <2>2, Zenon
<1>3. e.nakade[m] \in 0..(U16 - 1)
  BY DEF EstimateType
<1>4. When(e.nakade[m] > 0 /\ eyes[get_closest_group(b, m)] < 2,
           PRIOR_NAKADE + Scaled[e.nakade[m]]) \in Nat
  BY <1>2, <1>3 DEF When, PRIOR_NAKADE
<1>5. /\ When(saves[m] > 0, PRIOR_DEFEND + Scaled[saves[m]]) \in Nat
      /\ When(captures[m] > 0, PRIOR_ATTACK + Scaled[captures[m]]) \in Nat
  <2>1. saves[m] \in 0..(U16 - 1) /\ captures[m] \in 0..(U16 - 1)
    OBVIOUS
  <2> QED
    BY <1>2, <2>1 DEF When, PRIOR_DEFEND, PRIOR_ATTACK
<1>6. /\ PRIOR_PAT3 \in Nat /\ PRIOR_NEAR_LAST \in Nat /\ PRIOR_LINE3 \in Nat
      /\ PRIOR_EMPTY \in Nat /\ PRIOR_STARTING \in Nat
  BY DEF PRIOR_PAT3, PRIOR_NEAR_LAST, PRIOR_LINE3, PRIOR_EMPTY, PRIOR_STARTING
<1> QED
  BY <1>1, <1>4, <1>5, <1>6 DEF Bonus

LEMMA PriorsTyped ==
  ASSUME NEW b, NEW c, NEW D, NEW e \in EstimateType(D),
         Candidates(b, e) \in SUBSET Point,
         NEW saves \in [Point -> 0..(U16 - 1)], NEW captures \in [Point -> 0..(U16 - 1)],
         NEW patterns, NEW s, s = Priors(b, c, e, saves, captures, patterns)
  PROVE  \A m \in DOMAIN s : s[m].mc_v > 0 /\ s[m].mc_w \in 0..s[m].mc_v
<1> DEFINE bonus(m) == Bonus(b, c, m, e, e.eyes, saves, captures, patterns)
           penalty(m) == Penalty(b, c, m, e, captures)
<1>1. SUFFICES ASSUME NEW m \in DOMAIN s
               PROVE  s[m].mc_v > 0 /\ s[m].mc_w \in 0..s[m].mc_v
  OBVIOUS
<1>2. m \in Offered(b, c, e) \/ m = PASS
  <2>1. DOMAIN s = AllOffered(b, c, e)
    BY DomainOfPriors
  <2> QED
    BY <1>1, <2>1 DEF AllOffered
<1>3. s[m] = IF m = PASS
             THEN [mc_w |-> (PRIOR_PASS * UCT_RESIGN_WINRATE) \div 100, mc_v |-> PRIOR_PASS]
             ELSE [mc_w |-> PRIOR_EVEN + bonus(m), mc_v |-> Visits(bonus(m), penalty(m))]
  BY <1>1 DEF Priors
<1>4. CASE m = PASS
  <2>1. (130 * 20) \div 100 = 26
    OBVIOUS
  <2> QED
    BY <1>3, <1>4, <2>1 DEF PRIOR_PASS, UCT_RESIGN_WINRATE
<1>5. CASE m # PASS
  <2>1. m \in Point
    BY <1>2, <1>5 DEF Offered
  <2>2. bonus(m) \in Nat /\ penalty(m) \in Nat
    BY <2>1, BonusTyped, PenaltyTyped
  <2> HIDE DEF bonus, penalty
  <2> QED
    BY <1>3, <1>5, <2>2 DEF Visits, PRIOR_EVEN
<1> QED
  BY <1>4, <1>5

-----------------------------------------------------------------------------
LEMMA TypeOKStep == BoardInv /\ TypeOK /\ [Next]_vars => TypeOK'
<1> SUFFICES ASSUME BoardInv, TypeOK, [Next]_vars PROVE TypeOK'
  OBVIOUS
<1>1. BoardInv'
  BY BoardInvStep
<1>2. /\ colour' \in Player /\ phase' \in {"new", "expanded", "over"} /\ plays' \in 0..MaxPlays
      /\ phase' = "expanded" => DOMAIN stats' \subseteq cb'.empty \cup {PASS}
  BY <1>1 DEF BoardInv, PlaysFromFree
<1>3. CASE Expand
  <2> DEFINE points == Candidates(cb, estimate')
             D == DOMAIN cb.group
  <2>1. phase = "new" /\ phase' = "expanded" /\ cb' = Examined(cb, colour, points)
    BY <1>3, Expanded
  <2>2. PICK order \in Orders, address \in Addresses, patterns \in {{}, Point} :
          /\ estimate' = estimate_eyes(cb, colour, order, address)
          /\ saving_play' = AtStake(cb, Saves(cb, colour, estimate'.eyes))
          /\ capturable' = AtStake(cb, Kills(cb, colour, estimate'.eyes))
          /\ stats' = Priors(cb, colour, estimate', saving_play', capturable', patterns)
    BY <1>3, Expanded
  <2>3. /\ colour \in Player /\ Kept(cb, cb.p) /\ cb.empty = FreeOf(cb.p)
        /\ KoAgainst(cb, colour)
    BY <2>1 DEF BoardInv
  <2>4. estimate' \in EstimateType(D)
    BY <2>2, <2>3, EstimateIsSound
  <2>5. points \in SUBSET Point
    BY <2>3, CandidatesFree
  <2>6. DOMAIN cb'.group = D
    <3>1. 0 \in Point
      BY PointsAreFinite, SizeAssumption DEF TOTAL_BOARD_SIZ
    <3> HIDE DEF points
    <3> QED
      BY <2>1, <2>3, <2>5, <3>1, ExaminedShows
  <2>7. /\ saving_play' \in [Point -> 0..(U16 - 1)] /\ capturable' \in [Point -> 0..(U16 - 1)]
    BY <2>2, <2>3, SavesTyped, KillsTyped
  <2>8. \A m \in DOMAIN stats' : stats'[m].mc_v > 0 /\ stats'[m].mc_w \in 0..stats'[m].mc_v
    BY <2>2, <2>4, <2>5, <2>7, PriorsTyped
  <2>9. saving_play' \in [Point -> Nat] /\ capturable' \in [Point -> Nat]
    BY <2>7
  <2>10. /\ estimate'.eyes \in [DOMAIN cb'.group -> Nat]
         /\ estimate'.viable \subseteq Point /\ estimate'.okay \subseteq Point
    BY <2>4, <2>6 DEF EstimateType
  <2> QED
    BY <1>2, <2>1, <2>8, <2>9, <2>10 DEF TypeOK
<1>4. ASSUME NEW m \in Point \cup {PASS}, Select(m) PROVE TypeOK'
  <2>1. phase' # "expanded"
    BY <1>4 DEF Select
  <2> QED
    BY <1>2, <2>1 DEF TypeOK
<1>5. CASE UNCHANGED vars
  BY <1>5 DEF TypeOK, vars, tables
<1> QED
  BY <1>3, <1>4, <1>5 DEF Next

\* What an expansion finds has the types of the arrays of the code, and no play offered
\* to the search starts with more wins than visits, or without a visit.
THEOREM TypeCorrect == Spec => []TypeOK
<1>1. Init => BoardInv /\ TypeOK
  <2> SUFFICES ASSUME Init PROVE BoardInv /\ TypeOK
    OBVIOUS
  <2>1. BoardInv
    BY BoardInvInit
  <2>2. phase = "new"
    BY DEF Init
  <2> QED
    BY <2>1, <2>2 DEF BoardInv, TypeOK
<1>2. BoardInv /\ TypeOK /\ [Next]_vars => BoardInv' /\ TypeOK'
  BY BoardInvStep, TypeOKStep
<1> QED
  BY <1>1, <1>2, PTL DEF Spec

-----------------------------------------------------------------------------
(***************************************************************************)
(* Eyes are regions enclosed.                                              *)
(***************************************************************************)
\* The points of S but those of the stones of c.
Others(S, q, c) == {n \in S : q[n] # c}

LEMMA OthersCounted ==
  ASSUME NEW S \in SUBSET Point, NEW q, NEW c
  PROVE  /\ Cardinality(StonesIn(S, q, c)) = Cardinality(S) - Cardinality(Others(S, q, c))
         /\ Cardinality(Others(S, q, c)) \in Nat /\ Cardinality(S) \in Nat
<1> DEFINE A == StonesIn(S, q, c)
           B == Others(S, q, c)
<1>1. A \in SUBSET Point /\ B \in SUBSET Point /\ A \cap B = {} /\ A \cup B = S
  BY DEF StonesIn, Others
<1> HIDE DEF A, B
<1>2. /\ IsFiniteSet(A) /\ IsFiniteSet(B) /\ Cardinality(A) \in Nat /\ Cardinality(B) \in Nat
      /\ Cardinality(S) \in Nat
  BY <1>1, PointsAreFinite
<1>3. Cardinality(S) = Cardinality(A) + Cardinality(B) - Cardinality({})
  BY <1>1, <1>2, FS_Union
<1>4. Cardinality({}) = 0
  BY FS_EmptySet
<1>5. Cardinality(A) = Cardinality(S) - Cardinality(B)
  BY <1>2, <1>3, <1>4
<1> QED
  BY <1>2, <1>5 DEF A, B

\* What Own4 and Own8 leave to others than c.
LEMMA OwnLeaves ==
  ASSUME NEW b, Kept(b, b.p), NEW c \in Player, NEW m \in Point
  PROVE  /\ Own4(b, c, m) = 4 - Cardinality(Others(neighbors_side[m], b.p, c))
         /\ Own8(b, c, m) = 8 - Cardinality(Others(neighbors_3x3[m], b.p, c))
         /\ Cardinality(Others(neighbors_side[m], b.p, c)) \in Nat
         /\ Cardinality(Others(neighbors_3x3[m], b.p, c)) \in Nat
         /\ Others(neighbors_side[m], b.p, c) \in SUBSET Point
         /\ Others(neighbors_3x3[m], b.p, c) \in SUBSET Point
<1>1. neighbors_side[m] \in SUBSET Point /\ neighbors_3x3[m] \in SUBSET Point
  BY NeighborsAreMutual
<1>2. /\ b.neighbors4[c][m] = Cardinality(StonesIn(neighbors_side[m], b.p, c))
      /\ b.neighbors8[c][m] = Cardinality(StonesIn(neighbors_3x3[m], b.p, c))
  BY DEF Kept, Around
<1>3. /\ out_neighbors4[m] = 4 - Cardinality(neighbors_side[m])
      /\ out_neighbors8[m] = 8 - Cardinality(neighbors_3x3[m])
  BY DEF out_neighbors4, out_neighbors8
<1> DEFINE n4 == Cardinality(neighbors_side[m])
           n8 == Cardinality(neighbors_3x3[m])
           k4 == Cardinality(Others(neighbors_side[m], b.p, c))
           k8 == Cardinality(Others(neighbors_3x3[m], b.p, c))
<1>4. /\ b.neighbors4[c][m] = n4 - k4 /\ b.neighbors8[c][m] = n8 - k8
      /\ n4 \in Nat /\ n8 \in Nat /\ k4 \in Nat /\ k8 \in Nat
  BY <1>1, <1>2, OthersCounted
<1>5. /\ Own4(b, c, m) = b.neighbors4[c][m] + out_neighbors4[m]
      /\ Own8(b, c, m) = b.neighbors8[c][m] + out_neighbors8[m]
  BY DEF Own4, Own8
<1>6. /\ Others(neighbors_side[m], b.p, c) \in SUBSET Point
      /\ Others(neighbors_3x3[m], b.p, c) \in SUBSET Point
  BY <1>1 DEF Others
<1> HIDE DEF n4, n8, k4, k8
<1>7. Own4(b, c, m) = 4 - k4 /\ Own8(b, c, m) = 8 - k8
  BY <1>3, <1>4, <1>5 DEF n4, n8
<1> QED
  BY <1>4, <1>6, <1>7 DEF k4, k8

\* All sides of an eye of one point are of its player.
LEMMA EyeSides ==
  ASSUME NEW b, Kept(b, b.p), NEW c \in Player, NEW m \in Point, is_eye(b, c, m)
  PROVE  \A n \in neighbors_side[m] : b.p[n] = c
<1> DEFINE S == neighbors_side[m]
           A == {n \in S : b.hash[m][n] = Value(c)}
<1>1. S \in SUBSET Point /\ S \subseteq neighbors_3x3[m] /\ b.p \in [Point -> Stones]
  BY NeighborsAreMutual, GroupsAreAt DEF neighbors_3x3
<1>2. \A n \in S : b.hash[m][n] = Mark(b.p[n])
  BY <1>1 DEF Kept, Around
<1>3. \A v \in Stones : Mark(v) = Value(c) <=> v = c
  BY Marks DEF Mark, Value, Stones, Player
<1>4. A = StonesIn(S, b.p, c)
  BY <1>1, <1>2, <1>3 DEF StonesIn
<1>5. Cardinality(A) + out_neighbors4[m] = 4 /\ out_neighbors4[m] = 4 - Cardinality(S)
  BY DEF is_eye, out_neighbors4
<1> DEFINE k == Cardinality(Others(S, b.p, c))
<1>6. Cardinality(A) = Cardinality(S) - k /\ k \in Nat /\ Cardinality(S) \in Nat
  BY <1>1, <1>4, OthersCounted
<1> HIDE DEF A
<1>7. k = 0
  BY <1>5, <1>6
<1>8. Others(S, b.p, c) = {}
  <2>1. Others(S, b.p, c) \in SUBSET Point
    BY <1>1 DEF Others
  <2> QED
    BY <1>7, <2>1, FewPoints
<1> QED
  BY <1>8 DEF Others

\* All sides of m but one, n, if those of the player c are three.
LEMMA OneSideLeft ==
  ASSUME NEW b, Kept(b, b.p), NEW c \in Player, NEW m \in Point, Own4(b, c, m) = 3,
         NEW n \in neighbors_side[m], b.p[n] # c
  PROVE  \A x \in neighbors_side[m] \ {n} : b.p[x] = c
<1> DEFINE O == Others(neighbors_side[m], b.p, c)
<1>1. Cardinality(O) = 1 /\ O \in SUBSET Point
  BY OwnLeaves
<1>2. n \in O
  BY DEF Others
<1> HIDE DEF O
<1>3. O = {n}
  BY <1>1, <1>2, FewPoints
<1> QED
  BY <1>3 DEF O, Others

\* The second point of a pair is free, beside the first and above it.
LEMMA SecondPointIs ==
  ASSUME NEW b, Kept(b, b.p), NEW m \in Point, SecondPoint(b, m) # NONE
  PROVE  /\ SecondPoint(b, m) \in neighbors_side[m] /\ SecondPoint(b, m) \in Point
         /\ m \in neighbors_side[SecondPoint(b, m)]
         /\ b.p[SecondPoint(b, m)] = EMPTY
         /\ SecondPoint(b, m) > m /\ SecondPoint(b, m) # m
<1>1. RIGHT = 1 /\ BOTTOM \in Nat /\ BOTTOM > 0 /\ m \in Int
  BY Borders
<1>2. \/ SecondPoint(b, m) = m + RIGHT /\ FreeRight(b, m)
      \/ SecondPoint(b, m) = m + BOTTOM /\ FreeBottom(b, m)
  BY DEF SecondPoint
<1>3. /\ SecondPoint(b, m) \in neighbors_side[m]
      /\ b.p[SecondPoint(b, m)] = EMPTY
  BY <1>2, SidePoints DEF FreeRight, FreeBottom
<1>4. SecondPoint(b, m) > m /\ SecondPoint(b, m) # m
  BY <1>1, <1>2
<1> QED
  BY <1>3, <1>4, SidePoints, NeighborsAreMutual

LEMMA PairSides ==
  ASSUME NEW b, Kept(b, b.p), NEW c \in Player, NEW m \in Point, b.p[m] = EMPTY,
         is_2pt_eye(b, c, m), NEW m2, m2 = SecondPoint(b, m)
  PROVE  /\ m2 \in Point /\ b.p[m2] = EMPTY /\ m2 # m
         /\ m2 \in neighbors_side[m] /\ m \in neighbors_side[m2] /\ m2 > m
         /\ \A n \in neighbors_side[m] \ {m2} : b.p[n] = c
         /\ \A n \in neighbors_side[m2] \ {m} : b.p[n] = c
<1>1. Own4(b, c, m) = 3 /\ m2 # NONE /\ Own4(b, c, m2) = 3
  BY DEF is_2pt_eye
<1>2. /\ m2 \in neighbors_side[m] /\ m2 \in Point /\ m \in neighbors_side[m2]
      /\ b.p[m2] = EMPTY /\ m2 > m /\ m2 # m
  BY <1>1, SecondPointIs
<1>3. EMPTY # c
  BY Marks DEF Player
<1> QED
  BY <1>1, <1>2, <1>3, OneSideLeft

LEMMA AtLeastThree ==
  ASSUME NEW S \in SUBSET Point, NEW p1 \in S, NEW p2 \in S, NEW p3 \in S,
         p1 # p2, p1 # p3, p2 # p3
  PROVE  Cardinality(S) >= 3
<1>1. S \ {p1} \in SUBSET Point /\ p2 \in S \ {p1} /\ p3 \in S \ {p1}
  OBVIOUS
<1>2. Cardinality(S \ {p1}) >= 2
  BY <1>1, FewPoints
<1>3. Cardinality(S \ {p1}) = Cardinality(S) - 1 /\ Cardinality(S) \in Nat
  BY FewPoints
<1> QED
  BY <1>2, <1>3

LEMMA AtLeastFour ==
  ASSUME NEW S \in SUBSET Point, NEW p1 \in S, NEW p2 \in S, NEW p3 \in S, NEW p4 \in S,
         p1 # p2, p1 # p3, p1 # p4, p2 # p3, p2 # p4, p3 # p4
  PROVE  Cardinality(S) >= 4
<1>1. S \ {p1} \in SUBSET Point /\ {p2, p3, p4} \subseteq S \ {p1}
  OBVIOUS
<1>2. Cardinality(S \ {p1}) >= 3
  BY <1>1, AtLeastThree
<1>3. Cardinality(S \ {p1}) = Cardinality(S) - 1 /\ Cardinality(S) \in Nat
  BY FewPoints
<1> QED
  BY <1>2, <1>3

\* How many points are two or four of them.
\* S is four points, one by one.
IsFour(S, p1, p2, p3, p4) ==
  /\ S = {p1, p2, p3, p4}
  /\ p1 # p2 /\ p1 # p3 /\ p1 # p4 /\ p2 # p3 /\ p2 # p4 /\ p3 # p4

LEMMA FourCounted ==
  ASSUME NEW p1 \in Point, NEW p2 \in Point, NEW p3 \in Point, NEW p4 \in Point, NEW S,
         IsFour(S, p1, p2, p3, p4)
  PROVE  Cardinality(S) = 4
<1>1. /\ S \in SUBSET Point /\ p1 \in S /\ p2 \in S /\ p3 \in S /\ p4 \in S
      /\ S \ {p1} \subseteq {p2, p3, p4}
      /\ p1 # p2 /\ p1 # p3 /\ p1 # p4 /\ p2 # p3 /\ p2 # p4 /\ p3 # p4
  BY DEF IsFour
<1>2. Cardinality(S) >= 4
  BY <1>1, AtLeastFour
<1>3. /\ S \ {p1} \in SUBSET Point /\ Cardinality(S) \in Nat /\ Cardinality(S \ {p1}) \in Nat
      /\ Cardinality(S) <= Cardinality(S \ {p1}) + 1
  BY <1>1, OneTaken
<1>4. Cardinality(S \ {p1}) <= 3
  BY <1>1, <1>3, ThreePoints
<1> QED
  BY <1>2, <1>3, <1>4

LEMMA TwoCounted ==
  ASSUME NEW p1 \in Point, NEW p2 \in Point, p1 # p2
  PROVE  Cardinality({p1, p2}) = 2
<1>1. {p1, p2} \in SUBSET Point /\ {p1, p2} \ {p1} = {p2} /\ {p2} \in SUBSET Point
  OBVIOUS
<1>2. Cardinality({p1, p2} \ {p1}) = Cardinality({p1, p2}) - 1 /\ Cardinality({p1, p2}) \in Nat
  BY <1>1, FewPoints
<1>3. Cardinality({p2}) = 1
  BY <1>1, FewPoints
<1> QED
  BY <1>1, <1>2, <1>3

\* The points of a square, and which are beside which.
LEMMA SquareIs ==
  ASSUME NEW m \in Point, ~border_right(m), ~border_bottom(m),
         NEW r, r = m + RIGHT, NEW d, d = m + BOTTOM, NEW o, o = m + BOTTOM + RIGHT
  PROVE  /\ Square(m) = {m, r, d, o} /\ r \in Point /\ d \in Point /\ o \in Point
         /\ m # r /\ m # d /\ m # o /\ r # d /\ r # o /\ d # o
         /\ r \in neighbors_side[m] /\ d \in neighbors_side[m]
         /\ m \in neighbors_side[r] /\ o \in neighbors_side[r]
         /\ m \in neighbors_side[d] /\ o \in neighbors_side[d]
         /\ r \in neighbors_side[o] /\ d \in neighbors_side[o]
         /\ \A n \in Square(m) : Square(m) \ {n} \subseteq neighbors_3x3[n]
         /\ m < r /\ m < d /\ m < o
<1>1. /\ r \in Point /\ d \in Point /\ o \in Point
      /\ X(r) = X(m) + 1 /\ Y(r) = Y(m)
      /\ X(d) = X(m) /\ Y(d) = Y(m) + 1
      /\ X(o) = X(m) + 1 /\ Y(o) = Y(m) + 1
  BY SquarePoints
<1>2. Square(m) = {m, r, d, o}
  BY DEF Square
<1>3. /\ RIGHT = 1 /\ BOTTOM = BOARD_SIZ /\ BOARD_SIZ \in Nat /\ BOARD_SIZ >= 5
      /\ X(m) \in Int /\ Y(m) \in Int /\ m \in Int
      /\ X(m) < BOARD_SIZ - 1 /\ Y(m) < BOARD_SIZ - 1
  BY Borders DEF BOTTOM
<1>4. m # r /\ m # d /\ m # o /\ r # d /\ r # o /\ d # o /\ m < r /\ m < d /\ m < o
  BY <1>3
<1>5. \A a \in Point : \A n : n \in neighbors_side[a] <=> IsSide(a, n)
  BY NeighborsOfPoint
<1>6. IsSide(m, r) /\ IsSide(m, d) /\ IsSide(r, o) /\ IsSide(d, o)
  BY <1>1, <1>3 DEF IsSide
<1>7. /\ r \in neighbors_side[m] /\ d \in neighbors_side[m]
      /\ o \in neighbors_side[r] /\ o \in neighbors_side[d]
  BY <1>1, <1>5, <1>6
<1>8. /\ m \in neighbors_side[r] /\ m \in neighbors_side[d]
      /\ r \in neighbors_side[o] /\ d \in neighbors_side[o]
  BY <1>1, <1>7, NeighborsAreMutual
<1>9. /\ o \in neighbors_diag[m] /\ d \in neighbors_diag[r]
      /\ m \in neighbors_diag[o] /\ r \in neighbors_diag[d]
  BY <1>1, <1>3 DEF neighbors_diag
<1>10. \A n \in Square(m) : Square(m) \ {n} \subseteq neighbors_3x3[n]
  <2>1. \A a \in Point : neighbors_3x3[a] = neighbors_side[a] \cup neighbors_diag[a]
    BY DEF neighbors_3x3
  <2> QED
    BY <1>1, <1>2, <1>7, <1>8, <1>9, <2>1
<1> QED
  BY <1>1, <1>2, <1>4, <1>7, <1>8, <1>10

\* Around a four point eye all is of its player.
LEMMA FourSides ==
  ASSUME NEW b, Kept(b, b.p), NEW c \in Player, NEW m \in Point, b.p[m] = EMPTY,
         is_4pt_eye(b, c, m)
  PROVE  /\ ~border_right(m) /\ ~border_bottom(m)
         /\ \A n \in Square(m) : /\ n \in Point /\ b.p[n] = EMPTY
                                 /\ \A x \in neighbors_side[n] \ Square(m) : b.p[x] = c
<1> DEFINE r == m + RIGHT
           d == m + BOTTOM
           o == m + BOTTOM + RIGHT
<1>1. /\ ~border_right(m) /\ ~border_bottom(m)
      /\ \A n \in Square(m) \ {m} : b.p[n] = EMPTY
  BY DEF is_4pt_eye, FreeSquare
<1>2. /\ Square(m) = {m, r, d, o} /\ r \in Point /\ d \in Point /\ o \in Point
      /\ m # r /\ m # d /\ m # o /\ r # d /\ r # o /\ d # o
      /\ r \in neighbors_side[m] /\ d \in neighbors_side[m]
      /\ m \in neighbors_side[r] /\ o \in neighbors_side[r]
      /\ m \in neighbors_side[d] /\ o \in neighbors_side[d]
      /\ r \in neighbors_side[o] /\ d \in neighbors_side[o]
      /\ \A n \in Square(m) : Square(m) \ {n} \subseteq neighbors_3x3[n]
  BY <1>1, SquareIs
<1> HIDE DEF r, d, o
<1>3. \A n \in Square(m) : n \in Point /\ b.p[n] = EMPTY
  BY <1>1, <1>2
<1>4. EMPTY # c
  BY Marks DEF Player
<1>5. ASSUME NEW n \in Square(m), NEW x \in neighbors_side[n] \ Square(m), b.p[x] # c PROVE FALSE
  <2> DEFINE O4 == Others(neighbors_side[n], b.p, c)
             O8 == Others(neighbors_3x3[n], b.p, c)
  <2>1. /\ n \in Point /\ O4 \in SUBSET Point /\ O8 \in SUBSET Point
        /\ Own8(b, c, n) = 8 - Cardinality(O8)
        /\ Cardinality(O4) \in Nat /\ Cardinality(O8) \in Nat
    BY <1>3, OwnLeaves
  <2>2. x \in O4 /\ x \in O8
    BY <1>5, <2>1 DEF Others, neighbors_3x3
  <2>3. Square(m) \ {n} \subseteq O8
    BY <1>2, <1>3, <1>4 DEF Others
  <2>4. neighbors_side[n] \cap Square(m) \subseteq O4
    BY <1>3, <1>4 DEF Others
  <2>5. CASE InTheOpen(m)
    <3>1. b.neighbors4[c][n] = 2
      BY <2>5 DEF is_4pt_eye
    <3>2. b.neighbors4[c][n] = Cardinality(StonesIn(neighbors_side[n], b.p, c))
      BY <2>1 DEF Kept, Around
    <3>3. /\ neighbors_side[n] \in SUBSET Point
          /\ Cardinality(neighbors_side[n]) <= 4 /\ Cardinality(neighbors_side[n]) \in Nat
      BY <2>1, NeighborsAreMutual, EightAround, PointsAreFinite
    <3>4. Cardinality(StonesIn(neighbors_side[n], b.p, c))
            = Cardinality(neighbors_side[n]) - Cardinality(O4)
      BY <3>3, OthersCounted
    <3>5. Cardinality(O4) <= 2
      <4> HIDE DEF O4
      <4> QED
        BY <2>1, <3>1, <3>2, <3>3, <3>4
    <3>6. \E y, z \in neighbors_side[n] \cap Square(m) : y # z
      BY <1>2
    <3>7. PICK y \in O4, z \in O4 : y # z /\ y \in Square(m) /\ z \in Square(m)
      BY <2>4, <3>6
    <3>8. Cardinality(O4) >= 3
      <4> HIDE DEF O4
      <4> QED
        BY <2>1, <2>2, <3>7, <1>5, AtLeastThree
    <3> HIDE DEF O4
    <3> QED
      BY <2>1, <3>5, <3>8
  <2>6. CASE ~InTheOpen(m)
    <3>1. Own8(b, c, n) = 5
      BY <2>6 DEF is_4pt_eye
    <3>2. PICK p1, p2, p3 \in Square(m) \ {n} : p1 # p2 /\ p1 # p3 /\ p2 # p3
      BY <1>2
    <3>3. Cardinality(O8) >= 4
      <4>1. p1 \in O8 /\ p2 \in O8 /\ p3 \in O8 /\ x # p1 /\ x # p2 /\ x # p3
        BY <1>5, <2>3, <3>2
      <4> HIDE DEF O8
      <4> QED
        BY <2>1, <2>2, <3>2, <4>1, AtLeastFour
    <3> HIDE DEF O8
    <3> QED
      BY <2>1, <3>1, <3>3
  <2> QED
    BY <2>5, <2>6
<1> QED
  BY <1>1, <1>3, <1>5

\* What is free beside m, when the opponent of c has no stone around it.
LEMMA FreeOfForeign ==
  ASSUME NEW b, Kept(b, b.p), NEW c \in Player, NEW m \in Point,
         b.neighbors8[Opponent(c)][m] = 0
  PROVE  FreeBeside(b, m) = Others(neighbors_side[m], b.p, c)
<1> DEFINE F == StonesIn(neighbors_3x3[m], b.p, Opponent(c))
<1>1. F \in SUBSET Point /\ Cardinality(F) = 0
  <2>1. Opponent(c) \in Player /\ neighbors_3x3[m] \in SUBSET Point
    BY Marks, NeighborsAreMutual
  <2> QED
    BY <2>1 DEF Kept, Around, StonesIn
<1> HIDE DEF F
<1>2. F = {}
  BY <1>1, FewPoints
<1>3. \A n \in neighbors_side[m] : b.p[n] # Opponent(c)
  BY <1>2 DEF F, StonesIn, neighbors_3x3
<1>4. \A n \in neighbors_side[m] : n \in Point /\ b.p[n] \in Stones /\ (b.g[n] = NONE <=> b.p[n] = EMPTY)
  BY NeighborsAreMutual DEF Kept, Grouped, Owned
<1>5. \A n \in neighbors_side[m] : b.p[n] = EMPTY <=> b.p[n] # c
  BY <1>3, <1>4, Marks DEF Stones
<1> QED
  BY <1>4, <1>5 DEF FreeBeside, Others

LEMMA SizeOfStar ==
  ASSUME NEW b, Kept(b, b.p), NEW c \in Player, NEW m \in Stars(b, c), m \in Point
  PROVE  /\ StarIsClosed(b, c, m) /\ b.neighbors8[Opponent(c)][m] = 0
         /\ is_nakade(b, m) \div 4 = 5 - Own4(b, c, m) /\ Own4(b, c, m) \in Int
<1> DEFINE around == {d \in Player : b.neighbors8[d][m] > 0}
<1>1. b.neighbors8[c][m] > 0 /\ NakadeStar(b, c, m) /\ is_nakade(b, m) > 0
  BY DEF Stars
<1>2. Cardinality(around) = 1
  <2>1. CASE Cardinality(around) # 1
    <3>1. is_nakade(b, m) = 0
      BY <2>1 DEF is_nakade
    <3> QED
      BY <1>1, <3>1
  <2> QED
    BY <2>1
<1>3. IsFiniteSet(around)
  <2>1. IsFiniteSet({"black", "white"})
    <3>1. IsFiniteSet({"black"})
      BY FS_Singleton
    <3>2. IsFiniteSet({"black"} \cup {"white"})
      BY <3>1, FS_AddElement
    <3>3. {"black"} \cup {"white"} = {"black", "white"}
      OBVIOUS
    <3> QED
      BY <3>2, <3>3
  <2>2. around \in SUBSET {"black", "white"}
    BY DEF Player
  <2> HIDE DEF around
  <2> QED
    BY <2>1, <2>2, FS_Subset
<1>4. around = {c}
  <2>1. c \in around
    BY <1>1
  <2> HIDE DEF around
  <2> QED
    BY <1>2, <1>3, <2>1, FS_Singleton
<1>5. (CHOOSE d \in around : TRUE) = c
  <2> HIDE DEF around
  <2> QED
    BY <1>4
<1>6. is_nakade(b, m) = IF StarIsClosed(b, c, m) THEN (4 - Own4(b, c, m)) * 4 + 4 ELSE 0
  BY <1>1, <1>2, <1>5 DEF is_nakade
<1>7. b.neighbors8[Opponent(c)][m] = 0
  <2>1. Opponent(c) \in Player /\ Opponent(c) # c
    BY Marks
  <2>2. ~(b.neighbors8[Opponent(c)][m] > 0)
    BY <1>4, <2>1
  <2>3. b.neighbors8[Opponent(c)][m] \in 0..8
    BY <2>1, CountsTyped
  <2> QED
    BY <2>2, <2>3
<1>8. StarIsClosed(b, c, m)
  BY <1>1, <1>6
<1>9. Own4(b, c, m) \in {0, 1, 2}
  <2> DEFINE k == Cardinality(Others(neighbors_side[m], b.p, c))
  <2>1. Own4(b, c, m) = 4 - k /\ k \in Nat
    BY OwnLeaves
  <2>2. k <= 4
    <3>1. Others(neighbors_side[m], b.p, c) \subseteq neighbors_side[m]
      BY DEF Others
    <3>2. k <= Cardinality(neighbors_side[m]) /\ Cardinality(neighbors_side[m]) <= 4
          /\ Cardinality(neighbors_side[m]) \in Nat
      BY <3>1, NeighborsAreMutual, FewPoints, EightAround
    <3> HIDE DEF k
    <3> QED
      BY <2>1, <3>2
  <2>3. Own4(b, c, m) < 3
    BY <1>1 DEF NakadeStar
  <2> HIDE DEF k
  <2> QED
    BY <2>1, <2>2, <2>3
<1>10. is_nakade(b, m) \div 4 = 5 - Own4(b, c, m)
  <2>1. 20 \div 4 = 5 /\ 16 \div 4 = 4 /\ 12 \div 4 = 3
    OBVIOUS
  <2>2. is_nakade(b, m) = (4 - Own4(b, c, m)) * 4 + 4
    BY <1>6, <1>8
  <2> QED
    BY <1>9, <2>1, <2>2
<1> QED
  BY <1>7, <1>8, <1>9, <1>10

LEMMA StarEnclosed ==
  ASSUME NEW b, Kept(b, b.p), b.empty = FreeOf(b.p), NEW c \in Player, NEW m \in Stars(b, c)
  PROVE  EnclosedBy(b.p, c, {m} \cup FreeBeside(b, m), is_nakade(b, m) \div 4)
<1> DEFINE F == FreeBeside(b, m)
           S == {m} \cup F
<1>1. m \in Point /\ b.p[m] = EMPTY
  BY DEF Stars, FreeOf
<1>2. /\ StarIsClosed(b, c, m) /\ b.neighbors8[Opponent(c)][m] = 0
      /\ is_nakade(b, m) \div 4 = 5 - Own4(b, c, m) /\ Own4(b, c, m) \in Int
  BY <1>1, SizeOfStar
<1>3. /\ F = Others(neighbors_side[m], b.p, c) /\ F \in SUBSET Point
      /\ Own4(b, c, m) = 4 - Cardinality(F) /\ Cardinality(F) \in Nat
  BY <1>1, <1>2, FreeOfForeign, OwnLeaves
<1>4. /\ \A n \in F : n \in Point /\ n \in neighbors_side[m] /\ b.p[n] = EMPTY
      /\ m \notin F
  BY <1>1, NeighborsAreMutual DEF FreeBeside, Kept, Grouped, Owned
<1>5. Cardinality(S) = 5 - Own4(b, c, m)
  <2>1. IsFiniteSet(F)
    BY <1>3, PointsAreFinite
  <2>2. Cardinality(F \cup {m}) = Cardinality(F) + 1
    <3> HIDE DEF F
    <3> QED
      BY <1>4, <2>1, FS_AddElement
  <2>3. S = F \cup {m}
    OBVIOUS
  <2> HIDE DEF F, S
  <2> QED
    BY <1>3, <2>2, <2>3
<1>6. ASSUME NEW x \in neighbors_side[m] \ S PROVE b.p[x] = c
  BY <1>3 DEF Others
<1>7. ASSUME NEW n \in F, NEW x \in neighbors_side[n] \ S PROVE b.p[x] = c
  <2>1. Own4(b, c, n) = 3 /\ n \in Point
    BY <1>2, <1>4, <1>7 DEF StarIsClosed
  <2>2. m \in neighbors_side[n]
    BY <1>1, <1>4, <1>7, NeighborsAreMutual
  <2>3. b.p[m] # c
    BY <1>1, Marks DEF Player
  <2>4. x \in neighbors_side[n] \ {m}
    BY <1>7
  <2> QED
    BY <2>1, <2>2, <2>3, <2>4, OneSideLeft
<1> HIDE DEF F
<1>8. \A n \in S : b.p[n] = EMPTY /\ \A x \in neighbors_side[n] \ S : b.p[x] = c
  BY <1>1, <1>4, <1>6, <1>7
<1> QED
  BY <1>2, <1>5, <1>8 DEF EnclosedBy, F

LEMMA ShapesAreEnclosed == BoardInv => ShapesEnclose
<1> SUFFICES ASSUME BoardInv, NEW c \in Player
             PROVE  /\ \A m \in Eyes(cb, c)  : EnclosedBy(cb.p, c, {m}, 1)
                    /\ \A m \in Pairs(cb, c) : EnclosedBy(cb.p, c, Pair(cb, m), 2)
                    /\ \A m \in Fours(cb, c) : EnclosedBy(cb.p, c, Square(m), 4)
                    /\ \A m \in Stars(cb, c) :
                         EnclosedBy(cb.p, c, {m} \cup FreeBeside(cb, m), is_nakade(cb, m) \div 4)
  BY DEF ShapesEnclose
<1>1. Kept(cb, cb.p) /\ cb.empty = FreeOf(cb.p)
  BY DEF BoardInv
<1>2. \A m \in cb.empty : m \in Point /\ cb.p[m] = EMPTY
  BY <1>1 DEF FreeOf
<1>3. ASSUME NEW m \in Eyes(cb, c) PROVE EnclosedBy(cb.p, c, {m}, 1)
  <2>1. m \in Point /\ cb.p[m] = EMPTY /\ is_eye(cb, c, m)
    BY <1>2 DEF Eyes
  <2>2. Cardinality({m}) = 1
    BY FS_Singleton
  <2> QED
    BY <1>1, <2>1, <2>2, EyeSides DEF EnclosedBy
<1>4. ASSUME NEW m \in Pairs(cb, c) PROVE EnclosedBy(cb.p, c, Pair(cb, m), 2)
  <2> DEFINE m2 == SecondPoint(cb, m)
  <2>1. m \in Point /\ cb.p[m] = EMPTY /\ is_2pt_eye(cb, c, m)
    BY <1>2 DEF Pairs
  <2>2. /\ m2 \in Point /\ cb.p[m2] = EMPTY /\ m2 # m
        /\ \A n \in neighbors_side[m] \ {m2} : cb.p[n] = c
        /\ \A n \in neighbors_side[m2] \ {m} : cb.p[n] = c
    BY <1>1, <2>1, PairSides
  <2>3. Cardinality({m, m2}) = 2
    BY <2>1, <2>2, TwoCounted
  <2>4. Pair(cb, m) = {m, m2}
    BY DEF Pair
  <2> HIDE DEF m2
  <2> QED
    BY <2>1, <2>2, <2>3, <2>4 DEF EnclosedBy
<1>5. ASSUME NEW m \in Fours(cb, c) PROVE EnclosedBy(cb.p, c, Square(m), 4)
  <2>1. m \in Point /\ cb.p[m] = EMPTY /\ is_4pt_eye(cb, c, m)
    BY <1>2 DEF Fours
  <2>2. /\ ~border_right(m) /\ ~border_bottom(m)
        /\ \A n \in Square(m) : /\ n \in Point /\ cb.p[n] = EMPTY
                                /\ \A x \in neighbors_side[n] \ Square(m) : cb.p[x] = c
    BY <1>1, <2>1, FourSides
  <2>3. Cardinality(Square(m)) = 4
    <3>1. PICK r, d, o \in Point : /\ Square(m) = {m, r, d, o}
                                   /\ m # r /\ m # d /\ m # o /\ r # d /\ r # o /\ d # o
      BY <2>1, <2>2, SquareIs
    <3>2. IsFour(Square(m), m, r, d, o)
      BY <3>1 DEF IsFour
    <3> QED
      BY <2>1, <3>2, FourCounted
  <2> QED
    BY <2>2, <2>3 DEF EnclosedBy
<1>6. \A m \in Stars(cb, c) :
        EnclosedBy(cb.p, c, {m} \cup FreeBeside(cb, m), is_nakade(cb, m) \div 4)
  BY <1>1, StarEnclosed
<1> QED
  BY <1>3, <1>4, <1>5, <1>6

-----------------------------------------------------------------------------
(***************************************************************************)
(* Each point of an eye is scored once.                                    *)
(***************************************************************************)
\* A region of free points in one piece, with a border, all of it of stones of c.
Region(q, c, R) ==
  /\ R \in SUBSET Point
  /\ \A n \in R : q[n] = EMPTY /\ \A x \in neighbors_side[n] \ R : q[x] = c
  /\ \E n \in R : neighbors_side[n] \ R # {}
  /\ \A A \in SUBSET R : A # {} /\ (\A a \in A : neighbors_side[a] \cap R \subseteq A) => A = R

\* The eye R, of k points, whose first point is m.
EyeAt(b, c, m, R, k) ==
  \/ is_4pt_eye(b, c, m) /\ R = Square(m) /\ k = 4
  \/ is_2pt_eye(b, c, m) /\ R = Pair(b, m) /\ k = 2
  \/ is_eye(b, c, m) /\ R = {m} /\ k = 1

LEMMA TwoSides ==
  ASSUME NEW m \in Point
  PROVE  \E y, z \in neighbors_side[m] : y # z
<1>1. \A n : n \in neighbors_side[m] <=> IsSide(m, n)
  BY NeighborsOfPoint
<1>2. /\ X(m) \in 0..(BOARD_SIZ - 1) /\ Y(m) \in 0..(BOARD_SIZ - 1)
      /\ BOARD_SIZ \in Nat /\ BOARD_SIZ >= 5 /\ m \in Int
  BY Borders
<1>3. IsSide(m, m - 1) \/ IsSide(m, m + 1)
  BY <1>2 DEF IsSide
<1>4. IsSide(m, m - BOARD_SIZ) \/ IsSide(m, m + BOARD_SIZ)
  BY <1>2 DEF IsSide
<1> QED
  BY <1>1, <1>2, <1>3, <1>4

LEMMA SquareHasBorder ==
  ASSUME NEW m \in Point, ~border_right(m), ~border_bottom(m)
  PROVE  \E n \in Square(m) : neighbors_side[n] \ Square(m) # {}
<1>1. /\ X(m) \in 0..(BOARD_SIZ - 1) /\ BOARD_SIZ \in Nat /\ BOARD_SIZ >= 5 /\ m \in Int
      /\ LEFT = -1 /\ RIGHT = 1 /\ BOTTOM = BOARD_SIZ * 1
  BY Borders
<1>2. /\ m + RIGHT \in Point /\ X(m + RIGHT) = X(m) + 1
      /\ Square(m) = {m, m + 1, m + BOARD_SIZ, m + BOARD_SIZ + 1}
  BY <1>1, SquarePoints DEF Square
<1>3. CASE X(m) > 0
  <2>1. m - 1 \in neighbors_side[m]
    <3>1. IsSide(m, m - 1)
      BY <1>3 DEF IsSide
    <3> QED
      BY <3>1, NeighborsOfPoint
  <2>2. m - 1 \notin Square(m) /\ m \in Square(m)
    BY <1>1, <1>2
  <2> QED
    BY <2>1, <2>2
<1>4. CASE X(m) = 0
  <2>1. m + 2 \in neighbors_side[m + 1] /\ m + 1 \in Square(m)
    <3>1. m + 1 \in Point /\ X(m + 1) = 1 /\ m + 2 = (m + 1) + 1
      BY <1>1, <1>2, <1>4
    <3>2. IsSide(m + 1, m + 2)
      BY <1>1, <3>1 DEF IsSide
    <3> QED
      BY <1>2, <3>1, <3>2, NeighborsOfPoint
  <2>2. m + 2 \notin Square(m)
    BY <1>1, <1>2
  <2> QED
    BY <2>1, <2>2
<1> QED
  BY <1>1, <1>3, <1>4

LEMMA EyesAreRegions ==
  ASSUME NEW b, Kept(b, b.p), NEW c \in Player, NEW m \in Point, b.p[m] = EMPTY,
         NEW R, NEW k, EyeAt(b, c, m, R, k)
  PROVE  Region(b.p, c, R) /\ Cardinality(R) = k /\ m \in R /\ \A n \in R : m <= n
<1>1. m \in Int
  BY Borders
<1>2. CASE is_eye(b, c, m) /\ R = {m} /\ k = 1
  <2>1. \A n \in neighbors_side[m] : b.p[n] = c
    BY <1>2, EyeSides
  <2>2. \E y \in neighbors_side[m] : y \notin R
    BY <1>2, TwoSides
  <2>3. Cardinality({m}) = 1
    BY FS_Singleton
  <2>4. \A A \in SUBSET R : A # {} => A = R
    BY <1>2
  <2>5. R \in SUBSET Point /\ \A n \in R : n = m
    BY <1>2
  <2>6. Region(b.p, c, R)
    BY <1>2, <2>1, <2>2, <2>4, <2>5 DEF Region
  <2> QED
    BY <1>1, <1>2, <2>3, <2>6
<1>3. CASE is_2pt_eye(b, c, m) /\ R = Pair(b, m) /\ k = 2
  <2> DEFINE m2 == SecondPoint(b, m)
  <2>1. /\ m2 \in Point /\ b.p[m2] = EMPTY /\ m2 # m
        /\ m2 \in neighbors_side[m] /\ m \in neighbors_side[m2] /\ m2 > m
        /\ \A n \in neighbors_side[m] \ {m2} : b.p[n] = c
        /\ \A n \in neighbors_side[m2] \ {m} : b.p[n] = c
    BY <1>3, PairSides
  <2>2. R = {m, m2}
    BY <1>3 DEF Pair
  <2> HIDE DEF m2
  <2>3. \E y \in neighbors_side[m] : y # m2 /\ y # m
    BY TwoSides, NeighborsAreMutual
  <2>4. Cardinality(R) = 2
    BY <2>1, <2>2, TwoCounted
  <2>5. ASSUME NEW A \in SUBSET R, A # {}, \A a \in A : neighbors_side[a] \cap R \subseteq A
        PROVE  A = R
    BY <2>1, <2>2, <2>5
  <2>6. Region(b.p, c, R)
    BY <2>1, <2>2, <2>3, <2>5 DEF Region
  <2>7. m2 \in Int
    BY <2>1, Borders
  <2> QED
    BY <1>1, <1>3, <2>1, <2>2, <2>4, <2>6, <2>7
<1>4. CASE is_4pt_eye(b, c, m) /\ R = Square(m) /\ k = 4
  <2>1. /\ ~border_right(m) /\ ~border_bottom(m)
        /\ \A n \in R : /\ n \in Point /\ b.p[n] = EMPTY
                        /\ \A x \in neighbors_side[n] \ R : b.p[x] = c
    BY <1>4, FourSides
  <2>2. PICK r, d, o \in Point :
          /\ R = {m, r, d, o}
          /\ m # r /\ m # d /\ m # o /\ r # d /\ r # o /\ d # o
          /\ r \in neighbors_side[m] /\ d \in neighbors_side[m]
          /\ m \in neighbors_side[r] /\ o \in neighbors_side[r]
          /\ m \in neighbors_side[d] /\ o \in neighbors_side[d]
          /\ r \in neighbors_side[o] /\ d \in neighbors_side[o]
          /\ m < r /\ m < d /\ m < o
    BY <1>4, <2>1, SquareIs
  <2>3. Cardinality({m, r, d, o}) = 4
    <3>1. IsFour({m, r, d, o}, m, r, d, o)
      BY <2>2 DEF IsFour
    <3> QED
      BY <1>4, <3>1, FourCounted
  <2>4. ASSUME NEW A \in SUBSET R, A # {}, \A a \in A : neighbors_side[a] \cap R \subseteq A
        PROVE  A = R
    BY <2>2, <2>4
  <2>5. \E n \in R : neighbors_side[n] \ R # {}
    BY <1>4, <2>1, SquareHasBorder
  <2>6. Region(b.p, c, R)
    BY <2>1, <2>4, <2>5 DEF Region
  <2>7. r \in Int /\ d \in Int /\ o \in Int
    BY <2>2, Borders
  <2> QED
    BY <1>1, <1>4, <2>2, <2>3, <2>6, <2>7
<1> QED
  BY <1>2, <1>3, <1>4 DEF EyeAt

\* Two regions that share a point are one.
LEMMA OneRegion ==
  ASSUME NEW q, NEW c \in Player, NEW d \in Player, NEW R, NEW T,
         Region(q, c, R), Region(q, d, T), R \cap T # {}
  PROVE  R = T /\ c = d
<1>1. EMPTY # c /\ EMPTY # d
  BY Marks
<1>2. R \cap T = T
  <2>1. \A a \in R \cap T : neighbors_side[a] \cap T \subseteq R \cap T
    BY <1>1 DEF Region
  <2>2. R \cap T \in SUBSET T
    OBVIOUS
  <2> QED
    BY <2>1, <2>2 DEF Region
<1>3. R \cap T = R
  <2>1. \A a \in R \cap T : neighbors_side[a] \cap R \subseteq R \cap T
    BY <1>1 DEF Region
  <2>2. R \cap T \in SUBSET R
    OBVIOUS
  <2> QED
    BY <2>1, <2>2 DEF Region
<1>4. R = T
  BY <1>2, <1>3
<1>5. c = d
  <2>1. PICK n \in R : neighbors_side[n] \ R # {}
    BY DEF Region
  <2>2. PICK x : x \in neighbors_side[n] \ R
    BY <2>1
  <2> QED
    BY <1>4, <2>1, <2>2 DEF Region
<1> QED
  BY <1>4, <1>5

\* Eyes that share a point are the same.
LEMMA EyesApart ==
  ASSUME NEW b, Kept(b, b.p), NEW c \in Player, NEW d \in Player,
         NEW m \in Point, b.p[m] = EMPTY, NEW n \in Point, b.p[n] = EMPTY,
         NEW R, NEW k, EyeAt(b, c, m, R, k), NEW T, NEW j, EyeAt(b, d, n, T, j),
         R \cap T # {}
  PROVE  R = T /\ k = j /\ c = d /\ m = n
<1>1. Region(b.p, c, R) /\ Cardinality(R) = k /\ m \in R /\ \A x \in R : m <= x
  BY EyesAreRegions
<1>2. Region(b.p, d, T) /\ Cardinality(T) = j /\ n \in T /\ \A x \in T : n <= x
  BY EyesAreRegions
<1>3. R = T /\ c = d
  BY <1>1, <1>2, OneRegion
<1>4. m <= n /\ n <= m /\ m \in Int /\ n \in Int
  BY <1>1, <1>2, <1>3, Borders
<1> QED
  BY <1>1, <1>2, <1>3, <1>4

\* The eye of c whose first point is m, and its size.
EyeOf(b, c, m) ==
  IF is_4pt_eye(b, c, m) THEN Square(m)
  ELSE IF is_2pt_eye(b, c, m) THEN Pair(b, m)
  ELSE IF is_eye(b, c, m) THEN {m} ELSE {}

SizeOf(b, c, m) ==
  IF is_4pt_eye(b, c, m) THEN 4
  ELSE IF is_2pt_eye(b, c, m) THEN 2
  ELSE IF is_eye(b, c, m) THEN 1 ELSE 0

LEMMA EyeOfIs ==
  ASSUME NEW b, Kept(b, b.p), NEW c \in Player, NEW m \in Point, b.p[m] = EMPTY
  PROVE  /\ EyeOf(b, c, m) \in SUBSET Point /\ Cardinality(EyeOf(b, c, m)) = SizeOf(b, c, m)
         /\ SizeOf(b, c, m) \in {0, 1, 2, 4}
         /\ SizeOf(b, c, m) # 0 => EyeAt(b, c, m, EyeOf(b, c, m), SizeOf(b, c, m))
         /\ SizeOf(b, c, m) = 0 => EyeOf(b, c, m) = {}
         /\ \A R, k : EyeAt(b, c, m, R, k) => R = EyeOf(b, c, m) /\ k = SizeOf(b, c, m)
<1> DEFINE E == EyeOf(b, c, m)
           N == SizeOf(b, c, m)
<1>1. N \in {0, 1, 2, 4}
  BY DEF SizeOf
<1>2. N # 0 => EyeAt(b, c, m, E, N)
  BY DEF SizeOf, EyeOf, EyeAt
<1>3. N = 0 => E = {}
  BY DEF SizeOf, EyeOf
<1>4. ASSUME NEW R, NEW k, EyeAt(b, c, m, R, k) PROVE R = E /\ k = N
  <2>1. N # 0
    BY <1>4 DEF SizeOf, EyeAt
  <2>2. m \in R /\ m \in E
    BY <1>2, <1>4, <2>1, EyesAreRegions
  <2> HIDE DEF E, N
  <2>3. R \cap E # {}
    BY <2>2
  <2> QED
    BY <1>2, <1>4, <2>1, <2>3, EyesApart
<1>5. E \in SUBSET Point /\ Cardinality(E) = N
  <2>1. CASE N = 0
    BY <1>3, <2>1, FS_EmptySet
  <2>2. CASE N # 0
    <3>1. Region(b.p, c, E) /\ Cardinality(E) = N
      BY <1>2, <2>2, EyesAreRegions
    <3> QED
      BY <3>1 DEF Region
  <2> QED
    BY <2>1, <2>2
<1> QED
  BY <1>1, <1>2, <1>3, <1>4, <1>5

\* A point is the first of an eye of one player at most.
LEMMA EyeOfOne ==
  ASSUME NEW b, Kept(b, b.p), NEW m \in Point, b.p[m] = EMPTY
  PROVE  SizeOf(b, "black", m) = 0 \/ SizeOf(b, "white", m) = 0
<1> SUFFICES ASSUME SizeOf(b, "black", m) # 0, SizeOf(b, "white", m) # 0 PROVE FALSE
  OBVIOUS
<1>1. "black" \in Player /\ "white" \in Player
  BY DEF Player
<1> DEFINE R == EyeOf(b, "black", m)
           T == EyeOf(b, "white", m)
           k == SizeOf(b, "black", m)
           j == SizeOf(b, "white", m)
<1>2. EyeAt(b, "black", m, R, k) /\ EyeAt(b, "white", m, T, j)
  BY <1>1, EyeOfIs
<1> HIDE DEF R, T, k, j
<1>3. m \in R /\ m \in T
  BY <1>1, <1>2, EyesAreRegions
<1> QED
  BY <1>1, <1>2, <1>3, EyesApart

\* The points of the eyes of c whose first points are in s.
Covered(b, c, s) == UNION {EyeOf(b, c, m) : m \in s \cap b.empty}

LEMMA CoveredGrows ==
  ASSUME NEW b, Kept(b, b.p), b.empty = FreeOf(b.p), NEW c \in Player,
         NEW s \in SUBSET Point, NEW x \in s
  PROVE  /\ Cardinality(Covered(b, c, s)) = Cardinality(Covered(b, c, s \ {x}))
              + (IF x \in b.empty THEN SizeOf(b, c, x) ELSE 0)
         /\ Cardinality(Covered(b, c, s \ {x})) \in Nat
<1> DEFINE t == s \ {x}
           A == Covered(b, c, t)
           E == EyeOf(b, c, x)
<1>1. \A m \in b.empty : m \in Point /\ b.p[m] = EMPTY
  BY DEF FreeOf
<1>2. \A m \in b.empty : EyeOf(b, c, m) \in SUBSET Point
  BY <1>1, EyeOfIs
<1>3. A \in SUBSET Point
  BY <1>2 DEF Covered
<1>4. IsFiniteSet(A) /\ Cardinality(A) \in Nat
  BY <1>3, PointsAreFinite
<1>5. CASE x \notin b.empty
  <2>1. s \cap b.empty = t \cap b.empty
    BY <1>5
  <2>2. Covered(b, c, s) = A
    BY <2>1 DEF Covered
  <2> HIDE DEF A
  <2> QED
    BY <1>4, <1>5, <2>2 DEF A
<1>6. CASE x \in b.empty
  <2>1. s \cap b.empty = (t \cap b.empty) \cup {x}
    BY <1>6
  <2>2. Covered(b, c, s) = A \cup E
    BY <2>1 DEF Covered
  <2>3. /\ E \in SUBSET Point /\ Cardinality(E) = SizeOf(b, c, x) /\ SizeOf(b, c, x) \in Nat
        /\ x \in Point /\ b.p[x] = EMPTY /\ IsFiniteSet(E)
    <3>1. x \in Point /\ b.p[x] = EMPTY
      BY <1>1, <1>6
    <3> HIDE DEF E
    <3>2. E \in SUBSET Point /\ Cardinality(E) = SizeOf(b, c, x) /\ SizeOf(b, c, x) \in Nat
      BY <3>1, EyeOfIs DEF E
    <3> QED
      BY <3>1, <3>2, PointsAreFinite
  <2>4. A \cap E = {}
    <3> SUFFICES ASSUME NEW y \in A, y \in E PROVE FALSE
      OBVIOUS
    <3>1. PICK m \in t \cap b.empty : y \in EyeOf(b, c, m)
      BY DEF Covered
    <3>2. m \in Point /\ b.p[m] = EMPTY /\ m # x
      BY <1>1
    <3> DEFINE k == SizeOf(b, c, m)
               j == SizeOf(b, c, x)
               G == EyeOf(b, c, m)
    <3>3. k # 0 /\ j # 0
      BY <2>3, <3>1, <3>2, EyeOfIs
    <3>4. EyeAt(b, c, m, G, k) /\ EyeAt(b, c, x, E, j)
      BY <2>3, <3>2, <3>3, EyeOfIs
    <3>5. y \in G
      BY <3>1
    <3> HIDE DEF E, G, k, j
    <3> QED
      BY <2>3, <3>2, <3>4, <3>5, EyesApart
  <2> HIDE DEF A, E
  <2>5. Cardinality(A \cup E) = Cardinality(A) + Cardinality(E) - Cardinality({})
    BY <1>4, <2>3, <2>4, FS_Union
  <2>6. Cardinality({}) = 0
    BY FS_EmptySet
  <2> QED
    BY <1>4, <1>6, <2>2, <2>3, <2>5, <2>6 DEF A
<1> QED
  BY <1>5, <1>6

\* What a free point alone scores.
LEMMA EyesScoreIs ==
  ASSUME NEW b, Kept(b, b.p), NEW m \in Point
  PROVE  /\ b.p[m] = EMPTY =>
              EyesScore(b, m) = 2 * SizeOf(b, "black", m) - 2 * SizeOf(b, "white", m)
         /\ b.p[m] = "black" => EyesScore(b, m) = 2
         /\ b.p[m] = "white" => EyesScore(b, m) = -2
<1>1. EMPTY # "black" /\ EMPTY # "white"
  BY Marks DEF Player
<1>2. b.p[m] = "black" => EyesScore(b, m) = 2
  BY <1>1 DEF EyesScore
<1>3. b.p[m] = "white" => EyesScore(b, m) = -2
  BY <1>1 DEF EyesScore
<1>4. CASE b.p[m] = EMPTY
  <2> DEFINE V(d) == SizeOf(b, d, m)
             W(test1, test2, n) == IF test1 THEN n ELSE IF test2 THEN -n ELSE 0
             V4 == W(is_4pt_eye(b, "black", m), is_4pt_eye(b, "white", m), 8)
             V2 == W(is_2pt_eye(b, "black", m), is_2pt_eye(b, "white", m), 4)
             V1 == W(is_eye(b, "black", m), is_eye(b, "white", m), 2)
  <2>1. EyesScore(b, m) = IF V4 # 0 THEN V4 ELSE IF V2 # 0 THEN V2 ELSE V1
    BY <1>4 DEF EyesScore
  <2>2. V("black") = 0 \/ V("white") = 0
    BY <1>4, EyeOfOne
  <2>3. \A d : /\ is_4pt_eye(b, d, m) => V(d) = 4
               /\ ~is_4pt_eye(b, d, m) /\ is_2pt_eye(b, d, m) => V(d) = 2
               /\ ~is_4pt_eye(b, d, m) /\ ~is_2pt_eye(b, d, m) /\ is_eye(b, d, m) => V(d) = 1
               /\ V(d) = 0 <=> ~is_4pt_eye(b, d, m) /\ ~is_2pt_eye(b, d, m) /\ ~is_eye(b, d, m)
    BY DEF SizeOf
  <2> HIDE DEF V
  <2>4. EyesScore(b, m) = 2 * V("black") - 2 * V("white")
    BY <2>1, <2>2, <2>3
  <2> QED
    BY <1>1, <1>4, <2>4 DEF V
<1> QED
  BY <1>2, <1>3, <1>4

\* The point after a four point eye has no eye of its own to score.
AfterFour(b, m) ==
  m - 1 \in Point /\ b.p[m - 1] = EMPTY /\ \E d \in Player : is_4pt_eye(b, d, m - 1)

LEMMA SkippedHasNoEye ==
  ASSUME NEW b, Kept(b, b.p), NEW m \in Point, AfterFour(b, m)
  PROVE  b.p[m] = EMPTY /\ \A c \in Player : SizeOf(b, c, m) = 0
<1> DEFINE n == m - 1
<1>1. PICK d \in Player : is_4pt_eye(b, d, n)
  BY DEF AfterFour
<1>2. n \in Point /\ b.p[n] = EMPTY
  BY DEF AfterFour
<1>3. m = n + RIGHT /\ n # m
  BY Borders
<1> HIDE DEF n
<1>4. m \in Square(n) /\ b.p[m] = EMPTY
  BY <1>1, <1>2, <1>3, FourSides DEF Square
<1>5. ASSUME NEW c \in Player, SizeOf(b, c, m) # 0 PROVE FALSE
  <2> DEFINE E == EyeOf(b, c, m)
             k == SizeOf(b, c, m)
  <2>1. EyeAt(b, c, m, E, k)
    BY <1>4, <1>5, EyeOfIs
  <2>2. EyeAt(b, d, n, Square(n), 4)
    BY <1>1 DEF EyeAt
  <2> HIDE DEF E, k
  <2>3. m \in E
    BY <1>4, <2>1, EyesAreRegions
  <2> QED
    BY <1>2, <1>3, <1>4, <2>1, <2>2, <2>3, EyesApart
<1> QED
  BY <1>4, <1>5

\* The score of the points of s, each point of an eye once.
ScoreOf(b, s) ==
  2 * (Cardinality(StonesIn(s, b.p, "black")) - Cardinality(StonesIn(s, b.p, "white")))
  + 2 * (Cardinality(Covered(b, "black", s)) - Cardinality(Covered(b, "white", s)))

Given(b, m, r) == IF AfterFour(b, m) THEN r ELSE r + EyesScore(b, m)

LEMMA StonesGrow ==
  ASSUME NEW q, NEW c, NEW s \in SUBSET Point, NEW x \in s
  PROVE  /\ Cardinality(StonesIn(s, q, c)) =
              Cardinality(StonesIn(s \ {x}, q, c)) + (IF q[x] = c THEN 1 ELSE 0)
         /\ Cardinality(StonesIn(s \ {x}, q, c)) \in Nat
<1> DEFINE A == StonesIn(s, q, c)
           B == StonesIn(s \ {x}, q, c)
<1>1. A \in SUBSET Point /\ B \in SUBSET Point
  BY DEF StonesIn
<1>2. Cardinality(A) \in Nat /\ Cardinality(B) \in Nat
  BY <1>1, PointsAreFinite
<1>3. CASE q[x] = c
  <2>1. x \in A /\ B = A \ {x}
    BY <1>3 DEF StonesIn
  <2> HIDE DEF A, B
  <2>2. Cardinality(B) = Cardinality(A) - 1
    BY <1>1, <2>1, FewPoints
  <2>3. Cardinality(A) = Cardinality(B) + 1
    BY <1>2, <2>2
  <2> QED
    BY <1>2, <1>3, <2>3 DEF A, B
<1>4. CASE q[x] # c
  <2>1. A = B
    BY <1>4 DEF StonesIn
  <2> HIDE DEF A, B
  <2> QED
    BY <1>2, <1>4, <2>1 DEF A, B
<1> QED
  BY <1>3, <1>4

LEMMA ScoreGrows ==
  ASSUME NEW b, Kept(b, b.p), b.empty = FreeOf(b.p), NEW s \in SUBSET Point, NEW x \in s
  PROVE  ScoreOf(b, s) = Given(b, x, ScoreOf(b, s \ {x})) /\ ScoreOf(b, s \ {x}) \in Int
<1> DEFINE t == s \ {x}
           sb == Cardinality(StonesIn(s, b.p, "black"))
           sw == Cardinality(StonesIn(s, b.p, "white"))
           tb == Cardinality(StonesIn(t, b.p, "black"))
           tw == Cardinality(StonesIn(t, b.p, "white"))
           cb1 == Cardinality(Covered(b, "black", s))
           cw1 == Cardinality(Covered(b, "white", s))
           db == Cardinality(Covered(b, "black", t))
           dw == Cardinality(Covered(b, "white", t))
           eb == SizeOf(b, "black", x)
           ew == SizeOf(b, "white", x)
           score == EyesScore(b, x)
<1>1. "black" \in Player /\ "white" \in Player /\ EMPTY # "black" /\ EMPTY # "white"
  BY Marks DEF Player
<1>2. /\ sb = tb + (IF b.p[x] = "black" THEN 1 ELSE 0) /\ tb \in Nat
      /\ sw = tw + (IF b.p[x] = "white" THEN 1 ELSE 0) /\ tw \in Nat
  <2>1. \A c : /\ Cardinality(StonesIn(s, b.p, c)) =
                    Cardinality(StonesIn(s \ {x}, b.p, c)) + (IF b.p[x] = c THEN 1 ELSE 0)
               /\ Cardinality(StonesIn(s \ {x}, b.p, c)) \in Nat
    BY StonesGrow
  <2> QED
    BY <2>1, Zenon
<1>3. /\ cb1 = db + (IF x \in b.empty THEN eb ELSE 0) /\ db \in Nat
      /\ cw1 = dw + (IF x \in b.empty THEN ew ELSE 0) /\ dw \in Nat
  BY <1>1, CoveredGrows
<1>4. x \in b.empty <=> b.p[x] = EMPTY
  BY DEF FreeOf
<1>5. b.p[x] = EMPTY \/ b.p[x] = "black" \/ b.p[x] = "white"
  BY GroupsAreAt DEF Stones, Player
<1>6. b.p[x] = EMPTY => eb \in Nat /\ ew \in Nat
  BY <1>1, EyeOfIs
<1>7. /\ b.p[x] = EMPTY => score = 2 * eb - 2 * ew
      /\ b.p[x] = "black" => score = 2
      /\ b.p[x] = "white" => score = -2
  BY EyesScoreIs
<1>8. AfterFour(b, x) => b.p[x] = EMPTY /\ eb = 0 /\ ew = 0
  BY <1>1, SkippedHasNoEye
<1>9. /\ ScoreOf(b, s) = 2 * (sb - sw) + 2 * (cb1 - cw1)
      /\ ScoreOf(b, t) = 2 * (tb - tw) + 2 * (db - dw)
  BY DEF ScoreOf
<1>10. Given(b, x, ScoreOf(b, t)) = IF AfterFour(b, x) THEN ScoreOf(b, t) ELSE ScoreOf(b, t) + score
  BY DEF Given
<1> HIDE DEF sb, sw, tb, tw, cb1, cw1, db, dw, eb, ew, score, t
<1>11. ScoreOf(b, t) \in Int
  BY <1>2, <1>3, <1>9
<1>12. ScoreOf(b, s) = Given(b, x, ScoreOf(b, t))
  <2>1. CASE b.p[x] = EMPTY
    BY <1>1, <1>2, <1>3, <1>4, <1>6, <1>7, <1>8, <1>9, <1>10, <2>1
  <2>2. CASE b.p[x] = "black"
    BY <1>1, <1>2, <1>3, <1>4, <1>7, <1>8, <1>9, <1>10, <2>2
  <2>3. CASE b.p[x] = "white"
    BY <1>1, <1>2, <1>3, <1>4, <1>7, <1>8, <1>9, <1>10, <2>3
  <2> QED
    BY <1>5, <2>1, <2>2, <2>3
<1> QED
  BY <1>11, <1>12 DEF t

\* The score by stones and eyes, point by point, is that of all the points.
LEMMA ScoreByEyes ==
  ASSUME NEW b, Kept(b, b.p), b.empty = FreeOf(b.p)
  PROVE  score_stones_and_eyes2(b, 0) = ScoreOf(b, Point)
<1> DEFINE Add(m, r) == IF m - 1 \in Point /\ b.p[m - 1] = EMPTY
                             /\ \E d \in Player : is_4pt_eye(b, d, m - 1)
                        THEN r ELSE r + EyesScore(b, m)
           f == CHOOSE g : g = [s \in SUBSET Point |->
                  IF s = {} THEN 0
                  ELSE Add(CHOOSE x \in s : TRUE, g[s \ {CHOOSE x \in s : TRUE}])]
           F == [m \in Point |-> [r \in Int |-> Add(m, r)]]
<1>1. score_stones_and_eyes2(b, 0) = f[Point]
  <2> DEFINE zero == -0
  <2>1. zero >= 0 /\ zero <= 0 /\ zero \in Int
    OBVIOUS
  <2> HIDE DEF zero
  <2>2. zero = 0
    BY <2>1
  <2>3. -0 = 0
    BY <2>2 DEF zero
  <2> QED
    BY <2>3 DEF score_stones_and_eyes2, FoldSet, MapThenFoldSet
<1>2. \A m, r : Add(m, r) = Given(b, m, r)
  BY DEF Given, AfterFour
<1>3. \A m \in Point : EyesScore(b, m) \in Int
  <2> TAKE m \in Point
  <2>1. b.p[m] = EMPTY \/ b.p[m] = "black" \/ b.p[m] = "white"
    BY GroupsAreAt DEF Stones, Player
  <2>2. b.p[m] = EMPTY => SizeOf(b, "black", m) \in Int /\ SizeOf(b, "white", m) \in Int
    BY EyeOfIs DEF Player
  <2> QED
    BY <2>1, <2>2, EyesScoreIs
<1> HIDE DEF Add
<1>4. F \in [Point -> [Int -> Int]]
  <2>1. \A m \in Point : \A r \in Int : Add(m, r) \in Int
    BY <1>2, <1>3 DEF Given
  <2> QED
    BY <2>1
<1>5. IsFiniteSet(Point)
  BY PointsAreFinite
<1>6. PICK g : IsSetFold(Int, Point, 0, F, g)
  <2> DEFINE V == Int
  <2>1. 0 \in V /\ F \in [Point -> [V -> V]]
    BY <1>4
  <2> HIDE DEF F, V
  <2>2. \E g : IsSetFold(V, Point, 0, F, g)
    BY <1>5, <2>1, SetFoldExists
  <2> QED
    BY <2>2 DEF V
<1>7. ASSUME NEW s \in SUBSET Point, s # {}
      PROVE  g[s] = Add(CHOOSE x \in s : TRUE, g[s \ {CHOOSE x \in s : TRUE}])
  <2>1. Chosen(s) \in Point /\ s \ {Chosen(s)} \in SUBSET Point
    BY <1>5, <1>7, ChosenApart
  <2>2. g[s] = F[Chosen(s)][g[s \ {Chosen(s)}]] /\ g[s \ {Chosen(s)}] \in Int
    BY <1>6, <1>7, <2>1 DEF IsSetFold
  <2> QED
    BY <2>1, <2>2 DEF Chosen
<1>8. g = [s \in SUBSET Point |->
             IF s = {} THEN 0
             ELSE Add(CHOOSE x \in s : TRUE, g[s \ {CHOOSE x \in s : TRUE}])]
  <2> HIDE DEF F
  <2> QED
    BY <1>6, <1>7 DEF IsSetFold
<1>9. f = [s \in SUBSET Point |->
             IF s = {} THEN 0
             ELSE Add(CHOOSE x \in s : TRUE, f[s \ {CHOOSE x \in s : TRUE}])]
  <2> DEFINE Adds(h) == h = [s \in SUBSET Point |->
                          IF s = {} THEN 0
                          ELSE Add(CHOOSE x \in s : TRUE, h[s \ {CHOOSE x \in s : TRUE}])]
  <2>1. Adds(g)
    BY <1>8
  <2>2. f = CHOOSE h : Adds(h)
    OBVIOUS
  <2> HIDE DEF f, Adds
  <2>3. Adds(f)
    BY <2>1, <2>2
  <2> QED
    BY <2>3 DEF Adds
<1> DEFINE T == {s \in SUBSET Point : f[s] = ScoreOf(b, s)}
<1> HIDE DEF f, F
<1>10. {} \in T
  <2>1. /\ StonesIn({}, b.p, "black") = {} /\ StonesIn({}, b.p, "white") = {}
        /\ Covered(b, "black", {}) = {} /\ Covered(b, "white", {}) = {}
    BY DEF StonesIn, Covered
  <2>2. ScoreOf(b, {}) = 0
    BY <2>1, FS_EmptySet DEF ScoreOf
  <2> QED
    BY <1>9, <2>2
<1>11. ASSUME NEW s \in SUBSET Point, s # {}, s \ {Chosen(s)} \in T PROVE s \in T
  <2>1. Chosen(s) \in s /\ s \ {Chosen(s)} \in SUBSET Point
    BY <1>5, <1>11, ChosenApart
  <2>2. f[s] = Given(b, Chosen(s), f[s \ {Chosen(s)}])
    BY <1>2, <1>9, <1>11 DEF Chosen
  <2>3. ScoreOf(b, s) = Given(b, Chosen(s), ScoreOf(b, s \ {Chosen(s)}))
    BY <2>1, ScoreGrows
  <2> QED
    BY <1>11, <2>2, <2>3
<1>12. Point \in T
  <2> HIDE DEF T
  <2>1. \A s \in SUBSET Point : s # {} /\ s \ {Chosen(s)} \in T => s \in T
    BY <1>11
  <2> QED
    BY <1>5, <1>10, <2>1, InductionOnSets
<1> QED
  BY <1>1, <1>12

LEMMA EyesAreScored == BoardInv => ScoresEyesOnce
<1> SUFFICES ASSUME BoardInv PROVE ScoresEyesOnce
  OBVIOUS
<1>1. Kept(cb, cb.p) /\ cb.empty = FreeOf(cb.p)
  BY DEF BoardInv
<1>2. ASSUME NEW c \in Player PROVE Covered(cb, c, Point) = EyePoints(cb, c)
  <2>1. \A m \in cb.empty : m \in Point /\ cb.p[m] = EMPTY
    BY <1>1 DEF FreeOf
  <2>2. ASSUME NEW x, NEW m \in cb.empty, x \in EyeOf(cb, c, m)
        PROVE  x \in EyePoints(cb, c)
    <3>1. \/ m \in Fours(cb, c) /\ x \in Square(m)
          \/ m \in Pairs(cb, c) /\ x \in Pair(cb, m)
          \/ m \in Eyes(cb, c) /\ x = m
      BY <2>2 DEF EyeOf, Fours, Pairs, Eyes
    <3> QED
      BY <3>1 DEF EyePoints
  <2>3. ASSUME NEW x \in EyePoints(cb, c)
        PROVE  \E m \in cb.empty : x \in EyeOf(cb, c, m)
    <3>1. \/ \E m \in Fours(cb, c) : x \in Square(m)
          \/ \E m \in Pairs(cb, c) : x \in Pair(cb, m)
          \/ \E m \in Eyes(cb, c) : x \in {m}
      BY <2>3 DEF EyePoints
    <3>2. \E m \in cb.empty : \E R, k : EyeAt(cb, c, m, R, k) /\ x \in R
      BY <3>1 DEF Fours, Pairs, Eyes, EyeAt
    <3>3. PICK m \in cb.empty : \E R, k : EyeAt(cb, c, m, R, k) /\ x \in R
      BY <3>2
    <3>4. \A R, k : EyeAt(cb, c, m, R, k) => R = EyeOf(cb, c, m)
      BY <1>1, <2>1, EyeOfIs
    <3> QED
      BY <3>3, <3>4
  <2>4. cb.empty \subseteq Point
    BY <2>1
  <2> QED
    BY <2>2, <2>3, <2>4 DEF Covered
<1>3. score_stones_and_eyes2(cb, 0) = ScoreOf(cb, Point)
  BY <1>1, ScoreByEyes
<1>4. /\ StonesIn(Point, cb.p, "black") = {m \in Point : cb.p[m] = "black"}
      /\ StonesIn(Point, cb.p, "white") = {m \in Point : cb.p[m] = "white"}
  BY DEF StonesIn
<1> DEFINE x == Cardinality({m \in Point : cb.p[m] = "black"})
           y == Cardinality({m \in Point : cb.p[m] = "white"})
           u == Cardinality(EyePoints(cb, "black"))
           v == Cardinality(EyePoints(cb, "white"))
<1>5. ScoreOf(cb, Point) = 2 * (x - y) + 2 * (u - v)
  BY <1>2, <1>4 DEF ScoreOf, Player
<1>6. score_stones_only(cb.p, 0) = 2 * (x - y) - 0
  BY DEF score_stones_only
<1>7. x \in Nat /\ y \in Nat
  BY FewPoints
<1> HIDE DEF x, y, u, v
<1>8. 2 * (x - y) - 0 = 2 * (x - y)
  BY <1>7
<1> QED
  BY <1>3, <1>5, <1>6, <1>8 DEF ScoresEyesOnce, u, v

\* On every board of a state of the tree, what is taken for an eye, or for a nakade
\* around its middle, is a region enclosed by the stones of one player; and a score by
\* stones and eyes gives each point of an eye once, to the player whose eye it is.
THEOREM EyesAreEyes == Spec => []EyesEnclose
<1>1. Init => BoardInv
  BY BoardInvInit
<1>2. BoardInv /\ [Next]_vars => BoardInv'
  BY BoardInvStep
<1>3. BoardInv => EyesEnclose
  BY ShapesAreEnclosed, EyesAreScored DEF EyesEnclose
<1> QED
  BY <1>1, <1>2, <1>3, PTL DEF Spec

-----------------------------------------------------------------------------
(***************************************************************************)
(* Two estimates of the same board, with the groups at other addresses.    *)
(*                                                                         *)
(* Groups are linked the other way, so dragons have other heads, and an    *)
(* eye may be counted at a group that is the head in only one of the two.  *)
(* But the dragons are the same groups, and their eyes are as many, or two *)
(* or more in both.                                                        *)
(***************************************************************************)
SameUpToTwo(x, y) == x = y \/ (x > 1 /\ y > 1)

EyesAt(e, h)     == e.eyes[dragon_head(e, h)]
BorrowedAt(e, h) == e.borrowed[dragon_head(e, h)]

SameDragon(e, g, h) == dragon_head(e, g) = dragon_head(e, h)

\* g is of a dragon that is united when those of h1 and h2 are.
Joins(e, h1, h2, g) == dragon_head(e, g) \in {dragon_head(e, h1), dragon_head(e, h2)}

SamePoints(e, f) == e.viable = f.viable /\ e.okay = f.okay

\* d is e after the dragons of h1 and h2 were united.
Unites(D, e, d, h1, h2) ==
  /\ SamePoints(e, d) /\ d.borrowed = e.borrowed
  /\ SameDragon(e, h1, h2) => d = e
  /\ \A g, h \in D :
       SameDragon(d, g, h) <=>
         SameDragon(e, g, h) \/ (Joins(e, h1, h2, g) /\ Joins(e, h1, h2, h))
  /\ ~SameDragon(e, h1, h2) =>
       \A h \in D : EyesAt(d, h) = IF Joins(e, h1, h2, h)
                                   THEN EyesAt(e, h1) + EyesAt(e, h2) ELSE EyesAt(e, h)
  /\ \A h \in D : dragon_head(d, dragon_head(e, h)) = dragon_head(d, h)

LEMMA HeadOfHead ==
  ASSUME NEW b, Kept(b, b.p), NEW c, NEW address \in Addresses,
         NEW e \in Estimates(b, c, address), NEW h \in DOMAIN b.group
  PROVE  /\ dragon_head(e, h) \in DOMAIN b.group
         /\ dragon_head(e, dragon_head(e, h)) = dragon_head(e, h)
         /\ EyesAt(e, h) \in Nat /\ BorrowedAt(e, h) \in Nat
<1> DEFINE D == DOMAIN b.group
<1>1. /\ e.next \in [D -> D \cup {NONE}] /\ Linked(e, address) /\ D \in SUBSET Point
      /\ e.eyes \in [D -> Nat] /\ e.borrowed \in [D -> Nat]
  BY GroupsAreAt DEF Estimates, EstimateType
<1>2. dragon_head(e, h) \in D /\ e.next[dragon_head(e, h)] = NONE
  BY HeadTyped
<1>3. \A g \in D : dragon_head(e, g) = IF e.next[g] = NONE THEN g ELSE dragon_head(e, e.next[g])
  <2> HIDE DEF D
  <2> QED
    BY <1>1, HeadIs
<1> QED
  BY <1>1, <1>2, <1>3 DEF EyesAt, BorrowedAt

LEMMA DragonsUnited ==
  ASSUME NEW b, Kept(b, b.p), NEW c, NEW address \in Addresses,
         NEW e \in Estimates(b, c, address), NEW h1 \in DOMAIN b.group, NEW h2 \in DOMAIN b.group
  PROVE  Unites(DOMAIN b.group, e, unite_dragons(e, h1, h2, address), h1, h2)
<1> DEFINE D == DOMAIN b.group
           x == dragon_head(e, h1)
           y == dragon_head(e, h2)
           heads == {x, y}
           low == CHOOSE h \in heads : \A k \in heads : address[h] <= address[k]
           high == CHOOSE h \in heads : \A k \in heads : address[h] >= address[k]
           d == [e EXCEPT !.next[low] = high, !.eyes[high] = @ + e.eyes[low]]
           u == unite_dragons(e, h1, h2, address)
<1>1. /\ x \in D /\ y \in D /\ e.next[x] = NONE /\ e.next[y] = NONE
      /\ D \in SUBSET Point /\ NONE \notin D
  BY HeadTyped, GroupsAreAt
<1>2. u = IF Cardinality(heads) = 1 THEN e ELSE d
  BY DEF unite_dragons
<1>3. Cardinality(heads) = 1 <=> x = y
  BY <1>1, TwoOrOne
<1>4. /\ e \in EstimateType(D) /\ Linked(e, address) /\ e.next \in [D -> D \cup {NONE}]
      /\ e.eyes \in [D -> Nat]
  BY DEF Estimates, EstimateType
<1>5. \A h \in D : dragon_head(e, h) = IF e.next[h] = NONE THEN h ELSE dragon_head(e, e.next[h])
  <2> HIDE DEF D
  <2> QED
    BY <1>1, <1>4, HeadIs
<1>6. \A h \in D : dragon_head(e, h) \in D /\ dragon_head(e, dragon_head(e, h)) = dragon_head(e, h)
  BY HeadOfHead
<1>7. u \in Estimates(b, c, address)
  BY UniteTyped
<1> HIDE DEF x, y, u
<1>8. CASE x = y
  <2>1. u = e
    BY <1>2, <1>3, <1>8
  <2>2. \A g : Joins(e, h1, h2, g) <=> dragon_head(e, g) = x
    BY <1>8 DEF Joins, x, y
  <2> HIDE DEF D
  <2>3. Unites(D, e, u, h1, h2)
    <3>1. SameDragon(e, h1, h2)
      BY <1>8 DEF SameDragon, x, y
    <3>2. \A g, h \in D : Joins(e, h1, h2, g) /\ Joins(e, h1, h2, h) => SameDragon(e, g, h)
      BY <2>2 DEF SameDragon
    <3> QED
      BY <1>6, <2>1, <3>1, <3>2 DEF Unites, SamePoints
  <2> QED
    BY <2>3 DEF D, u
<1>9. CASE x # y
  <2>1. /\ address[x] \in Int /\ address[y] \in Int /\ address[x] # address[y]
    BY <1>1, <1>9, AddressesDiffer
  <2>2. low \in heads /\ \A k \in heads : address[low] <= address[k]
    <3>1. \E h \in heads : \A k \in heads : address[h] <= address[k]
      BY <2>1
    <3> QED
      BY <3>1
  <2>3. high \in heads /\ \A k \in heads : address[high] >= address[k]
    <3>1. \E h \in heads : \A k \in heads : address[h] >= address[k]
      BY <2>1
    <3> QED
      BY <3>1
  <2> HIDE DEF low, high
  <2>4. low \in D /\ high \in D /\ low # high /\ heads = {low, high} /\ e.next[high] = NONE
    BY <1>1, <2>1, <2>2, <2>3
  <2>5. u = d
    BY <1>2, <1>3, <1>9
  <2>6. /\ u.next = [e.next EXCEPT ![low] = high]
        /\ u.eyes = [e.eyes EXCEPT ![high] = @ + e.eyes[low]]
        /\ u.viable = e.viable /\ u.okay = e.okay /\ u.borrowed = e.borrowed
    BY <1>4, <2>5 DEF EstimateType
  <2> DEFINE H == [h \in D |-> IF dragon_head(e, h) = low THEN high ELSE dragon_head(e, h)]
  <2>7. \A h \in D : dragon_head(u, h) = H[h]
    <3>1. u.next \in [D -> D \cup {NONE}] /\ Linked(u, address)
      BY <1>7 DEF Estimates, EstimateType
    <3>2. dragon_head(e, low) = low /\ dragon_head(e, high) = high /\ e.next[low] = NONE
      BY <1>1, <1>5, <2>4
    <3>3. ASSUME NEW h \in D PROVE H[h] = IF u.next[h] = NONE THEN h ELSE H[u.next[h]]
      <4>1. CASE h = low
        <5>1. u.next[h] = high /\ high # NONE
          BY <1>1, <1>4, <2>4, <2>6, <4>1
        <5>2. H[h] = high /\ H[high] = high
          BY <2>4, <3>2, <4>1
        <5> QED
          BY <5>1, <5>2
      <4>2. CASE h # low /\ e.next[h] = NONE
        BY <1>4, <1>5, <2>4, <2>6, <4>2
      <4>3. CASE h # low /\ e.next[h] # NONE
        <5>1. e.next[h] \in D /\ u.next[h] = e.next[h] /\ dragon_head(e, h) = dragon_head(e, e.next[h])
          BY <1>4, <1>5, <2>6, <4>3
        <5> QED
          BY <4>3, <5>1
      <4> QED
        BY <4>1, <4>2, <4>3
    <3>4. LeadsToHeads(D, u, H)
      BY <3>3 DEF LeadsToHeads
    <3> HIDE DEF H, D
    <3> QED
      BY <1>1, <3>1, <3>4, OneWayToHeads
  <2>8. \A h \in D : dragon_head(u, h) = IF dragon_head(e, h) \in {x, y} THEN high ELSE dragon_head(e, h)
    BY <2>4, <2>7
  <2>9. \A h : Joins(e, h1, h2, h) <=> dragon_head(e, h) \in {x, y}
    BY DEF Joins, x, y
  <2>10. \A h \in D : EyesAt(u, h) = IF dragon_head(e, h) \in {x, y}
                                     THEN EyesAt(e, h1) + EyesAt(e, h2) ELSE EyesAt(e, h)
    <3> TAKE h \in D
    <3>1. u.eyes[high] = e.eyes[high] + e.eyes[low]
      BY <1>4, <2>4, <2>6
    <3>2. e.eyes[x] \in Nat /\ e.eyes[y] \in Nat
      BY <1>1, <1>4
    <3>3. u.eyes[high] = e.eyes[x] + e.eyes[y]
      BY <1>9, <2>2, <2>3, <2>4, <3>1, <3>2
    <3>4. \A w \in D : w \notin {x, y} => u.eyes[w] = e.eyes[w]
      BY <1>4, <2>4, <2>6
    <3>5. CASE dragon_head(e, h) \in {x, y}
      BY <2>8, <3>3, <3>5 DEF EyesAt, x, y
    <3>6. CASE dragon_head(e, h) \notin {x, y}
      BY <1>6, <2>8, <3>4, <3>6 DEF EyesAt
    <3> QED
      BY <3>5, <3>6
  <2>11. \A h \in D : dragon_head(u, dragon_head(e, h)) = dragon_head(u, h)
    BY <1>6, <2>8
  <2>12. \A g, h \in D : dragon_head(u, g) = dragon_head(u, h) <=>
           \/ dragon_head(e, g) = dragon_head(e, h)
           \/ dragon_head(e, g) \in {x, y} /\ dragon_head(e, h) \in {x, y}
    <3>1. high \in {x, y}
      BY <2>4
    <3> HIDE DEF D, heads
    <3> QED
      BY <2>8, <3>1
  <2>13. ~SameDragon(e, h1, h2)
    BY <1>9 DEF SameDragon, x, y
  <2>14. Unites(D, e, u, h1, h2)
    <3> HIDE DEF D, heads
    <3> QED
      <4>1. \A g, h \in D :
              SameDragon(u, g, h) <=>
                SameDragon(e, g, h) \/ (Joins(e, h1, h2, g) /\ Joins(e, h1, h2, h))
        BY <2>9, <2>12 DEF SameDragon
      <4>2. \A h \in D : EyesAt(u, h) = IF Joins(e, h1, h2, h)
                                        THEN EyesAt(e, h1) + EyesAt(e, h2) ELSE EyesAt(e, h)
        BY <2>9, <2>10
      <4> QED
        BY <2>6, <2>11, <2>13, <4>1, <4>2 DEF Unites, SamePoints
  <2> QED
    BY <2>14 DEF D, u
<1> QED
  BY <1>8, <1>9

\* Two estimates, of any addresses, before any eye is borrowed.
Alike(D, e, f) ==
  /\ SamePoints(e, f)
  /\ \A g, h \in D : SameDragon(e, g, h) <=> SameDragon(f, g, h)
  /\ \A h \in D : SameUpToTwo(EyesAt(e, h), EyesAt(f, h))
  /\ \A h \in D : e.borrowed[h] = 0 /\ f.borrowed[h] = 0

LEMMA SumsUpToTwo ==
  ASSUME NEW x \in Nat, NEW y \in Nat, NEW u \in Nat, NEW v \in Nat,
         SameUpToTwo(x, u), SameUpToTwo(y, v)
  PROVE  SameUpToTwo(x + y, u + v)
BY DEF SameUpToTwo

\* Estimates that are alike are after the same dragons are united in both.
LEMMA UnitedAlike ==
  ASSUME NEW D, NEW e, NEW f, Alike(D, e, f), NEW h1 \in D, NEW h2 \in D,
         \A h \in D : EyesAt(e, h) \in Nat /\ EyesAt(f, h) \in Nat,
         NEW d, Unites(D, e, d, h1, h2), NEW k, Unites(D, f, k, h1, h2)
  PROVE  Alike(D, d, k)
<1>1. SameDragon(e, h1, h2) <=> SameDragon(f, h1, h2)
  BY DEF Alike
<1>2. CASE SameDragon(e, h1, h2)
  BY <1>1, <1>2 DEF Unites
<1>3. CASE ~SameDragon(e, h1, h2)
  <2>1. SamePoints(d, k)
    BY DEF Unites, Alike, SamePoints
  <2>2. \A h \in D : Joins(e, h1, h2, h) <=> Joins(f, h1, h2, h)
    <3>1. \A h \in D : /\ SameDragon(e, h, h1) <=> SameDragon(f, h, h1)
                       /\ SameDragon(e, h, h2) <=> SameDragon(f, h, h2)
      BY DEF Alike
    <3> QED
      BY <3>1 DEF SameDragon, Joins
  <2>3. \A g, h \in D : SameDragon(d, g, h) <=> SameDragon(k, g, h)
    BY <2>2 DEF Unites, Alike
  <2>4. ASSUME NEW h \in D PROVE SameUpToTwo(EyesAt(d, h), EyesAt(k, h))
    <3>1. /\ EyesAt(d, h) = IF Joins(e, h1, h2, h)
                            THEN EyesAt(e, h1) + EyesAt(e, h2) ELSE EyesAt(e, h)
          /\ EyesAt(k, h) = IF Joins(f, h1, h2, h)
                            THEN EyesAt(f, h1) + EyesAt(f, h2) ELSE EyesAt(f, h)
      BY <1>1, <1>3 DEF Unites
    <3>2. /\ SameUpToTwo(EyesAt(e, h), EyesAt(f, h))
          /\ SameUpToTwo(EyesAt(e, h1), EyesAt(f, h1)) /\ SameUpToTwo(EyesAt(e, h2), EyesAt(f, h2))
      BY DEF Alike
    <3>3. SameUpToTwo(EyesAt(e, h1) + EyesAt(e, h2), EyesAt(f, h1) + EyesAt(f, h2))
      BY <3>2, SumsUpToTwo
    <3> QED
      BY <2>2, <3>1, <3>2, <3>3
  <2>5. \A h \in D : d.borrowed[h] = 0 /\ k.borrowed[h] = 0
    BY DEF Unites, Alike
  <2> QED
    BY <2>1, <2>3, <2>4, <2>5 DEF Alike
<1> QED
  BY <1>2, <1>3

\* d is e but for what is marked of points; with an eye more in the dragon of h.
MarksPoints(D, e, d) ==
  /\ d.borrowed = e.borrowed
  /\ \A g \in D : dragon_head(d, g) = dragon_head(e, g) /\ EyesAt(d, g) = EyesAt(e, g)

AddsEye(D, e, d, h) ==
  /\ d.borrowed = e.borrowed
  /\ \A g \in D : /\ dragon_head(d, g) = dragon_head(e, g)
                  /\ IF SameDragon(e, g, h) THEN SameUpToTwo(EyesAt(d, g), EyesAt(e, g) + 1)
                                            ELSE EyesAt(d, g) = EyesAt(e, g)

LEMMA MarkedAlike ==
  ASSUME NEW D, NEW e, NEW f, Alike(D, e, f),
         NEW d, MarksPoints(D, e, d), NEW k, MarksPoints(D, f, k), SamePoints(d, k)
  PROVE  Alike(D, d, k)
<1>1. \A g, h \in D : /\ SameDragon(d, g, h) <=> SameDragon(e, g, h)
                      /\ SameDragon(k, g, h) <=> SameDragon(f, g, h)
  BY DEF MarksPoints, SameDragon
<1>2. \A h \in D : SameUpToTwo(EyesAt(d, h), EyesAt(k, h))
  BY DEF MarksPoints, Alike
<1> QED
  BY <1>1, <1>2 DEF MarksPoints, Alike

LEMMA AddedAlike ==
  ASSUME NEW D, NEW e, NEW f, Alike(D, e, f), NEW h \in D,
         \A g \in D : EyesAt(e, g) \in Nat /\ EyesAt(f, g) \in Nat,
         NEW d, AddsEye(D, e, d, h), NEW k, AddsEye(D, f, k, h), SamePoints(d, k)
  PROVE  Alike(D, d, k)
<1>1. \A g1, g2 \in D : /\ SameDragon(d, g1, g2) <=> SameDragon(e, g1, g2)
                        /\ SameDragon(k, g1, g2) <=> SameDragon(f, g1, g2)
  BY DEF AddsEye, SameDragon
<1>2. ASSUME NEW g \in D PROVE SameUpToTwo(EyesAt(d, g), EyesAt(k, g))
  <2>1. SameUpToTwo(EyesAt(e, g), EyesAt(f, g)) /\ (SameDragon(e, g, h) <=> SameDragon(f, g, h))
    BY DEF Alike
  <2>2. SameUpToTwo(EyesAt(e, g) + 1, EyesAt(f, g) + 1)
    BY <2>1, SumsUpToTwo DEF SameUpToTwo
  <2>3. CASE SameDragon(e, g, h)
    <3>1. /\ SameUpToTwo(EyesAt(d, g), EyesAt(e, g) + 1)
          /\ SameUpToTwo(EyesAt(k, g), EyesAt(f, g) + 1)
      BY <2>1, <2>3 DEF AddsEye
    <3> QED
      BY <2>2, <3>1 DEF SameUpToTwo
  <2>4. CASE ~SameDragon(e, g, h)
    BY <2>1, <2>4 DEF AddsEye
  <2> QED
    BY <2>3, <2>4
<1> QED
  BY <1>1, <1>2 DEF AddsEye, Alike

\* The head of a group depends on the links alone.
LEMMA HeadsOfLinks ==
  ASSUME NEW e, NEW d, d.next = e.next
  PROVE  \A h : dragon_head(d, h) = dragon_head(e, h)
BY DEF dragon_head

LEMMA AddEyeAdds ==
  ASSUME NEW b, Kept(b, b.p), NEW c, NEW address \in Addresses,
         NEW e \in Estimates(b, c, address), NEW h \in DOMAIN b.group
  PROVE  AddsEye(DOMAIN b.group, e, AddEye(e, h), h) /\ SamePoints(e, AddEye(e, h))
<1> DEFINE D == DOMAIN b.group
           x == dragon_head(e, h)
           d == [e EXCEPT !.eyes[x] = @ + 1]
<1>1. e \in EstimateType(D) /\ \A g \in D : dragon_head(e, g) \in D
  BY HeadTyped DEF Estimates
<1>2. AddEye(e, h) = d
  BY DEF AddEye
<1>3. x \in D
  BY <1>1
<1> HIDE DEF x
<1>4. /\ d.next = e.next /\ d.borrowed = e.borrowed /\ SamePoints(e, d)
      /\ \A g \in D : d.eyes[g] = IF g = x THEN e.eyes[g] + 1 ELSE e.eyes[g]
  BY <1>1, <1>3 DEF EstimateType, SamePoints
<1> HIDE DEF d
<1>5. \A g : dragon_head(d, g) = dragon_head(e, g)
  BY <1>4, HeadsOfLinks
<1> QED
  BY <1>1, <1>2, <1>4, <1>5 DEF AddsEye, EyesAt, SameDragon, SameUpToTwo, SamePoints, x

-----------------------------------------------------------------------------
\* All dragons of a list united.
LEMMA UniteAlike ==
  ASSUME NEW b, Kept(b, b.p), NEW c, NEW address \in Addresses, NEW other \in Addresses,
         NEW e \in Estimates(b, c, address), NEW f \in Estimates(b, c, other),
         Alike(DOMAIN b.group, e, f), NEW h1 \in DOMAIN b.group, NEW h2 \in DOMAIN b.group
  PROVE  Alike(DOMAIN b.group, unite_dragons(e, h1, h2, address), unite_dragons(f, h1, h2, other))
<1>1. \A h \in DOMAIN b.group : EyesAt(e, h) \in Nat /\ EyesAt(f, h) \in Nat
  BY HeadOfHead
<1>2. /\ Unites(DOMAIN b.group, e, unite_dragons(e, h1, h2, address), h1, h2)
      /\ Unites(DOMAIN b.group, f, unite_dragons(f, h1, h2, other), h1, h2)
  BY DragonsUnited
<1> QED
  BY <1>1, <1>2, UnitedAlike

LEMMA UniteAllAlike ==
  ASSUME NEW b, Kept(b, b.p), NEW c, NEW address \in Addresses, NEW other \in Addresses,
         NEW e \in Estimates(b, c, address), NEW f \in Estimates(b, c, other),
         Alike(DOMAIN b.group, e, f), NEW gs \in Seq(DOMAIN b.group)
  PROVE  Alike(DOMAIN b.group, UniteAll(e, gs, address), UniteAll(f, gs, other))
<1> DEFINE n == Len(gs)
           D == DOMAIN b.group
<1>1. PICK r \in [0..n -> Estimates(b, c, address)] :
           /\ r[0] = e /\ r[n] = UniteAll(e, gs, address)
           /\ \A k \in 1..n : r[k] = unite_dragons(r[k - 1], Head(gs), gs[k], address)
  BY UniteAllSteps
<1>2. PICK s \in [0..n -> Estimates(b, c, other)] :
           /\ s[0] = f /\ s[n] = UniteAll(f, gs, other)
           /\ \A k \in 1..n : s[k] = unite_dragons(s[k - 1], Head(gs), gs[k], other)
  BY UniteAllSteps
<1> DEFINE T == {k \in 0..n : Alike(D, r[k], s[k])}
<1>3. n \in Nat /\ \A k \in 1..n : gs[k] \in D /\ Head(gs) \in D
  OBVIOUS
<1>4. 0 \in T
  BY <1>1, <1>2, <1>3
<1>5. ASSUME NEW k \in 0..(n - 1), k \in T PROVE k + 1 \in T
  <2>1. k \in 0..n /\ k + 1 \in 0..n /\ k + 1 \in 1..n /\ (k + 1) - 1 = k
    BY <1>3
  <2>2. r[k] \in Estimates(b, c, address) /\ s[k] \in Estimates(b, c, other) /\ Alike(D, r[k], s[k])
    BY <1>1, <1>2, <1>5, <2>1
  <2>3. /\ r[k + 1] = unite_dragons(r[k], Head(gs), gs[k + 1], address)
        /\ s[k + 1] = unite_dragons(s[k], Head(gs), gs[k + 1], other)
    BY <1>1, <1>2, <2>1
  <2>4. Alike(D, r[k + 1], s[k + 1])
    <3>1. Head(gs) \in D /\ gs[k + 1] \in D
      BY <1>3, <2>1
    <3> QED
      BY <2>2, <2>3, <3>1, UniteAlike
  <2> QED
    BY <2>1, <2>4
<1>6. n \in T
  <2>1. \A k \in 0..(n - 1) : k \in T => k + 1 \in T
    BY <1>5
  <2> HIDE DEF T, n
  <2>2. \A k \in 0..n : k \in T
    BY <1>3, <1>4, <2>1, InductionUpTo
  <2> QED
    BY <1>3, <2>2
<1> QED
  BY <1>1, <1>2, <1>6

\* What is united depends on the heads alone.
LEMMA UniteByHeads ==
  ASSUME NEW e, NEW h1, NEW h2, NEW k1, NEW k2, NEW address,
         dragon_head(e, h1) = dragon_head(e, k1), dragon_head(e, h2) = dragon_head(e, k2)
  PROVE  unite_dragons(e, h1, h2, address) = unite_dragons(e, k1, k2, address)
<1> DEFINE Link(heads) ==
             LET low  == CHOOSE h \in heads : \A k \in heads : address[h] <= address[k]
                 high == CHOOSE h \in heads : \A k \in heads : address[h] >= address[k]
             IN IF Cardinality(heads) = 1 THEN e
                ELSE [e EXCEPT !.next[low] = high, !.eyes[high] = @ + e.eyes[low]]
<1>1. /\ unite_dragons(e, h1, h2, address) = Link({dragon_head(e, h1), dragon_head(e, h2)})
      /\ unite_dragons(e, k1, k2, address) = Link({dragon_head(e, k1), dragon_head(e, k2)})
  BY DEF unite_dragons
<1> HIDE DEF Link
<1> QED
  BY <1>1, Zenon

\* It is the same to unite the heads of groups as to unite the groups.
LEMMA HeadsUnited ==
  ASSUME NEW b, Kept(b, b.p), NEW c, NEW address \in Addresses,
         NEW e \in Estimates(b, c, address), NEW gs \in Seq(DOMAIN b.group),
         NEW heads \in Seq(DOMAIN b.group), Len(heads) = Len(gs),
         \A i \in 1..Len(gs) : heads[i] = dragon_head(e, gs[i])
  PROVE  UniteAll(e, heads, address) = UniteAll(e, gs, address)
<1> DEFINE n == Len(gs)
           D == DOMAIN b.group
           Led(d) == \A h \in D : dragon_head(d, dragon_head(e, h)) = dragon_head(d, h)
<1>1. PICK r \in [0..n -> Estimates(b, c, address)] :
           /\ r[0] = e /\ r[n] = UniteAll(e, gs, address)
           /\ \A k \in 1..n : r[k] = unite_dragons(r[k - 1], Head(gs), gs[k], address)
  BY UniteAllSteps
<1>2. PICK s \in [0..n -> Estimates(b, c, address)] :
           /\ s[0] = e /\ s[n] = UniteAll(e, heads, address)
           /\ \A k \in 1..n : s[k] = unite_dragons(s[k - 1], Head(heads), heads[k], address)
  <2>1. Len(heads) = n
    OBVIOUS
  <2> HIDE DEF n
  <2> QED
    BY <2>1, UniteAllSteps, SMT
<1> DEFINE T == {k \in 0..n : r[k] = s[k] /\ Led(r[k])}
<1>3. /\ n \in Nat
      /\ \A k \in 1..n : /\ gs[k] \in D /\ Head(gs) \in D
                         /\ heads[k] = dragon_head(e, gs[k]) /\ Head(heads) = dragon_head(e, Head(gs))
  OBVIOUS
<1>4. \A h \in D : dragon_head(e, h) \in D /\ dragon_head(e, dragon_head(e, h)) = dragon_head(e, h)
  BY HeadOfHead
<1>5. 0 \in T
  BY <1>1, <1>2, <1>3, <1>4
<1>6. ASSUME NEW k \in 0..(n - 1), k \in T PROVE k + 1 \in T
  <2>1. k \in 0..n /\ k + 1 \in 0..n /\ k + 1 \in 1..n /\ (k + 1) - 1 = k
    BY <1>3
  <2>2. r[k] \in Estimates(b, c, address) /\ r[k] = s[k] /\ Led(r[k])
    BY <1>1, <1>6, <2>1
  <2>3. /\ r[k + 1] = unite_dragons(r[k], Head(gs), gs[k + 1], address)
        /\ s[k + 1] = unite_dragons(r[k], Head(heads), heads[k + 1], address)
    BY <1>1, <1>2, <2>1, <2>2
  <2>4. /\ dragon_head(r[k], Head(heads)) = dragon_head(r[k], Head(gs))
        /\ dragon_head(r[k], heads[k + 1]) = dragon_head(r[k], gs[k + 1])
    BY <1>3, <2>1, <2>2
  <2>5. r[k + 1] = s[k + 1]
    BY <2>3, <2>4, UniteByHeads
  <2>6. Unites(D, r[k], r[k + 1], Head(gs), gs[k + 1])
    <3>1. Head(gs) \in D /\ gs[k + 1] \in D
      BY <1>3, <2>1
    <3>2. /\ r[k] \in Estimates(b, c, address)
          /\ r[k + 1] = unite_dragons(r[k], Head(gs), gs[k + 1], address)
      BY <2>2, <2>3
    <3> QED
      BY <3>1, <3>2, DragonsUnited
  <2>7. \A h \in D : dragon_head(r[k + 1], dragon_head(r[k], h)) = dragon_head(r[k + 1], h)
    BY <2>6 DEF Unites
  <2>8. Led(r[k + 1])
    <3> TAKE h \in D
    <3>1. dragon_head(r[k], dragon_head(e, h)) = dragon_head(r[k], h)
      BY <2>2
    <3> QED
      BY <1>4, <2>7, <3>1
  <2> QED
    BY <2>1, <2>5, <2>8
<1>7. n \in T
  <2>1. \A k \in 0..(n - 1) : k \in T => k + 1 \in T
    BY <1>6
  <2> HIDE DEF T, n
  <2>2. \A k \in 0..n : k \in T
    BY <1>3, <1>5, <2>1, InductionUpTo
  <2> QED
    BY <1>3, <2>2
<1> QED
  BY <1>1, <1>2, <1>7

\* d is e after the dragons of the first k groups of a list were united: the eyes of
\* the united dragon are at least those of any two of them.
Collects(D, e, d, gs, k) ==
  /\ \A i \in 1..k : SameDragon(d, gs[i], gs[1])
  /\ \A g, h \in D : SameDragon(e, g, h) => SameDragon(d, g, h)
  /\ \A g \in D : EyesAt(d, g) >= EyesAt(e, g)
  /\ \A g, h \in D : SameDragon(d, g, h) /\ ~SameDragon(e, g, h) =>
                       EyesAt(d, g) >= EyesAt(e, g) + EyesAt(e, h)
  /\ (\A i \in 1..k : SameDragon(e, gs[i], gs[1])) => d = e

LEMMA CollectsOneMore ==
  ASSUME NEW D, NEW gs, NEW k \in Nat, gs[1] \in D, NEW h2 \in D, gs[k + 1] = h2,
         \A i \in 1..k : gs[i] \in D,
         NEW e, NEW d, Collects(D, e, d, gs, k),
         \A g \in D : EyesAt(e, g) \in Nat /\ EyesAt(d, g) \in Nat,
         NEW u, Unites(D, d, u, gs[1], h2)
  PROVE  Collects(D, e, u, gs, k + 1)
<1>0. PICK h1 \in D : h1 = gs[1]
  OBVIOUS
<1>1. /\ \A i \in 1..k : SameDragon(d, gs[i], h1)
      /\ \A g \in D : EyesAt(d, g) >= EyesAt(e, g)
      /\ \A g, h \in D : SameDragon(d, g, h) /\ ~SameDragon(e, g, h) =>
                           EyesAt(d, g) >= EyesAt(e, g) + EyesAt(e, h)
      /\ (\A i \in 1..k : SameDragon(e, gs[i], h1)) => d = e
  BY <1>0 DEF Collects
<1>2. /\ SameDragon(d, h1, h2) => u = d
      /\ \A g, h \in D :
           SameDragon(u, g, h) <=>
             SameDragon(d, g, h) \/ (Joins(d, h1, h2, g) /\ Joins(d, h1, h2, h))
      /\ ~SameDragon(d, h1, h2) =>
           \A h \in D : EyesAt(u, h) = IF Joins(d, h1, h2, h)
                                       THEN EyesAt(d, h1) + EyesAt(d, h2) ELSE EyesAt(d, h)
  BY <1>0 DEF Unites
<1>3. \A i \in 1..(k + 1) : i \in 1..k \/ i = k + 1
  OBVIOUS
<1>4. \A i \in 1..(k + 1) : SameDragon(u, gs[i], h1)
  <2>1. Joins(d, h1, h2, h1) /\ Joins(d, h1, h2, h2)
    BY DEF Joins
  <2> QED
    BY <1>1, <1>2, <1>3, <2>1
<1>5. ASSUME NEW g \in D, Joins(d, h1, h2, g)
      PROVE  \/ SameDragon(d, g, h1) /\ EyesAt(d, g) = EyesAt(d, h1)
             \/ SameDragon(d, g, h2) /\ EyesAt(d, g) = EyesAt(d, h2)
  BY <1>5 DEF Joins, SameDragon, EyesAt
<1>6. ASSUME NEW g \in D PROVE EyesAt(u, g) >= EyesAt(d, g)
  <2>1. CASE SameDragon(d, h1, h2)
    BY <1>2, <2>1
  <2>2. CASE ~SameDragon(d, h1, h2)
    <3>1. EyesAt(d, h1) \in Nat /\ EyesAt(d, h2) \in Nat /\ EyesAt(d, g) \in Nat
      OBVIOUS
    <3> QED
      BY <1>2, <1>5, <2>2, <3>1
  <2> QED
    BY <2>1, <2>2
<1>7. \A g \in D : EyesAt(u, g) >= EyesAt(e, g) /\ EyesAt(u, g) \in Nat
  <2> TAKE g \in D
  <2>1. EyesAt(u, g) \in Nat
    <3>1. EyesAt(d, h1) \in Nat /\ EyesAt(d, h2) \in Nat /\ EyesAt(d, g) \in Nat
      OBVIOUS
    <3> QED
      BY <1>2, <3>1
  <2>2. EyesAt(d, g) >= EyesAt(e, g) /\ EyesAt(d, g) \in Nat /\ EyesAt(e, g) \in Nat
    BY <1>1
  <2> QED
    BY <1>6, <2>1, <2>2
<1>8. ASSUME NEW g \in D, NEW h \in D, SameDragon(u, g, h), ~SameDragon(e, g, h)
      PROVE  EyesAt(u, g) >= EyesAt(e, g) + EyesAt(e, h)
  <2>1. /\ EyesAt(d, g) \in Nat /\ EyesAt(d, h) \in Nat /\ EyesAt(u, g) \in Nat
        /\ EyesAt(e, g) \in Nat /\ EyesAt(e, h) \in Nat
    BY <1>7
  <2>2. CASE SameDragon(d, g, h)
    BY <1>1, <1>6, <1>8, <2>1, <2>2
  <2>3. CASE ~SameDragon(d, g, h)
    <3>1. Joins(d, h1, h2, g) /\ Joins(d, h1, h2, h)
      BY <1>2, <1>8, <2>3
    <3>2. /\ ~SameDragon(d, h1, h2)
          /\ \/ EyesAt(d, g) = EyesAt(d, h1) /\ EyesAt(d, h) = EyesAt(d, h2)
             \/ EyesAt(d, g) = EyesAt(d, h2) /\ EyesAt(d, h) = EyesAt(d, h1)
      BY <2>3, <3>1 DEF Joins, SameDragon, EyesAt
    <3>3. EyesAt(u, g) = EyesAt(d, h1) + EyesAt(d, h2)
      BY <1>2, <3>1, <3>2
    <3>4. EyesAt(d, g) >= EyesAt(e, g) /\ EyesAt(d, h) >= EyesAt(e, h)
      BY <1>1
    <3> QED
      BY <2>1, <3>2, <3>3, <3>4
  <2> QED
    BY <2>2, <2>3
<1>9. ASSUME \A i \in 1..(k + 1) : SameDragon(e, gs[i], h1) PROVE u = e
  <2>1. d = e /\ SameDragon(e, h2, h1)
    BY <1>1, <1>9
  <2> QED
    BY <1>2, <2>1 DEF SameDragon
<1>10. \A g, h \in D : SameDragon(e, g, h) => SameDragon(u, g, h)
  BY <1>2 DEF Collects
<1> QED
  BY <1>0, <1>4, <1>7, <1>8, <1>9, <1>10 DEF Collects

LEMMA AllCollected ==
  ASSUME NEW b, Kept(b, b.p), NEW c, NEW address \in Addresses,
         NEW e \in Estimates(b, c, address), NEW gs \in Seq(DOMAIN b.group), gs # <<>>
  PROVE  Collects(DOMAIN b.group, e, UniteAll(e, gs, address), gs, Len(gs))
<1> DEFINE n == Len(gs)
           D == DOMAIN b.group
<1>1. PICK r \in [0..n -> Estimates(b, c, address)] :
           /\ r[0] = e /\ r[n] = UniteAll(e, gs, address)
           /\ \A k \in 1..n : r[k] = unite_dragons(r[k - 1], Head(gs), gs[k], address)
  BY UniteAllSteps
<1> DEFINE T == {k \in 0..n : Collects(D, e, r[k], gs, k)}
<1>2. n \in Nat /\ n > 0 /\ Head(gs) = gs[1] /\ gs[1] \in D /\ \A k \in 1..n : gs[k] \in D
  OBVIOUS
<1>3. \A d \in Estimates(b, c, address) : \A g \in D : EyesAt(d, g) \in Nat
  BY HeadOfHead
<1>4. 0 \in T
  <2>1. Collects(D, e, e, gs, 0)
    BY <1>3 DEF Collects
  <2> QED
    BY <1>1, <1>2, <2>1
<1>5. ASSUME NEW k \in 0..(n - 1), k \in T PROVE k + 1 \in T
  <2>1. k \in 0..n /\ k + 1 \in 0..n /\ k + 1 \in 1..n /\ (k + 1) - 1 = k /\ k \in Nat
    BY <1>2
  <2>2. r[k] \in Estimates(b, c, address) /\ Collects(D, e, r[k], gs, k)
    BY <1>1, <1>5, <2>1
  <2>3. r[k + 1] = unite_dragons(r[k], gs[1], gs[k + 1], address)
    BY <1>1, <1>2, <2>1
  <2>4. gs[k + 1] \in D /\ \A i \in 1..k : gs[i] \in D
    BY <1>2, <2>1
  <2>5. Unites(D, r[k], r[k + 1], gs[1], gs[k + 1])
    BY <1>2, <2>2, <2>3, <2>4, DragonsUnited
  <2>6. Collects(D, e, r[k + 1], gs, k + 1)
    <3> HIDE DEF D, n, T
    <3> QED
      BY <1>2, <1>3, <2>1, <2>2, <2>4, <2>5, CollectsOneMore
  <2> QED
    BY <2>1, <2>6
<1>6. n \in T
  <2>1. \A k \in 0..(n - 1) : k \in T => k + 1 \in T
    BY <1>5
  <2> HIDE DEF T, n
  <2>2. \A k \in 0..n : k \in T
    BY <1>2, <1>4, <2>1, InductionUpTo
  <2> QED
    BY <1>2, <2>2
<1> QED
  BY <1>1, <1>6

-----------------------------------------------------------------------------
\* What is found at a point.
LEMMA EyeAlike ==
  ASSUME NEW b, Kept(b, b.p), NEW c, NEW address \in Addresses, NEW other \in Addresses,
         NEW e \in Estimates(b, c, address), NEW f \in Estimates(b, c, other),
         Alike(DOMAIN b.group, e, f), NEW h \in DOMAIN b.group
  PROVE  Alike(DOMAIN b.group, AddEye(e, h), AddEye(f, h))
<1>1. /\ AddsEye(DOMAIN b.group, e, AddEye(e, h), h) /\ SamePoints(e, AddEye(e, h))
      /\ AddsEye(DOMAIN b.group, f, AddEye(f, h), h) /\ SamePoints(f, AddEye(f, h))
  BY AddEyeAdds
<1>2. \A g \in DOMAIN b.group : EyesAt(e, g) \in Nat /\ EyesAt(f, g) \in Nat
  BY HeadOfHead
<1>3. SamePoints(AddEye(e, h), AddEye(f, h))
  BY <1>1 DEF Alike, SamePoints
<1> QED
  BY <1>1, <1>2, <1>3, AddedAlike

LEMMA MarksAlike ==
  ASSUME NEW b, NEW c, NEW address, NEW other,
         NEW e \in Estimates(b, c, address), NEW f \in Estimates(b, c, other),
         Alike(DOMAIN b.group, e, f), NEW S
  PROVE  /\ Alike(DOMAIN b.group, [e EXCEPT !.okay = @ \ S], [f EXCEPT !.okay = @ \ S])
         /\ Alike(DOMAIN b.group, [e EXCEPT !.viable = @ \ S], [f EXCEPT !.viable = @ \ S])
         /\ \A m, size : Alike(DOMAIN b.group, [e EXCEPT !.okay = @ \ S, !.nakade[m] = size],
                                               [f EXCEPT !.okay = @ \ S, !.nakade[m] = size])
<1> DEFINE D == DOMAIN b.group
           Kin(u, d) == d.next = u.next /\ d.eyes = u.eyes /\ d.borrowed = u.borrowed
<1>1. ASSUME NEW d, NEW k, Kin(e, d), Kin(f, k), SamePoints(d, k) PROVE Alike(D, d, k)
  <2>1. /\ \A h : dragon_head(d, h) = dragon_head(e, h)
        /\ \A h : dragon_head(k, h) = dragon_head(f, h)
    BY <1>1, HeadsOfLinks
  <2>2. MarksPoints(D, e, d) /\ MarksPoints(D, f, k)
    BY <1>1, <2>1 DEF MarksPoints, EyesAt
  <2> QED
    BY <1>1, <2>2, MarkedAlike
<1>2. e.okay = f.okay /\ e.viable = f.viable
  BY DEF Alike, SamePoints
<1>3. e \in EstimateType(D) /\ f \in EstimateType(D)
  BY DEF Estimates
<1> DEFINE d1 == [e EXCEPT !.okay = @ \ S]
           k1 == [f EXCEPT !.okay = @ \ S]
           d2 == [e EXCEPT !.viable = @ \ S]
           k2 == [f EXCEPT !.viable = @ \ S]
<1>4. Kin(e, d1) /\ Kin(f, k1) /\ SamePoints(d1, k1)
  BY <1>2, <1>3 DEF EstimateType, SamePoints
<1>5. Kin(e, d2) /\ Kin(f, k2) /\ SamePoints(d2, k2)
  BY <1>2, <1>3 DEF EstimateType, SamePoints
<1>6. ASSUME NEW m, NEW size
      PROVE  Alike(D, [e EXCEPT !.okay = @ \ S, !.nakade[m] = size],
                      [f EXCEPT !.okay = @ \ S, !.nakade[m] = size])
  <2> DEFINE d3 == [e EXCEPT !.okay = @ \ S, !.nakade[m] = size]
             k3 == [f EXCEPT !.okay = @ \ S, !.nakade[m] = size]
  <2>1. Kin(e, d3) /\ Kin(f, k3) /\ SamePoints(d3, k3)
    BY <1>2, <1>3 DEF EstimateType, SamePoints
  <2> HIDE DEF d3, k3, Kin
  <2>2. Alike(D, d3, k3)
    BY <1>1, <2>1
  <2> QED
    BY <2>2 DEF d3, k3
<1> HIDE DEF d1, k1, d2, k2, Kin
<1>7. Alike(D, d1, k1) /\ Alike(D, d2, k2)
  BY <1>1, <1>4, <1>5
<1> QED
  BY <1>6, <1>7 DEF d1, k1, d2, k2

\* The groups beside an eye are groups.
LEMMA GroupOfEye ==
  ASSUME NEW b, Kept(b, b.p), NEW c \in Player, NEW m \in Point, is_eye(b, c, m)
  PROVE  (IF border_left(m) THEN b.g[m + RIGHT] ELSE b.g[m + LEFT]) \in DOMAIN b.group
<1>1. \A n \in neighbors_side[m] : n \in Point /\ b.p[n] # EMPTY
  BY EyeSides, SidePoints, Marks DEF Player
<1>2. CASE border_left(m)
  <2>1. ~border_right(m)
    BY <1>2, Borders
  <2> QED
    BY <1>1, <1>2, <2>1, SidePoints, GroupsAreAt
<1>3. CASE ~border_left(m)
  BY <1>1, <1>3, SidePoints, GroupsAreAt
<1> QED
  BY <1>2, <1>3

LEMMA GroupOfPair ==
  ASSUME NEW b, Kept(b, b.p), NEW c \in Player, NEW m \in Point, b.p[m] = EMPTY,
         is_2pt_eye(b, c, m)
  PROVE  get_closest_group(b, m) \in DOMAIN b.group
<1> DEFINE S == {n \in neighbors_side[m] : b.g[n] # NONE}
<1>1. PICK n \in neighbors_side[m] : n # SecondPoint(b, m)
  BY TwoSides
<1>2. b.p[n] = c /\ n \in Point /\ neighbors_side[m] \subseteq Point
  BY <1>1, PairSides, SidePoints
<1>3. n \in S
  BY <1>1, <1>2, GroupsAreAt, Marks DEF Player
<1>4. S \in SUBSET Point /\ S # {}
  BY <1>2, <1>3
<1>5. Lowest(S) \in S
  <2> HIDE DEF S
  <2> QED
    BY <1>4, LowestOf
<1>6. get_closest_group(b, m) = b.g[Lowest(S)]
  BY <1>4 DEF get_closest_group
<1> HIDE DEF S
<1>7. b.g[Lowest(S)] # NONE /\ Lowest(S) \in Point
  BY <1>4, <1>5 DEF S
<1> QED
  BY <1>6, <1>7, GroupsAreAt

LEMMA SomeOfFour ==
  ASSUME NEW D, NEW s1 \in Seq(D), NEW s2 \in Seq(D), NEW s3 \in Seq(D), NEW s4 \in Seq(D),
         s1 # <<>> \/ s2 # <<>>
  PROVE  s1 \o s2 \o s3 \o s4 # <<>> /\ Head(s1 \o s2 \o s3 \o s4) \in D
<1> DEFINE s == s1 \o s2 \o s3 \o s4
<1>1. s \in Seq(D) /\ Len(s) = Len(s1) + Len(s2) + Len(s3) + Len(s4)
  OBVIOUS
<1>2. Len(s) > 0
  <2>1. /\ Len(s1) \in Nat /\ Len(s2) \in Nat /\ Len(s3) \in Nat /\ Len(s4) \in Nat
        /\ Len(s1) > 0 \/ Len(s2) > 0
    OBVIOUS
  <2> QED
    BY <1>1, <2>1
<1> HIDE DEF s
<1>3. s # <<>> /\ Head(s) \in D
  BY <1>1, <1>2
<1> QED
  BY <1>3 DEF s

\* The groups on either side of a square eye.
LEMMA GroupsOfSquare ==
  ASSUME NEW b, Kept(b, b.p), NEW c \in Player, NEW m \in Point, b.p[m] = EMPTY,
         is_4pt_eye(b, c, m)
  PROVE  \/ If(~border_left(m), b, m + LEFT) # <<>>
         \/ If(~border_right(m + RIGHT), b, m + RIGHT + RIGHT) # <<>>
<1>1. /\ ~border_right(m) /\ ~border_bottom(m)
      /\ \A n \in Square(m) : /\ n \in Point
                              /\ \A x \in neighbors_side[n] \ Square(m) : b.p[x] = c
  BY FourSides
<1>2. \A n \in Point : b.p[n] = c => b.g[n] # NONE
  BY GroupsAreAt, Marks DEF Player
<1>3. /\ X(m) \in 0..(BOARD_SIZ - 1) /\ BOARD_SIZ \in Nat /\ BOARD_SIZ >= 5 /\ m \in Int
      /\ LEFT = -1 /\ RIGHT = 1 /\ BOTTOM = BOARD_SIZ * 1
      /\ ~border_left(m) <=> X(m) - 1 >= 0
  BY Borders
<1>4. m + RIGHT \in Point /\ X(m + RIGHT) = X(m) + 1
  BY <1>1, SquarePoints
<1>5. Square(m) = {m, m + 1, m + BOARD_SIZ, m + BOARD_SIZ + 1}
  BY <1>3 DEF Square
<1>6. CASE ~border_left(m)
  <2>1. m + LEFT \in neighbors_side[m] /\ m + LEFT \in Point
    BY <1>6, SidePoints
  <2>2. m \in Square(m) /\ m + LEFT \notin Square(m)
    BY <1>3, <1>5
  <2>3. b.g[m + LEFT] # NONE
    BY <1>1, <1>2, <2>1, <2>2
  <2> QED
    BY <1>6, <2>3 DEF If
<1>7. CASE border_left(m)
  <2>1. X(m + RIGHT) = 1
    BY <1>3, <1>4, <1>7
  <2>2. ~border_right(m + RIGHT)
    BY <1>3, <1>4, <2>1, Borders
  <2>3. m + RIGHT + RIGHT \in neighbors_side[m + RIGHT] /\ m + RIGHT + RIGHT \in Point
    BY <1>4, <2>2, SidePoints
  <2>4. m + RIGHT \in Square(m) /\ m + RIGHT + RIGHT \notin Square(m)
    BY <1>3, <1>5
  <2>5. b.g[m + RIGHT + RIGHT] # NONE
    BY <1>1, <1>2, <2>3, <2>4
  <2> QED
    BY <2>2, <2>5 DEF If
<1> QED
  BY <1>6, <1>7

LEMMA OnEyeAlike ==
  ASSUME NEW b, Kept(b, b.p), NEW c \in Player, NEW address \in Addresses, NEW other \in Addresses,
         NEW e \in Estimates(b, c, address), NEW f \in Estimates(b, c, other),
         Alike(DOMAIN b.group, e, f), NEW m \in Point,
         is_eye(b, c, m) \/ is_eye(b, Opponent(c), m)
  PROVE  Alike(DOMAIN b.group, OnEye(e, b, c, m), OnEye(f, b, c, m))
<1> DEFINE g == IF border_left(m) THEN b.g[m + RIGHT] ELSE b.g[m + LEFT]
           d == AddEye(e, g)
           k == AddEye(f, g)
           S == IF is_eye(b, c, m) THEN {m} ELSE {}
<1>1. g \in DOMAIN b.group
  BY GroupOfEye, Marks
<1> HIDE DEF g
<1>2. Alike(DOMAIN b.group, d, k) /\ d \in Estimates(b, c, address) /\ k \in Estimates(b, c, other)
  BY <1>1, EyeAlike, AddEyeTyped
<1>3. \A u : OnEye(u, b, c, m) = [AddEye(u, g) EXCEPT !.viable = @ \ S]
  <2> TAKE u
  <2>1. OnEye(u, b, c, m) = [AddEye(u, g) EXCEPT !.viable = IF is_eye(b, c, m) THEN @ \ {m} ELSE @]
    BY DEF OnEye, g
  <2>2. CASE is_eye(b, c, m)
    BY <2>1, <2>2
  <2>3. CASE ~is_eye(b, c, m)
    BY <2>1, <2>3
  <2> QED
    BY <2>2, <2>3
<1> HIDE DEF d, k, S
<1>4. Alike(DOMAIN b.group, [d EXCEPT !.viable = @ \ S], [k EXCEPT !.viable = @ \ S])
  BY <1>2, MarksAlike
<1> QED
  BY <1>3, <1>4, Zenon DEF d, k

LEMMA On2ptEyeAlike ==
  ASSUME NEW b, Kept(b, b.p), NEW c \in Player, NEW address \in Addresses, NEW other \in Addresses,
         NEW e \in Estimates(b, c, address), NEW f \in Estimates(b, c, other),
         Alike(DOMAIN b.group, e, f), NEW m \in Point, b.p[m] = EMPTY,
         is_2pt_eye(b, c, m) \/ is_2pt_eye(b, Opponent(c), m)
  PROVE  Alike(DOMAIN b.group, On2ptEye(e, b, c, m), On2ptEye(f, b, c, m))
<1> DEFINE g == get_closest_group(b, m)
           d == AddEye(e, g)
           k == AddEye(f, g)
           S == {m + RIGHT, m + BOTTOM}
                \cup IF is_2pt_eye(b, c, m) /\ ~Forcing2pt(b, c, m) THEN {m} ELSE {}
<1>1. g \in DOMAIN b.group
  BY GroupOfPair, Marks
<1> HIDE DEF g
<1>2. Alike(DOMAIN b.group, d, k) /\ d \in Estimates(b, c, address) /\ k \in Estimates(b, c, other)
  BY <1>1, EyeAlike, AddEyeTyped
<1>3. \A u : On2ptEye(u, b, c, m) = [AddEye(u, g) EXCEPT !.okay = @ \ S]
  BY DEF On2ptEye, g
<1> HIDE DEF d, k, S
<1>4. Alike(DOMAIN b.group, [d EXCEPT !.okay = @ \ S], [k EXCEPT !.okay = @ \ S])
  BY <1>2, MarksAlike
<1> QED
  BY <1>3, <1>4, Zenon DEF d, k

LEMMA On4ptEyeAlike ==
  ASSUME NEW b, Kept(b, b.p), NEW c \in Player, NEW address \in Addresses, NEW other \in Addresses,
         NEW e \in Estimates(b, c, address), NEW f \in Estimates(b, c, other),
         Alike(DOMAIN b.group, e, f), NEW m \in Point, b.p[m] = EMPTY,
         is_4pt_eye(b, c, m) \/ is_4pt_eye(b, Opponent(c), m)
  PROVE  Alike(DOMAIN b.group, On4ptEye(e, b, c, m, address), On4ptEye(f, b, c, m, other))
<1> DEFINE D == DOMAIN b.group
           s1 == If(~border_left(m), b, m + LEFT)
           s2 == If(~border_right(m + RIGHT), b, m + RIGHT + RIGHT)
           s3 == If(~border_top(m), b, m + TOP)
           s4 == If(~border_bottom(m + BOTTOM), b, m + BOTTOM + BOTTOM)
           gs == s1 \o s2 \o s3 \o s4
           spare == IF m = 0 THEN m + RIGHT + BOTTOM ELSE m
           kept == is_4pt_eye(b, c, m) /\ ~Forcing4pt(b, c, m)
           S == IF kept THEN Square(m) ELSE Square(m) \ {spare}
           d == UniteAll(e, gs, address)
           k == UniteAll(f, gs, other)
           d1 == AddEye(d, Head(gs))
           k1 == AddEye(k, Head(gs))
<1>1. gs \in Seq(D) /\ Head(gs) \in D
  <2>1. ~border_right(m) /\ ~border_bottom(m)
    BY DEF is_4pt_eye, FreeSquare
  <2>2. s1 \in Seq(D) /\ s2 \in Seq(D) /\ s3 \in Seq(D) /\ s4 \in Seq(D)
    BY <2>1, SquareSides, IfTyped
  <2>3. s1 # <<>> \/ s2 # <<>>
    BY GroupsOfSquare, Marks
  <2> HIDE DEF s1, s2, s3, s4
  <2> QED
    BY <2>2, <2>3, FourLists, SomeOfFour
<1>2. \A u, a : On4ptEye(u, b, c, m, a) = [AddEye(UniteAll(u, gs, a), Head(gs)) EXCEPT !.okay = @ \ S]
  BY DEF On4ptEye
<1> HIDE DEF gs
<1>3. Alike(D, d, k) /\ d \in Estimates(b, c, address) /\ k \in Estimates(b, c, other)
  BY <1>1, UniteAllAlike, UniteAllTyped
<1> HIDE DEF d, k
<1>4. Alike(D, d1, k1) /\ d1 \in Estimates(b, c, address) /\ k1 \in Estimates(b, c, other)
  BY <1>1, <1>3, EyeAlike, AddEyeTyped
<1> HIDE DEF d1, k1, S
<1>5. Alike(D, [d1 EXCEPT !.okay = @ \ S], [k1 EXCEPT !.okay = @ \ S])
  BY <1>4, MarksAlike
<1> QED
  BY <1>2, <1>5, Zenon DEF d, k, d1, k1

LEMMA OnNakadeAlike ==
  ASSUME NEW b, Kept(b, b.p), NEW c, NEW address \in Addresses, NEW other \in Addresses,
         NEW e \in Estimates(b, c, address), NEW f \in Estimates(b, c, other),
         Alike(DOMAIN b.group, e, f), NEW m \in Point
  PROVE  Alike(DOMAIN b.group, OnNakade(e, b, m, address), OnNakade(f, b, m, other))
<1> DEFINE D == DOMAIN b.group
           s1 == If(~border_left(m) /\ ~border_top(m), b, m + LEFT + TOP)
           s2 == If(~border_left(m) /\ ~border_bottom(m), b, m + LEFT + BOTTOM)
           s3 == If(~border_right(m) /\ ~border_top(m), b, m + RIGHT + TOP)
           s4 == If(~border_right(m) /\ ~border_bottom(m), b, m + RIGHT + BOTTOM)
           gs == s1 \o s2 \o s3 \o s4
           Seen(u) == IF gs # <<>> THEN AddEye(u, Head(gs)) ELSE u
           d == UniteAll(e, gs, address)
           k == UniteAll(f, gs, other)
           S == neighbors_3x3[m]
           size == is_nakade(b, m)
<1>1. gs \in Seq(D)
  <2>1. s1 \in Seq(D) /\ s2 \in Seq(D) /\ s3 \in Seq(D) /\ s4 \in Seq(D)
    BY DiagonalPoints, IfTyped
  <2> HIDE DEF s1, s2, s3, s4
  <2> QED
    BY <2>1, FourLists
<1>2. \A u, a : OnNakade(u, b, m, a) = [Seen(UniteAll(u, gs, a)) EXCEPT !.okay = @ \ S, !.nakade[m] = size]
  BY DEF OnNakade
<1> HIDE DEF gs
<1>3. Alike(D, d, k) /\ d \in Estimates(b, c, address) /\ k \in Estimates(b, c, other)
  BY <1>1, UniteAllAlike, UniteAllTyped
<1> HIDE DEF d, k
<1>4. /\ Alike(D, Seen(d), Seen(k))
      /\ Seen(d) \in Estimates(b, c, address) /\ Seen(k) \in Estimates(b, c, other)
  <2>1. CASE gs # <<>>
    <3>1. Head(gs) \in D
      BY <1>1, <2>1
    <3> QED
      BY <1>3, <2>1, <3>1, EyeAlike, AddEyeTyped
  <2>2. CASE gs = <<>>
    BY <1>3, <2>2
  <2> QED
    BY <2>1, <2>2
<1> HIDE DEF Seen, S, size
<1>5. Alike(D, [Seen(d) EXCEPT !.okay = @ \ S, !.nakade[m] = size],
               [Seen(k) EXCEPT !.okay = @ \ S, !.nakade[m] = size])
  BY <1>4, MarksAlike
<1> QED
  BY <1>2, <1>5, Zenon DEF d, k

LEMMA OnShapeAlike ==
  ASSUME NEW b, Kept(b, b.p), NEW c, NEW address \in Addresses, NEW other \in Addresses,
         NEW e \in Estimates(b, c, address), NEW f \in Estimates(b, c, other),
         Alike(DOMAIN b.group, e, f), NEW m \in Point
  PROVE  Alike(DOMAIN b.group, OnShape(e, b, m, address), OnShape(f, b, m, other))
<1> DEFINE S == IF \E a \in Player : is_corner_liberty(b, a, m) THEN {m} ELSE {}
           d == [e EXCEPT !.okay = @ \ S]
           k == [f EXCEPT !.okay = @ \ S]
           Joined(u, a, g1, g2) ==
             IF groups_shared_liberties(b.group[g1], b.group[g2]) = 2
             THEN unite_dragons(u, g1, g2, a) ELSE u
           Shape(u, a) ==
             IF is_vertical_bamboo_joint(b, m) THEN Joined(u, a, b.g[m + TOP], b.g[m + BOTTOM])
             ELSE IF is_horizontal_bamboo_joint(b, m) THEN Joined(u, a, b.g[m + LEFT], b.g[m + RIGHT])
             ELSE u
<1>1. \A u, a : OnShape(u, b, m, a) = Shape([u EXCEPT !.okay = @ \ S], a)
  <2> TAKE u, a
  <2>1. [u EXCEPT !.okay = IF \E p \in Player : is_corner_liberty(b, p, m) THEN @ \ {m} ELSE @]
          = [u EXCEPT !.okay = @ \ S]
    <3>1. CASE \E p \in Player : is_corner_liberty(b, p, m)
      BY <3>1
    <3>2. CASE ~\E p \in Player : is_corner_liberty(b, p, m)
      BY <3>2
    <3> QED
      BY <3>1, <3>2
  <2> HIDE DEF S
  <2> QED
    BY <2>1, Zenon DEF OnShape
<1>2. Alike(DOMAIN b.group, d, k) /\ d \in Estimates(b, c, address) /\ k \in Estimates(b, c, other)
  BY MarksAlike, OkayTyped
<1> HIDE DEF d, k, S
<1>3. \A g1, g2 \in DOMAIN b.group :
        Alike(DOMAIN b.group, Joined(d, address, g1, g2), Joined(k, other, g1, g2))
  BY <1>2, UniteAlike
<1>4. \A n \in Point, a \in Player : b.p[n] = a => b.g[n] \in DOMAIN b.group
  BY GroupsAreAt, Marks
<1>5. CASE is_vertical_bamboo_joint(b, m)
  <2>1. m + TOP \in Point /\ m + BOTTOM \in Point
    BY <1>5, SidePoints DEF is_vertical_bamboo_joint
  <2>2. \E a \in Player : b.p[m + TOP] = a /\ b.p[m + BOTTOM] = a
    BY <1>5 DEF is_vertical_bamboo_joint, AllOfOne
  <2>3. b.g[m + TOP] \in DOMAIN b.group /\ b.g[m + BOTTOM] \in DOMAIN b.group
    BY <1>4, <2>1, <2>2
  <2> HIDE DEF Joined
  <2>4. Alike(DOMAIN b.group, Shape(d, address), Shape(k, other))
    BY <1>3, <1>5, <2>3
  <2> HIDE DEF Shape
  <2> QED
    BY <1>1, <2>4, Zenon DEF d, k
<1>6. CASE ~is_vertical_bamboo_joint(b, m) /\ is_horizontal_bamboo_joint(b, m)
  <2>1. m + LEFT \in Point /\ m + RIGHT \in Point
    BY <1>6, SidePoints DEF is_horizontal_bamboo_joint
  <2>2. \E a \in Player : b.p[m + LEFT] = a /\ b.p[m + RIGHT] = a
    BY <1>6 DEF is_horizontal_bamboo_joint, AllOfOne
  <2>3. b.g[m + LEFT] \in DOMAIN b.group /\ b.g[m + RIGHT] \in DOMAIN b.group
    BY <1>4, <2>1, <2>2
  <2> HIDE DEF Joined
  <2>4. Alike(DOMAIN b.group, Shape(d, address), Shape(k, other))
    BY <1>3, <1>6, <2>3
  <2> HIDE DEF Shape
  <2> QED
    BY <1>1, <2>4, Zenon DEF d, k
<1>7. CASE ~is_vertical_bamboo_joint(b, m) /\ ~is_horizontal_bamboo_joint(b, m)
  <2>1. Alike(DOMAIN b.group, Shape(d, address), Shape(k, other))
    BY <1>2, <1>7
  <2> HIDE DEF Shape
  <2> QED
    BY <1>1, <2>1, Zenon DEF d, k
<1> QED
  BY <1>5, <1>6, <1>7

LEMMA OnPointAlike ==
  ASSUME NEW b, Kept(b, b.p), b.empty = FreeOf(b.p), NEW c \in Player,
         NEW address \in Addresses, NEW other \in Addresses,
         NEW e \in Estimates(b, c, address), NEW f \in Estimates(b, c, other),
         Alike(DOMAIN b.group, e, f), NEW m \in Point
  PROVE  Alike(DOMAIN b.group, OnPoint(e, b, c, m, address), OnPoint(f, b, c, m, other))
<1> DEFINE one  == is_eye(b, c, m) \/ is_eye(b, Opponent(c), m)
           two  == is_2pt_eye(b, c, m) \/ is_2pt_eye(b, Opponent(c), m)
           four == is_4pt_eye(b, c, m) \/ is_4pt_eye(b, Opponent(c), m)
<1>1. \A u, a : OnPoint(u, b, c, m, a) =
        IF m \notin b.empty \cap u.viable \cap u.okay THEN u
        ELSE IF one  THEN OnEye(u, b, c, m)
        ELSE IF two  THEN On2ptEye(u, b, c, m)
        ELSE IF four THEN On4ptEye(u, b, c, m, a)
        ELSE IF is_nakade(b, m) > 0 THEN OnNakade(u, b, m, a)
        ELSE OnShape(u, b, m, a)
  BY DEF OnPoint
<1>2. m \in b.empty \cap e.viable \cap e.okay <=> m \in b.empty \cap f.viable \cap f.okay
  BY DEF Alike, SamePoints
<1>3. m \in b.empty => b.p[m] = EMPTY
  BY DEF FreeOf
<1>4. CASE m \notin b.empty \cap e.viable \cap e.okay
  BY <1>1, <1>2, <1>4
<1>5. CASE m \in b.empty \cap e.viable \cap e.okay
  <2>1. b.p[m] = EMPTY
    BY <1>3, <1>5
  <2>2. /\ one => Alike(DOMAIN b.group, OnEye(e, b, c, m), OnEye(f, b, c, m))
        /\ two => Alike(DOMAIN b.group, On2ptEye(e, b, c, m), On2ptEye(f, b, c, m))
        /\ four => Alike(DOMAIN b.group, On4ptEye(e, b, c, m, address), On4ptEye(f, b, c, m, other))
    BY <2>1, OnEyeAlike, On2ptEyeAlike, On4ptEyeAlike
  <2>3. /\ Alike(DOMAIN b.group, OnNakade(e, b, m, address), OnNakade(f, b, m, other))
        /\ Alike(DOMAIN b.group, OnShape(e, b, m, address), OnShape(f, b, m, other))
    BY OnNakadeAlike, OnShapeAlike
  <2> HIDE DEF one, two, four
  <2> QED
    BY <1>1, <1>2, <1>5, <2>2, <2>3
<1> QED
  BY <1>4, <1>5

LEMMA PointsAlike ==
  ASSUME NEW b, Kept(b, b.p), b.empty = FreeOf(b.p), NEW c \in Player, NEW address \in Addresses, NEW other \in Addresses,
         NEW e \in Estimates(b, c, address), NEW f \in Estimates(b, c, other),
         Alike(DOMAIN b.group, e, f),
         NEW order \in Orders
  PROVE  Alike(DOMAIN b.group, OnPoints(e, b, c, order, address), OnPoints(f, b, c, order, other))
<1> DEFINE n == TOTAL_BOARD_SIZ
<1>1. PICK r \in [0..n -> Estimates(b, c, address)] :
           /\ r[0] = e /\ r[n] = OnPoints(e, b, c, order, address)
           /\ \A k \in 1..n : r[k] = OnPoint(r[k - 1], b, c, order[k], address)
  BY PointsSteps
<1>2. PICK s \in [0..n -> Estimates(b, c, other)] :
           /\ s[0] = f /\ s[n] = OnPoints(f, b, c, order, other)
           /\ \A k \in 1..n : s[k] = OnPoint(s[k - 1], b, c, order[k], other)
  BY PointsSteps
<1> DEFINE T == {k \in 0..n : Alike(DOMAIN b.group, r[k], s[k])}
<1>3. n \in Nat /\ \A k \in 1..n : order[k] \in Point
  BY PointsAreFinite, OrderIsOfPoints
<1>4. 0 \in T
  BY <1>1, <1>2, <1>3
<1>5. ASSUME NEW k \in 0..(n - 1), k \in T PROVE k + 1 \in T
  <2>1. k \in 0..n /\ k + 1 \in 0..n /\ k + 1 \in 1..n /\ (k + 1) - 1 = k
    BY <1>3
  <2>2. /\ r[k] \in Estimates(b, c, address) /\ s[k] \in Estimates(b, c, other)
        /\ Alike(DOMAIN b.group, r[k], s[k])
    BY <1>1, <1>2, <1>5, <2>1
  <2>3. /\ r[k + 1] = OnPoint(r[k], b, c, order[k + 1], address)
        /\ s[k + 1] = OnPoint(s[k], b, c, order[k + 1], other)
    BY <1>1, <1>2, <2>1
  <2>4. Alike(DOMAIN b.group, r[k + 1], s[k + 1])
    BY <1>3, <2>1, <2>2, <2>3, OnPointAlike
  <2> QED
    BY <2>1, <2>4
<1>6. n \in T
  <2>1. \A k \in 0..(n - 1) : k \in T => k + 1 \in T
    BY <1>5
  <2> HIDE DEF T, n
  <2>2. \A k \in 0..n : k \in T
    BY <1>3, <1>4, <2>1, InductionUpTo
  <2> QED
    BY <1>3, <2>2
<1> QED
  BY <1>1, <1>2, <1>6

LEMMA UnitedIfStrongAlike ==
  ASSUME NEW b, Kept(b, b.p), NEW c, NEW address \in Addresses, NEW other \in Addresses,
         NEW e \in Estimates(b, c, address), NEW f \in Estimates(b, c, other),
         Alike(DOMAIN b.group, e, f),
         NEW i \in 1..Len(b.unique_groups), NEW j \in 1..Len(b.unique_groups)
  PROVE  Alike(DOMAIN b.group, UnitedIfStrong(e, b, i, j, address), UnitedIfStrong(f, b, i, j, other))
<1>1. b.unique_groups[i] \in DOMAIN b.group /\ b.unique_groups[j] \in DOMAIN b.group
  BY DEF Kept, Grouped, Indexed
<1>2. Alike(DOMAIN b.group,
            unite_dragons(e, b.unique_groups[i], b.unique_groups[j], address),
            unite_dragons(f, b.unique_groups[i], b.unique_groups[j], other))
  BY <1>1, UniteAlike
<1> QED
  BY <1>2 DEF UnitedIfStrong

LEMMA UnitedFromAlike ==
  ASSUME NEW b, Kept(b, b.p), NEW c \in Player, NEW address \in Addresses, NEW other \in Addresses,
         NEW e \in Estimates(b, c, address), NEW f \in Estimates(b, c, other),
         Alike(DOMAIN b.group, e, f),
         NEW i \in 1..Len(b.unique_groups)
  PROVE  Alike(DOMAIN b.group, UnitedFrom(e, b, i, address), UnitedFrom(f, b, i, other))
<1> DEFINE n == Len(b.unique_groups)
<1>1. PICK r \in [0..n -> Estimates(b, c, address)] :
           /\ r[0] = e /\ r[n] = UnitedFrom(e, b, i, address)
           /\ \A k \in 1..n : r[k] = UnitedIfStrong(r[k - 1], b, i, k, address)
  BY UnitedFromSteps
<1>2. PICK s \in [0..n -> Estimates(b, c, other)] :
           /\ s[0] = f /\ s[n] = UnitedFrom(f, b, i, other)
           /\ \A k \in 1..n : s[k] = UnitedIfStrong(s[k - 1], b, i, k, other)
  BY UnitedFromSteps
<1> DEFINE T == {k \in 0..n : Alike(DOMAIN b.group, r[k], s[k])}
<1>3. n \in Nat
  BY DEF Kept, Grouped, Indexed
<1>4. 0 \in T
  BY <1>1, <1>2, <1>3
<1>5. ASSUME NEW k \in 0..(n - 1), k \in T PROVE k + 1 \in T
  <2>1. k \in 0..n /\ k + 1 \in 0..n /\ k + 1 \in 1..n /\ (k + 1) - 1 = k
    BY <1>3
  <2>2. /\ r[k] \in Estimates(b, c, address) /\ s[k] \in Estimates(b, c, other)
        /\ Alike(DOMAIN b.group, r[k], s[k])
    BY <1>1, <1>2, <1>5, <2>1
  <2>3. /\ r[k + 1] = UnitedIfStrong(r[k], b, i, k + 1, address)
        /\ s[k + 1] = UnitedIfStrong(s[k], b, i, k + 1, other)
    BY <1>1, <1>2, <2>1
  <2>4. Alike(DOMAIN b.group, r[k + 1], s[k + 1])
    BY <1>3, <2>1, <2>2, <2>3, UnitedIfStrongAlike
  <2> QED
    BY <2>1, <2>4
<1>6. n \in T
  <2>1. \A k \in 0..(n - 1) : k \in T => k + 1 \in T
    BY <1>5
  <2> HIDE DEF T, n
  <2>2. \A k \in 0..n : k \in T
    BY <1>3, <1>4, <2>1, InductionUpTo
  <2> QED
    BY <1>3, <2>2
<1> QED
  BY <1>1, <1>2, <1>6

LEMMA StrongAlike ==
  ASSUME NEW b, Kept(b, b.p), NEW c \in Player, NEW address \in Addresses, NEW other \in Addresses,
         NEW e \in Estimates(b, c, address), NEW f \in Estimates(b, c, other),
         Alike(DOMAIN b.group, e, f)
  PROVE  Alike(DOMAIN b.group, StrongConnections(e, b, address), StrongConnections(f, b, other))
<1> DEFINE n == Len(b.unique_groups)
<1>1. PICK r \in [0..n -> Estimates(b, c, address)] :
           /\ r[0] = e /\ r[n] = StrongConnections(e, b, address)
           /\ \A k \in 1..n : r[k] = UnitedFrom(r[k - 1], b, k, address)
  BY StrongSteps
<1>2. PICK s \in [0..n -> Estimates(b, c, other)] :
           /\ s[0] = f /\ s[n] = StrongConnections(f, b, other)
           /\ \A k \in 1..n : s[k] = UnitedFrom(s[k - 1], b, k, other)
  BY StrongSteps
<1> DEFINE T == {k \in 0..n : Alike(DOMAIN b.group, r[k], s[k])}
<1>3. n \in Nat
  BY DEF Kept, Grouped, Indexed
<1>4. 0 \in T
  BY <1>1, <1>2, <1>3
<1>5. ASSUME NEW k \in 0..(n - 1), k \in T PROVE k + 1 \in T
  <2>1. k \in 0..n /\ k + 1 \in 0..n /\ k + 1 \in 1..n /\ (k + 1) - 1 = k
    BY <1>3
  <2>2. /\ r[k] \in Estimates(b, c, address) /\ s[k] \in Estimates(b, c, other)
        /\ Alike(DOMAIN b.group, r[k], s[k])
    BY <1>1, <1>2, <1>5, <2>1
  <2>3. /\ r[k + 1] = UnitedFrom(r[k], b, k + 1, address)
        /\ s[k + 1] = UnitedFrom(s[k], b, k + 1, other)
    BY <1>1, <1>2, <2>1
  <2>4. Alike(DOMAIN b.group, r[k + 1], s[k + 1])
    BY <1>3, <2>1, <2>2, <2>3, UnitedFromAlike
  <2> QED
    BY <2>1, <2>4
<1>6. n \in T
  <2>1. \A k \in 0..(n - 1) : k \in T => k + 1 \in T
    BY <1>5
  <2> HIDE DEF T, n
  <2>2. \A k \in 0..n : k \in T
    BY <1>3, <1>4, <2>1, InductionUpTo
  <2> QED
    BY <1>3, <2>2
<1> QED
  BY <1>1, <1>2, <1>6

\* The eye given to the first of the groups beside a sheltered point, which was a head,
\* is one more eye of its dragon; or, when the dragons of the groups were several, they
\* have two eyes or more already, an eye of each.
LEMMA ShelteredAdds ==
  ASSUME NEW b, Kept(b, b.p), NEW c, NEW address \in Addresses,
         NEW e \in Estimates(b, c, address), NEW gs \in Seq(DOMAIN b.group), gs # <<>>,
         \A i \in 1..Len(gs) : EyesAt(e, gs[i]) > 0,
         NEW heads \in Seq(DOMAIN b.group), Len(heads) = Len(gs),
         \A i \in 1..Len(gs) : heads[i] = dragon_head(e, gs[i]),
         NEW m
  PROVE  AddsEye(DOMAIN b.group, UniteAll(e, gs, address),
                 [UniteAll(e, heads, address) EXCEPT !.eyes[Head(heads)] = @ + 1, !.okay = @ \ {m}],
                 gs[1])
<1> DEFINE D == DOMAIN b.group
           n == Len(gs)
           u == UniteAll(e, gs, address)
           x == Head(heads)
           d == [u EXCEPT !.eyes[x] = @ + 1, !.okay = @ \ {m}]
<1>1. /\ n \in Nat /\ n > 0 /\ \A i \in 1..n : gs[i] \in D
      /\ x = dragon_head(e, gs[1]) /\ gs[1] \in D
  OBVIOUS
<1>2. UniteAll(e, heads, address) = u
  BY HeadsUnited
<1>3. Collects(D, e, u, gs, n)
  BY AllCollected
<1>4. u \in Estimates(b, c, address)
  BY UniteAllTyped
<1>5. \A h \in D : /\ dragon_head(u, h) \in D /\ dragon_head(u, dragon_head(u, h)) = dragon_head(u, h)
                   /\ EyesAt(u, h) \in Nat /\ EyesAt(e, h) \in Nat
  BY <1>4, HeadOfHead
<1>6. x \in D /\ dragon_head(e, x) = x
  BY <1>1, HeadOfHead
<1> HIDE DEF u, x
<1>7. /\ d.next = u.next /\ d.borrowed = u.borrowed
      /\ d.eyes[x] = u.eyes[x] + 1 /\ \A g \in D \ {x} : d.eyes[g] = u.eyes[g]
  BY <1>4, <1>6 DEF Estimates, EstimateType
<1> HIDE DEF d
<1>8. \A g : dragon_head(d, g) = dragon_head(u, g)
  BY <1>7, HeadsOfLinks
<1>9. \A g \in D : EyesAt(d, g) = IF dragon_head(u, g) = x THEN EyesAt(u, g) + 1 ELSE EyesAt(u, g)
  BY <1>5, <1>7, <1>8 DEF EyesAt
<1>10. dragon_head(u, x) = dragon_head(u, gs[1])
  <2>1. SameDragon(e, x, gs[1])
    BY <1>1, <1>6 DEF SameDragon
  <2> QED
    BY <1>1, <1>3, <1>6, <2>1 DEF Collects, SameDragon
<1>11. ASSUME NEW g \in D
       PROVE  IF SameDragon(u, g, gs[1]) THEN SameUpToTwo(EyesAt(d, g), EyesAt(u, g) + 1)
                                         ELSE EyesAt(d, g) = EyesAt(u, g)
  <2>1. CASE ~SameDragon(u, g, gs[1])
    <3>1. dragon_head(u, g) # x
      BY <1>5, <1>10, <2>1 DEF SameDragon
    <3> QED
      BY <1>9, <2>1, <3>1
  <2>2. CASE SameDragon(u, g, gs[1]) /\ dragon_head(u, g) = x
    BY <1>9, <2>2 DEF SameUpToTwo
  <2>3. CASE SameDragon(u, g, gs[1]) /\ dragon_head(u, g) # x
    <3>1. u # e
      BY <1>1, <1>6, <2>3 DEF SameDragon
    <3>2. PICK i \in 1..n : ~SameDragon(e, gs[i], gs[1])
      BY <1>3, <3>1 DEF Collects
    <3>3. EyesAt(u, gs[i]) >= EyesAt(e, gs[i]) + EyesAt(e, gs[1])
      BY <1>1, <1>3, <3>2 DEF Collects
    <3>4. EyesAt(u, gs[i]) = EyesAt(u, g)
      BY <1>3, <2>3 DEF Collects, SameDragon, EyesAt
    <3>5. /\ EyesAt(e, gs[i]) > 0 /\ EyesAt(e, gs[1]) > 0 /\ EyesAt(u, g) \in Nat
          /\ EyesAt(e, gs[i]) \in Nat /\ EyesAt(e, gs[1]) \in Nat
      BY <1>1, <1>5
    <3>6. EyesAt(u, g) > 1 /\ EyesAt(d, g) = EyesAt(u, g)
      BY <1>9, <2>3, <3>3, <3>4, <3>5
    <3> QED
      BY <2>3, <3>5, <3>6 DEF SameUpToTwo
  <2> QED
    BY <2>1, <2>2, <2>3
<1>12. AddsEye(D, u, d, gs[1])
  BY <1>7, <1>8, <1>11 DEF AddsEye
<1> QED
  BY <1>2, <1>12, Zenon DEF u, d, x

LEMMA OnShelteredAlike ==
  ASSUME NEW b, Kept(b, b.p), NEW c \in Player, NEW address \in Addresses, NEW other \in Addresses,
         NEW e \in Estimates(b, c, address), NEW f \in Estimates(b, c, other),
         Alike(DOMAIN b.group, e, f), NEW m \in Point
  PROVE  Alike(DOMAIN b.group, OnSheltered(e, b, c, m, address), OnSheltered(f, b, c, m, other))
<1> DEFINE D == DOMAIN b.group
           gs == [i \in DOMAIN Sides[m] |-> b.g[Sides[m][i]]]
           Heads(u) == [i \in DOMAIN Sides[m] |-> dragon_head(u, b.g[Sides[m][i]])]
           Granted(u, a) == [UniteAll(u, Heads(u), a) EXCEPT !.eyes[Head(Heads(u))] = @ + 1,
                                                           !.okay = @ \ {m}]
           passed(u) == \/ m \notin b.empty \cap u.viable \cap u.okay
                        \/ ~sheltered_liberty(b, m) \/ is_eye(b, Opponent(c), m)
<1>1. \A u, a : OnSheltered(u, b, c, m, a) = IF passed(u) \/ ~AllHaveEyes(u, Heads(u)) THEN u ELSE Granted(u, a)
  BY DEF OnSheltered
<1>2. passed(e) <=> passed(f)
  BY DEF Alike, SamePoints
<1>3. CASE passed(e)
  <2> HIDE DEF passed, Granted, Heads
  <2> QED
    BY <1>1, <1>2, <1>3
<1>4. CASE ~passed(e)
  <2>1. sheltered_liberty(b, m)
    BY <1>4
  <2>2. /\ Sides[m] \in Seq(Point) /\ Sides[m] # <<>>
        /\ \A i \in DOMAIN Sides[m] : Sides[m][i] \in neighbors_side[m]
    <3>1. Sides[m] \in Seq(Point) /\ ToSet(Sides[m]) = neighbors_side[m]
      BY NeighborsOfPoint
    <3>2. neighbors_side[m] # {}
      BY TwoSides
    <3> QED
      BY <3>1, <3>2 DEF ToSet
  <2> DEFINE n == Len(Sides[m])
  <2>3. n \in Nat /\ n > 0 /\ DOMAIN Sides[m] = 1..n
    BY <2>2
  <2>4. \A i \in 1..n : b.g[Sides[m][i]] \in D
    BY <2>1, <2>2, <2>3, ShelteredGroups
  <2>5. gs \in Seq(D) /\ Len(gs) = n /\ gs # <<>> /\ \A i \in 1..n : gs[i] \in D
    <3>1. gs \in [1..n -> D]
      BY <2>3, <2>4
    <3> HIDE DEF gs, D, n
    <3> QED
      BY <2>3, <3>1, FunctionIsList
  <2>6. ASSUME NEW u, NEW a \in Addresses, u \in Estimates(b, c, a)
        PROVE  /\ Heads(u) \in Seq(D) /\ Len(Heads(u)) = n
               /\ \A i \in 1..n : Heads(u)[i] = dragon_head(u, gs[i])
    <3>1. \A i \in 1..n : dragon_head(u, b.g[Sides[m][i]]) \in D
      BY <2>4, <2>6, HeadTyped
    <3>2. Heads(u) \in [1..n -> D] /\ \A i \in 1..n : Heads(u)[i] = dragon_head(u, gs[i])
      BY <2>3, <3>1
    <3> HIDE DEF Heads, D, n
    <3> QED
      BY <2>3, <3>2, FunctionIsList
  <2>7. \A u, a : a \in Addresses /\ u \in Estimates(b, c, a) =>
          (AllHaveEyes(u, Heads(u)) <=> \A i \in 1..n : EyesAt(u, gs[i]) > 0)
    BY <2>3 DEF AllHaveEyes, EyesAt
  <2>8. \A h \in D : EyesAt(e, h) > 0 <=> EyesAt(f, h) > 0
    <3>1. \A h \in D : /\ EyesAt(e, h) \in Nat /\ EyesAt(f, h) \in Nat
                       /\ SameUpToTwo(EyesAt(e, h), EyesAt(f, h))
      BY HeadOfHead DEF Alike
    <3> QED
      BY <3>1 DEF SameUpToTwo
  <2>9. AllHaveEyes(e, Heads(e)) <=> AllHaveEyes(f, Heads(f))
    <3> HIDE DEF D, gs, Heads, n
    <3> QED
      BY <2>5, <2>7, <2>8
  <2> HIDE DEF passed, gs, Heads, n
  <2>10. CASE ~AllHaveEyes(e, Heads(e))
    <3> HIDE DEF Granted
    <3> QED
      BY <1>1, <1>2, <2>9, <2>10
  <2>11. CASE AllHaveEyes(e, Heads(e))
    <3>1. /\ \A i \in 1..Len(gs) : EyesAt(e, gs[i]) > 0
          /\ \A i \in 1..Len(gs) : EyesAt(f, gs[i]) > 0
      BY <2>5, <2>7, <2>9, <2>11
    <3>2. AddsEye(D, UniteAll(e, gs, address), Granted(e, address), gs[1])
      BY <2>5, <2>6, <3>1, ShelteredAdds
    <3>3. AddsEye(D, UniteAll(f, gs, other), Granted(f, other), gs[1])
      BY <2>5, <2>6, <3>1, ShelteredAdds
    <3>4. Alike(D, UniteAll(e, gs, address), UniteAll(f, gs, other))
      BY <2>5, UniteAllAlike
    <3>5. \A g \in D : /\ EyesAt(UniteAll(e, gs, address), g) \in Nat
                       /\ EyesAt(UniteAll(f, gs, other), g) \in Nat
      BY <2>5, UniteAllTyped, HeadOfHead
    <3>6. SamePoints(Granted(e, address), Granted(f, other))
      <4>1. /\ UniteAll(e, Heads(e), address) = UniteAll(e, gs, address)
            /\ UniteAll(f, Heads(f), other) = UniteAll(f, gs, other)
        BY <2>5, <2>6, HeadsUnited
      <4>2. /\ UniteAll(e, gs, address) \in Estimates(b, c, address)
            /\ UniteAll(f, gs, other) \in Estimates(b, c, other)
        BY <2>5, UniteAllTyped
      <4> DEFINE p == UniteAll(e, gs, address)
                 q == UniteAll(f, gs, other)
      <4>3. p.okay = q.okay /\ p.viable = q.viable
        BY <3>4 DEF Alike, SamePoints
      <4> HIDE DEF p, q
      <4>4. \A h1, h2 : SamePoints([p EXCEPT !.eyes[h1] = @ + 1, !.okay = @ \ {m}],
                                   [q EXCEPT !.eyes[h2] = @ + 1, !.okay = @ \ {m}])
        BY <4>2, <4>3 DEF SamePoints, Estimates, EstimateType, p, q
      <4> QED
        BY <4>1, <4>4 DEF p, q
    <3>7. Alike(D, Granted(e, address), Granted(f, other))
      <4> HIDE DEF Granted, D
      <4> QED
        BY <2>3, <2>5, <3>2, <3>3, <3>4, <3>5, <3>6, AddedAlike
    <3> HIDE DEF Granted
    <3> QED
      BY <1>1, <1>2, <1>4, <2>9, <2>11, <3>7
  <2> QED
    BY <2>10, <2>11
<1> QED
  BY <1>3, <1>4

LEMMA AllShelteredAlike ==
  ASSUME NEW b, Kept(b, b.p), NEW c \in Player, NEW address \in Addresses, NEW other \in Addresses,
         NEW e \in Estimates(b, c, address), NEW f \in Estimates(b, c, other),
         Alike(DOMAIN b.group, e, f),
         NEW order \in Orders
  PROVE  Alike(DOMAIN b.group, OnAllSheltered(e, b, c, order, address), OnAllSheltered(f, b, c, order, other))
<1> DEFINE n == TOTAL_BOARD_SIZ
<1>1. PICK r \in [0..n -> Estimates(b, c, address)] :
           /\ r[0] = e /\ r[n] = OnAllSheltered(e, b, c, order, address)
           /\ \A k \in 1..n : r[k] = OnSheltered(r[k - 1], b, c, order[k], address)
  BY ShelteredSteps
<1>2. PICK s \in [0..n -> Estimates(b, c, other)] :
           /\ s[0] = f /\ s[n] = OnAllSheltered(f, b, c, order, other)
           /\ \A k \in 1..n : s[k] = OnSheltered(s[k - 1], b, c, order[k], other)
  BY ShelteredSteps
<1> DEFINE T == {k \in 0..n : Alike(DOMAIN b.group, r[k], s[k])}
<1>3. n \in Nat /\ \A k \in 1..n : order[k] \in Point
  BY PointsAreFinite, OrderIsOfPoints
<1>4. 0 \in T
  BY <1>1, <1>2, <1>3
<1>5. ASSUME NEW k \in 0..(n - 1), k \in T PROVE k + 1 \in T
  <2>1. k \in 0..n /\ k + 1 \in 0..n /\ k + 1 \in 1..n /\ (k + 1) - 1 = k
    BY <1>3
  <2>2. /\ r[k] \in Estimates(b, c, address) /\ s[k] \in Estimates(b, c, other)
        /\ Alike(DOMAIN b.group, r[k], s[k])
    BY <1>1, <1>2, <1>5, <2>1
  <2>3. /\ r[k + 1] = OnSheltered(r[k], b, c, order[k + 1], address)
        /\ s[k + 1] = OnSheltered(s[k], b, c, order[k + 1], other)
    BY <1>1, <1>2, <2>1
  <2>4. Alike(DOMAIN b.group, r[k + 1], s[k + 1])
    BY <1>3, <2>1, <2>2, <2>3, OnShelteredAlike
  <2> QED
    BY <2>1, <2>4
<1>6. n \in T
  <2>1. \A k \in 0..(n - 1) : k \in T => k + 1 \in T
    BY <1>5
  <2> HIDE DEF T, n
  <2>2. \A k \in 0..n : k \in T
    BY <1>3, <1>4, <2>1, InductionUpTo
  <2> QED
    BY <1>3, <2>2
<1> QED
  BY <1>1, <1>2, <1>6

-----------------------------------------------------------------------------
\* Two estimates once eyes are borrowed.
AlikeInAll(D, e, f) ==
  /\ \A g, h \in D : SameDragon(e, g, h) <=> SameDragon(f, g, h)
  /\ \A h \in D : SameUpToTwo(EyesAt(e, h), EyesAt(f, h))
  /\ \A h \in D : SameUpToTwo(BorrowedAt(e, h), BorrowedAt(f, h))

LEMMA NothingBorrowed ==
  ASSUME NEW b, Kept(b, b.p), NEW c, NEW address \in Addresses, NEW other \in Addresses,
         NEW e \in Estimates(b, c, address), NEW f \in Estimates(b, c, other),
         Alike(DOMAIN b.group, e, f)
  PROVE  AlikeInAll(DOMAIN b.group, e, f)
<1>1. \A h \in DOMAIN b.group : /\ dragon_head(e, h) \in DOMAIN b.group
                                /\ dragon_head(f, h) \in DOMAIN b.group
  BY HeadTyped
<1>2. \A h \in DOMAIN b.group : BorrowedAt(e, h) = 0 /\ BorrowedAt(f, h) = 0
  BY <1>1 DEF Alike, BorrowedAt
<1> QED
  BY <1>2 DEF Alike, AlikeInAll, SameUpToTwo

MoreOf(n, k) == IF n > k THEN n ELSE k

\* d is e after the dragons of h1 and h2 borrowed the eyes of each other.
Borrows(D, e, d, h1, h2) ==
  /\ SameDragon(e, h1, h2) => d = e
  /\ \A g \in D : dragon_head(d, g) = dragon_head(e, g) /\ EyesAt(d, g) = EyesAt(e, g)
  /\ ~SameDragon(e, h1, h2) =>
       \A g \in D :
         BorrowedAt(d, g) = IF SameDragon(e, g, h1) THEN MoreOf(EyesAt(e, h2), BorrowedAt(e, g))
                            ELSE IF SameDragon(e, g, h2) THEN MoreOf(EyesAt(e, h1), BorrowedAt(e, g))
                            ELSE BorrowedAt(e, g)

LEMMA BorrowBorrows ==
  ASSUME NEW b, Kept(b, b.p), NEW c, NEW address \in Addresses,
         NEW e \in Estimates(b, c, address), NEW g1 \in DOMAIN b.group, NEW g2 \in DOMAIN b.group
  PROVE  Borrows(DOMAIN b.group, e, Borrow(e, g1, g2), g1, g2)
<1> DEFINE D == DOMAIN b.group
           h1 == dragon_head(e, g1)
           h2 == dragon_head(e, g2)
           more(n, k) == IF n > k THEN n ELSE k
           d == [e EXCEPT !.borrowed[h1] = more(e.eyes[h2], @), !.borrowed[h2] = more(e.eyes[h1], @)]
<1>1. h1 \in D /\ h2 \in D /\ \A g \in D : dragon_head(e, g) \in D
  BY HeadTyped
<1>2. Borrow(e, g1, g2) = IF h1 = h2 THEN e ELSE d
  BY DEF Borrow
<1>3. e \in EstimateType(D)
  BY DEF Estimates
<1>4. SameDragon(e, g1, g2) <=> h1 = h2
  BY DEF SameDragon
<1>5. \A g : /\ SameDragon(e, g, g1) <=> dragon_head(e, g) = h1
             /\ SameDragon(e, g, g2) <=> dragon_head(e, g) = h2
  BY DEF SameDragon
<1>6. EyesAt(e, g1) = e.eyes[h1] /\ EyesAt(e, g2) = e.eyes[h2]
  BY DEF EyesAt
<1> HIDE DEF h1, h2
<1>7. CASE h1 = h2
  BY <1>2, <1>4, <1>7 DEF Borrows
<1>8. CASE h1 # h2
  <2>1. /\ d.next = e.next /\ d.eyes = e.eyes
        /\ d.borrowed[h1] = MoreOf(e.eyes[h2], e.borrowed[h1])
        /\ d.borrowed[h2] = MoreOf(e.eyes[h1], e.borrowed[h2])
        /\ \A g \in D \ {h1, h2} : d.borrowed[g] = e.borrowed[g]
    <3> DEFINE one == [e.borrowed EXCEPT ![h1] = more(e.eyes[h2], @)]
               two == [one EXCEPT ![h2] = more(e.eyes[h1], @)]
    <3>1. d = [e EXCEPT !.borrowed = two]
      BY <1>3 DEF EstimateType
    <3>2. DOMAIN e.borrowed = D
      BY <1>3 DEF EstimateType
    <3>3. DOMAIN one = D /\ one[h1] = MoreOf(e.eyes[h2], e.borrowed[h1])
          /\ \A g \in D \ {h1} : one[g] = e.borrowed[g]
      BY <1>1, <3>2 DEF MoreOf
    <3> HIDE DEF one
    <3>4. /\ two[h1] = one[h1] /\ two[h2] = MoreOf(e.eyes[h1], one[h2])
          /\ \A g \in D \ {h2} : two[g] = one[g]
      BY <1>1, <1>8, <3>3 DEF MoreOf
    <3>5. /\ two[h1] = MoreOf(e.eyes[h2], e.borrowed[h1])
          /\ two[h2] = MoreOf(e.eyes[h1], e.borrowed[h2])
          /\ \A g \in D \ {h1, h2} : two[g] = e.borrowed[g]
      BY <1>1, <1>8, <3>3, <3>4
    <3> HIDE DEF two, d
    <3>6. d.next = e.next /\ d.eyes = e.eyes /\ d.borrowed = two
      BY <1>3, <3>1 DEF EstimateType
    <3> QED
      BY <3>5, <3>6
  <2> HIDE DEF d
  <2>2. \A g : dragon_head(d, g) = dragon_head(e, g)
    BY <2>1, HeadsOfLinks
  <2>3. \A g : BorrowedAt(d, g) = d.borrowed[dragon_head(e, g)] /\ BorrowedAt(e, g) = e.borrowed[dragon_head(e, g)]
    BY <2>2 DEF BorrowedAt
  <2>4. \A g \in D :
          BorrowedAt(d, g) = IF SameDragon(e, g, g1) THEN MoreOf(EyesAt(e, g2), BorrowedAt(e, g))
                             ELSE IF SameDragon(e, g, g2) THEN MoreOf(EyesAt(e, g1), BorrowedAt(e, g))
                             ELSE BorrowedAt(e, g)
    BY <1>1, <1>5, <1>6, <2>1, <2>3
  <2>5. \A g \in D : EyesAt(d, g) = EyesAt(e, g)
    BY <2>1, <2>2 DEF EyesAt
  <2> QED
    BY <1>2, <1>4, <1>8, <2>2, <2>4, <2>5 DEF Borrows
<1> QED
  BY <1>7, <1>8

LEMMA MoreUpToTwo ==
  ASSUME NEW x \in Nat, NEW y \in Nat, NEW u \in Nat, NEW v \in Nat,
         SameUpToTwo(x, u), SameUpToTwo(y, v)
  PROVE  SameUpToTwo(MoreOf(x, y), MoreOf(u, v))
BY DEF SameUpToTwo, MoreOf

LEMMA BorrowAlike ==
  ASSUME NEW b, Kept(b, b.p), NEW c, NEW address \in Addresses, NEW other \in Addresses,
         NEW e \in Estimates(b, c, address), NEW f \in Estimates(b, c, other),
         AlikeInAll(DOMAIN b.group, e, f), NEW h1 \in DOMAIN b.group, NEW h2 \in DOMAIN b.group
  PROVE  AlikeInAll(DOMAIN b.group, Borrow(e, h1, h2), Borrow(f, h1, h2))
<1> DEFINE D == DOMAIN b.group
           d == Borrow(e, h1, h2)
           k == Borrow(f, h1, h2)
<1>1. Borrows(D, e, d, h1, h2) /\ Borrows(D, f, k, h1, h2)
  BY BorrowBorrows
<1>2. \A h \in D : /\ EyesAt(e, h) \in Nat /\ EyesAt(f, h) \in Nat
                   /\ BorrowedAt(e, h) \in Nat /\ BorrowedAt(f, h) \in Nat
  BY HeadOfHead
<1>3. h1 \in D /\ h2 \in D /\ AlikeInAll(D, e, f)
  OBVIOUS
<1> HIDE DEF d, k, D
<1>4. SameDragon(e, h1, h2) <=> SameDragon(f, h1, h2)
  BY <1>3 DEF AlikeInAll
<1>5. CASE SameDragon(e, h1, h2)
  <2>1. d = e /\ k = f
    BY <1>1, <1>4, <1>5 DEF Borrows
  <2> QED
    BY <1>3, <2>1 DEF d, k, D
<1>6. CASE ~SameDragon(e, h1, h2)
  <2>1. \A g, h \in D : SameDragon(d, g, h) <=> SameDragon(k, g, h)
    BY <1>1, <1>3 DEF AlikeInAll, Borrows, SameDragon
  <2>2. \A h \in D : SameUpToTwo(EyesAt(d, h), EyesAt(k, h))
    BY <1>1, <1>3 DEF AlikeInAll, Borrows
  <2>3. ASSUME NEW h \in D PROVE SameUpToTwo(BorrowedAt(d, h), BorrowedAt(k, h))
    <3>1. /\ BorrowedAt(d, h) = IF SameDragon(e, h, h1) THEN MoreOf(EyesAt(e, h2), BorrowedAt(e, h))
                                ELSE IF SameDragon(e, h, h2) THEN MoreOf(EyesAt(e, h1), BorrowedAt(e, h))
                                ELSE BorrowedAt(e, h)
          /\ BorrowedAt(k, h) = IF SameDragon(f, h, h1) THEN MoreOf(EyesAt(f, h2), BorrowedAt(f, h))
                                ELSE IF SameDragon(f, h, h2) THEN MoreOf(EyesAt(f, h1), BorrowedAt(f, h))
                                ELSE BorrowedAt(f, h)
      BY <1>1, <1>4, <1>6 DEF Borrows
    <3>2. /\ SameDragon(e, h, h1) <=> SameDragon(f, h, h1)
          /\ SameDragon(e, h, h2) <=> SameDragon(f, h, h2)
          /\ SameUpToTwo(BorrowedAt(e, h), BorrowedAt(f, h))
          /\ SameUpToTwo(EyesAt(e, h1), EyesAt(f, h1)) /\ SameUpToTwo(EyesAt(e, h2), EyesAt(f, h2))
      BY <1>3 DEF AlikeInAll
    <3>3. /\ SameUpToTwo(MoreOf(EyesAt(e, h1), BorrowedAt(e, h)), MoreOf(EyesAt(f, h1), BorrowedAt(f, h)))
          /\ SameUpToTwo(MoreOf(EyesAt(e, h2), BorrowedAt(e, h)), MoreOf(EyesAt(f, h2), BorrowedAt(f, h)))
      BY <1>2, <1>3, <3>2, MoreUpToTwo
    <3> QED
      BY <3>1, <3>2, <3>3
  <2>4. AlikeInAll(D, d, k)
    BY <2>1, <2>2, <2>3 DEF AlikeInAll
  <2> QED
    BY <2>4 DEF D, d, k
<1> QED
  BY <1>5, <1>6

LEMMA OnKosumiAlike ==
  ASSUME NEW b, Kept(b, b.p), NEW c, NEW address \in Addresses, NEW other \in Addresses,
         NEW e \in Estimates(b, c, address), NEW f \in Estimates(b, c, other),
         AlikeInAll(DOMAIN b.group, e, f), NEW m \in Point
  PROVE  AlikeInAll(DOMAIN b.group, OnKosumi(e, b, m), OnKosumi(f, b, m))
<1> DEFINE D == DOMAIN b.group
           First(u) == IF is_kosumi1(b, m) THEN Borrow(u, b.g[m + RIGHT], b.g[m + BOTTOM]) ELSE u
           d == First(e)
           k == First(f)
<1>1. \A n \in Point, a \in Player : b.p[n] = a => b.g[n] \in DOMAIN b.group
  BY GroupsAreAt, Marks
<1>2. /\ AlikeInAll(D, d, k)
      /\ d \in Estimates(b, c, address) /\ k \in Estimates(b, c, other)
  <2>1. CASE is_kosumi1(b, m)
    <3>1. m + RIGHT \in Point /\ m + BOTTOM \in Point
      BY <2>1, SidePoints DEF is_kosumi1
    <3>2. \E a \in Player : b.p[m + RIGHT] = a /\ b.p[m + BOTTOM] = a
      BY <2>1 DEF is_kosumi1, AllOfOne
    <3>3. b.g[m + RIGHT] \in D /\ b.g[m + BOTTOM] \in D
      BY <1>1, <3>1, <3>2
    <3> QED
      BY <2>1, <3>3, BorrowAlike, BorrowTyped
  <2>2. CASE ~is_kosumi1(b, m)
    BY <2>2
  <2> QED
    BY <2>1, <2>2
<1>3. ASSUME is_kosumi2(b, m)
      PROVE  AlikeInAll(D, Borrow(d, b.g[m + LEFT], b.g[m + BOTTOM]),
                           Borrow(k, b.g[m + LEFT], b.g[m + BOTTOM]))
  <2>1. m + LEFT \in Point /\ m + BOTTOM \in Point
    BY <1>3, SidePoints DEF is_kosumi2
  <2>2. \E a \in Player : b.p[m + LEFT] = a /\ b.p[m + BOTTOM] = a
    BY <1>3 DEF is_kosumi2, AllOfOne
  <2>3. b.g[m + LEFT] \in D /\ b.g[m + BOTTOM] \in D
    BY <1>1, <2>1, <2>2
  <2> HIDE DEF d, k
  <2> QED
    BY <1>2, <2>3, BorrowAlike
<1>4. \A u : OnKosumi(u, b, m) =
        IF m \notin b.empty THEN u
        ELSE IF is_kosumi2(b, m) THEN Borrow(First(u), b.g[m + LEFT], b.g[m + BOTTOM]) ELSE First(u)
  BY DEF OnKosumi
<1> HIDE DEF First
<1> QED
  BY <1>2, <1>3, <1>4

LEMMA AllKosumiAlike ==
  ASSUME NEW b, Kept(b, b.p), NEW c \in Player, NEW address \in Addresses, NEW other \in Addresses,
         NEW e \in Estimates(b, c, address), NEW f \in Estimates(b, c, other),
         AlikeInAll(DOMAIN b.group, e, f),
         NEW order \in Orders
  PROVE  AlikeInAll(DOMAIN b.group, OnAllKosumi(e, b, order), OnAllKosumi(f, b, order))
<1> DEFINE n == TOTAL_BOARD_SIZ
<1>1. PICK r \in [0..n -> Estimates(b, c, address)] :
           /\ r[0] = e /\ r[n] = OnAllKosumi(e, b, order)
           /\ \A k \in 1..n : r[k] = OnKosumi(r[k - 1], b, order[k])
  BY KosumiSteps
<1>2. PICK s \in [0..n -> Estimates(b, c, other)] :
           /\ s[0] = f /\ s[n] = OnAllKosumi(f, b, order)
           /\ \A k \in 1..n : s[k] = OnKosumi(s[k - 1], b, order[k])
  BY KosumiSteps
<1> DEFINE T == {k \in 0..n : AlikeInAll(DOMAIN b.group, r[k], s[k])}
<1>3. n \in Nat /\ \A k \in 1..n : order[k] \in Point
  BY PointsAreFinite, OrderIsOfPoints
<1>4. 0 \in T
  BY <1>1, <1>2, <1>3
<1>5. ASSUME NEW k \in 0..(n - 1), k \in T PROVE k + 1 \in T
  <2>1. k \in 0..n /\ k + 1 \in 0..n /\ k + 1 \in 1..n /\ (k + 1) - 1 = k
    BY <1>3
  <2>2. /\ r[k] \in Estimates(b, c, address) /\ s[k] \in Estimates(b, c, other)
        /\ AlikeInAll(DOMAIN b.group, r[k], s[k])
    BY <1>1, <1>2, <1>5, <2>1
  <2>3. /\ r[k + 1] = OnKosumi(r[k], b, order[k + 1])
        /\ s[k + 1] = OnKosumi(s[k], b, order[k + 1])
    BY <1>1, <1>2, <2>1
  <2>4. AlikeInAll(DOMAIN b.group, r[k + 1], s[k + 1])
    BY <1>3, <2>1, <2>2, <2>3, OnKosumiAlike
  <2> QED
    BY <2>1, <2>4
<1>6. n \in T
  <2>1. \A k \in 0..(n - 1) : k \in T => k + 1 \in T
    BY <1>5
  <2> HIDE DEF T, n
  <2>2. \A k \in 0..n : k \in T
    BY <1>3, <1>4, <2>1, InductionUpTo
  <2> QED
    BY <1>3, <2>2
<1> QED
  BY <1>1, <1>2, <1>6

\* The eyes of a group in what estimate_eyes gives: two or more for any addresses, or
\* for none.
LEMMA VerdictsAgree ==
  ASSUME NEW b, Kept(b, b.p), b.empty = FreeOf(b.p), NEW c \in Player, NEW order \in Orders,
         NEW address \in Addresses, NEW other \in Addresses, NEW h \in DOMAIN b.group
  PROVE  estimate_eyes(b, c, order, address).eyes[h] > 1
           <=> estimate_eyes(b, c, order, other).eyes[h] > 1
<1> DEFINE D == DOMAIN b.group
           shapes(a) == OnPoints(NewEstimate(b), b, c, order, a)
           strong(a) == StrongConnections(shapes(a), b, a)
           sheltered(a) == OnAllSheltered(strong(a), b, c, order, a)
           last(a) == OnAllKosumi(sheltered(a), b, order)
<1>1. \A a \in Addresses : NewEstimate(b) \in Estimates(b, c, a)
  BY NewEstimateTyped
<1>2. Alike(D, NewEstimate(b), NewEstimate(b))
  <2>1. \A g \in D : NewEstimate(b).borrowed[g] = 0
    BY DEF NewEstimate
  <2> QED
    BY <2>1 DEF Alike, SamePoints, SameUpToTwo
<1>3. /\ Alike(D, shapes(address), shapes(other))
      /\ shapes(address) \in Estimates(b, c, address) /\ shapes(other) \in Estimates(b, c, other)
  BY <1>1, <1>2, PointsAlike, PointsTyped
<1> HIDE DEF shapes
<1>4. /\ Alike(D, strong(address), strong(other))
      /\ strong(address) \in Estimates(b, c, address) /\ strong(other) \in Estimates(b, c, other)
  BY <1>3, StrongAlike, StrongTyped
<1> HIDE DEF strong
<1>5. /\ Alike(D, sheltered(address), sheltered(other))
      /\ sheltered(address) \in Estimates(b, c, address) /\ sheltered(other) \in Estimates(b, c, other)
  BY <1>4, AllShelteredAlike, ShelteredTyped
<1> HIDE DEF sheltered
<1>6. AlikeInAll(D, sheltered(address), sheltered(other))
  BY <1>5, NothingBorrowed
<1>7. /\ AlikeInAll(D, last(address), last(other))
      /\ last(address) \in Estimates(b, c, address) /\ last(other) \in Estimates(b, c, other)
  BY <1>5, <1>6, AllKosumiAlike, KosumiTyped
<1>8. \A a : estimate_eyes(b, c, order, a) = EyesOfDragons(last(a))
  BY Zenon DEF estimate_eyes, OnPoints, OnAllSheltered, OnAllKosumi, shapes, strong, sheltered
<1> HIDE DEF last
<1>9. ASSUME NEW a \in Addresses, last(a) \in Estimates(b, c, a)
      PROVE  estimate_eyes(b, c, order, a).eyes[h] = EyesAt(last(a), h) + BorrowedAt(last(a), h)
  <2> DEFINE e == last(a)
  <2>1. e \in EstimateType(D)
    BY <1>9 DEF Estimates
  <2> HIDE DEF e
  <2>2. EyesOfDragons(e).eyes[h] = EyesAt(e, h) + BorrowedAt(e, h)
    BY <2>1 DEF EyesOfDragons, EstimateType, EyesAt, BorrowedAt
  <2> QED
    BY <1>8, <2>2 DEF e
<1>10. /\ EyesAt(last(address), h) \in Nat /\ BorrowedAt(last(address), h) \in Nat
       /\ EyesAt(last(other), h) \in Nat /\ BorrowedAt(last(other), h) \in Nat
  BY <1>7, HeadOfHead
<1>11. /\ SameUpToTwo(EyesAt(last(address), h), EyesAt(last(other), h))
       /\ SameUpToTwo(BorrowedAt(last(address), h), BorrowedAt(last(other), h))
  BY <1>7 DEF AlikeInAll
<1>12. SameUpToTwo(EyesAt(last(address), h) + BorrowedAt(last(address), h),
                   EyesAt(last(other), h) + BorrowedAt(last(other), h))
  BY <1>10, <1>11, SumsUpToTwo
<1>13. /\ estimate_eyes(b, c, order, address).eyes[h]
            = EyesAt(last(address), h) + BorrowedAt(last(address), h)
       /\ estimate_eyes(b, c, order, other).eyes[h]
            = EyesAt(last(other), h) + BorrowedAt(last(other), h)
  BY <1>7, <1>9
<1> QED
  BY <1>12, <1>13 DEF SameUpToTwo

\* On every board of a state of the tree, whichever the order of the free points,
\* whether a group is found to have two eyes does not depend on where in memory the
\* groups are, though that decides which of them keeps the count of the eyes of all.
THEOREM EyesOfAnyAddress == Spec => []VerdictOfAnyAddress
<1>1. Init => BoardInv
  BY BoardInvInit
<1>2. BoardInv /\ [Next]_vars => BoardInv'
  BY BoardInvStep
<1>3. BoardInv => VerdictOfAnyAddress
  <2> SUFFICES ASSUME BoardInv, NEW order \in Orders,
                      NEW e \in {estimate_eyes(cb, colour, order, address) : address \in Addresses},
                      NEW f \in {estimate_eyes(cb, colour, order, address) : address \in Addresses},
                      NEW h \in DOMAIN cb.group
               PROVE  (e.eyes[h] > 1) = (f.eyes[h] > 1)
    BY DEF VerdictOfAnyAddress
  <2>1. PICK address \in Addresses : e = estimate_eyes(cb, colour, order, address)
    OBVIOUS
  <2>2. PICK other \in Addresses : f = estimate_eyes(cb, colour, order, other)
    OBVIOUS
  <2>3. Kept(cb, cb.p) /\ cb.empty = FreeOf(cb.p) /\ colour \in Player
    BY DEF BoardInv
  <2>4. e.eyes[h] > 1 <=> f.eyes[h] > 1
    BY <2>1, <2>2, <2>3, VerdictsAgree
  <2> QED
    BY <2>4
<1> QED
  BY <1>1, <1>2, <1>3, PTL DEF Spec
=============================================================================
