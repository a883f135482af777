------------------------------- MODULE Dragons --------------------------------
(***************************************************************************)
(* The estimate of the eyes of each group (src/src/dragon.c).  Groups of a *)
(* colour that share their fate are united in dragons, trees of groups     *)
(* linked towards a head, where the eyes of all are counted.               *)
(*                                                                         *)
(* Two things that the board does not say decide the course of it: the     *)
(* order of the list of free points, left by the plays so far, and the     *)
(* addresses of the groups in memory, which decide who is linked to whom.  *)
(* Both are parameters.  What is marked of points below the board, past    *)
(* the end of play_okay, falls in arrays of init_new_state that are set    *)
(* only later, as gcc -O2 lays them out; the models leave it out.          *)
(***************************************************************************)
EXTENDS Tactical

\* The estimate in progress: eyes, borrowed_eyes and next of each group; the points
\* viable and okay to play, and the points at the middle of a nakade.
NewEstimate(cb) ==
  [eyes     |-> [h \in DOMAIN cb.group |-> 0],
   borrowed |-> [h \in DOMAIN cb.group |-> 0],
   next     |-> [h \in DOMAIN cb.group |-> NONE],
   viable   |-> Point,
   okay     |-> Point,
   nakade   |-> [m \in Point |-> 0]]

dragon_head(e, h) ==
  LET head[g \in DOMAIN e.next] == IF e.next[g] = NONE THEN g ELSE head[e.next[g]]
  IN head[h]

\* The head at the lower address is linked to the other, which is given its eyes.
unite_dragons(e, h1, h2, address) ==
  LET heads == {dragon_head(e, h1), dragon_head(e, h2)}
      low   == CHOOSE h \in heads : \A k \in heads : address[h] <= address[k]
      high  == CHOOSE h \in heads : \A k \in heads : address[h] >= address[k]
  IN IF Cardinality(heads) = 1 THEN e
     ELSE [e EXCEPT !.next[low] = high, !.eyes[high] = @ + e.eyes[low]]

UniteAll(e, groups, address) ==
  FoldSteps(LAMBDA d, h : unite_dragons(d, Head(groups), h, address), e, groups)

AddEye(e, h) == [e EXCEPT !.eyes[dragon_head(e, h)] = @ + 1]

\* The group of the stone at n, if there is one.
If(test, cb, n) == IF test /\ cb.g[n] # NONE THEN <<cb.g[n]>> ELSE <<>>

-----------------------------------------------------------------------------
(***************************************************************************)
(* What is found at a free point, in the order of the tests.               *)
(***************************************************************************)
\* The eyes of one point: that of the player to play, is_black, is not viable.
OnEye(e, cb, c, m) ==
  LET g == IF border_left(m) THEN cb.g[m + RIGHT] ELSE cb.g[m + LEFT]
  IN [AddEye(e, g) EXCEPT !.viable = IF is_eye(cb, c, m) THEN @ \ {m} ELSE @]

On2ptEye(e, cb, c, m) ==
  LET kept == is_2pt_eye(cb, c, m) /\ ~Forcing2pt(cb, c, m)
  IN [AddEye(e, get_closest_group(cb, m)) EXCEPT
        !.okay = @ \ ({m + RIGHT, m + BOTTOM} \cup IF kept THEN {m} ELSE {})]

\* All but one of the points of a big four, and that one too when it is an own eye
\* that cannot be attacked.
On4ptEye(e, cb, c, m, address) ==
  LET gs == If(~border_left(m), cb, m + LEFT)
            \o If(~border_right(m + RIGHT), cb, m + RIGHT + RIGHT)
            \o If(~border_top(m), cb, m + TOP)
            \o If(~border_bottom(m + BOTTOM), cb, m + BOTTOM + BOTTOM)
      spare == IF m = 0 THEN m + RIGHT + BOTTOM ELSE m
      kept  == is_4pt_eye(cb, c, m) /\ ~Forcing4pt(cb, c, m)
  IN [AddEye(UniteAll(e, gs, address), Head(gs)) EXCEPT
        !.okay = @ \ IF kept THEN Square(m) ELSE Square(m) \ {spare}]

OnNakade(e, cb, m, address) ==
  LET gs == If(~border_left(m) /\ ~border_top(m), cb, m + LEFT + TOP)
            \o If(~border_left(m) /\ ~border_bottom(m), cb, m + LEFT + BOTTOM)
            \o If(~border_right(m) /\ ~border_top(m), cb, m + RIGHT + TOP)
            \o If(~border_right(m) /\ ~border_bottom(m), cb, m + RIGHT + BOTTOM)
      united == UniteAll(e, gs, address)
      seen   == IF gs # <<>> THEN AddEye(united, Head(gs)) ELSE united
  IN [seen EXCEPT
        !.okay = @ \ neighbors_3x3[m], !.nakade[m] = is_nakade(cb, m)]

\* A corner liberty, and the joint of two groups that share no other liberty.
OnShape(e, cb, m, address) ==
  LET corner == \E c \in Player : is_corner_liberty(cb, c, m)
      f == [e EXCEPT !.okay = IF corner THEN @ \ {m} ELSE @]
      Joined(g1, g2) ==
        IF groups_shared_liberties(cb.group[g1], cb.group[g2]) = 2
        THEN unite_dragons(f, g1, g2, address) ELSE f
  IN IF is_vertical_bamboo_joint(cb, m) THEN Joined(cb.g[m + TOP], cb.g[m + BOTTOM])
     ELSE IF is_horizontal_bamboo_joint(cb, m) THEN Joined(cb.g[m + LEFT], cb.g[m + RIGHT])
     ELSE f

OnPoint(e, cb, c, m, address) ==
  LET Either(shape(_, _, _)) == shape(cb, c, m) \/ shape(cb, Opponent(c), m) IN
  IF m \notin cb.empty \cap e.viable \cap e.okay THEN e
  ELSE IF Either(is_eye)     THEN OnEye(e, cb, c, m)
  ELSE IF Either(is_2pt_eye) THEN On2ptEye(e, cb, c, m)
  ELSE IF Either(is_4pt_eye) THEN On4ptEye(e, cb, c, m, address)
  ELSE IF is_nakade(cb, m) > 0 THEN OnNakade(e, cb, m, address)
  ELSE OnShape(e, cb, m, address)

-----------------------------------------------------------------------------
(***************************************************************************)
(* The passes after it.                                                    *)
(***************************************************************************)
\* Groups of a colour with three liberties or more that share as many.
StrongConnections(e, cb, address) ==
  LET count == Len(cb.unique_groups)
      At(i)  == cb.unique_groups[i]
      Strong(g1, g2) == /\ g1.liberties >= 3 /\ g2.liberties >= 3
                        /\ g1.colour = g2.colour
                        /\ groups_shared_liberties(g1, g2) > 2
      United(d, i, j) == IF i < j /\ Strong(cb.group[At(i)], cb.group[At(j)])
                         THEN unite_dragons(d, At(i), At(j), address) ELSE d
      Later(d, i) == FoldSteps(LAMBDA f, j : United(f, i, j), d, [n \in 1..count |-> n])
  IN FoldSteps(Later, e, [n \in 1..count |-> n])

FirstHasEye(e, heads) == e.eyes[heads[1]] > 0

AllHaveEyes(e, heads) == \A i \in DOMAIN heads : e.eyes[heads[i]] > 0

\* The first of the groups beside m, a head before they are united, is given the eye.
\* It may not be the head any more.
OnSheltered(e, cb, c, m, address) ==
  LET heads == [i \in DOMAIN Sides[m] |-> dragon_head(e, cb.g[Sides[m][i]])]
  IN IF m \notin cb.empty \cap e.viable \cap e.okay \/ ~sheltered_liberty(cb, m)
        \/ is_eye(cb, Opponent(c), m) \/ ~AllHaveEyes(e, heads)
     THEN e
     ELSE [UniteAll(e, heads, address) EXCEPT !.eyes[Head(heads)] = @ + 1, !.okay = @ \ {m}]

\* Each of two dragons borrows the eyes of the other, if more than it borrowed.
Borrow(e, g1, g2) ==
  LET h1 == dragon_head(e, g1)
      h2 == dragon_head(e, g2)
      more(n, k) == IF n > k THEN n ELSE k
  IN IF h1 = h2 THEN e
     ELSE [e EXCEPT !.borrowed[h1] = more(e.eyes[h2], @), !.borrowed[h2] = more(e.eyes[h1], @)]

OnKosumi(e, cb, m) ==
  LET f == IF is_kosumi1(cb, m) THEN Borrow(e, cb.g[m + RIGHT], cb.g[m + BOTTOM]) ELSE e
  IN IF m \notin cb.empty THEN e
     ELSE IF is_kosumi2(cb, m) THEN Borrow(f, cb.g[m + LEFT], cb.g[m + BOTTOM]) ELSE f

\* The eyes of each group are those of its dragon.
EyesOfDragons(e) ==
  [e EXCEPT !.eyes = [h \in DOMAIN @ |-> @[dragon_head(e, h)] + e.borrowed[dragon_head(e, h)]]]

\* For the player c to play; order has the points as the list of the free ones has them.
estimate_eyes(cb, c, order, address) ==
  LET shapes    == FoldSteps(LAMBDA e, m : OnPoint(e, cb, c, m, address), NewEstimate(cb), order)
      strong    == StrongConnections(shapes, cb, address)
      sheltered == FoldSteps(LAMBDA e, m : OnSheltered(e, cb, c, m, address), strong, order)
  IN EyesOfDragons(FoldSteps(LAMBDA e, m : OnKosumi(e, cb, m), sheltered, order))
=============================================================================
