--------------------------- MODULE CardTreeProofs ---------------------------
(***************************************************************************)
(* Proofs about CardTree and CardTreeRequests, for every set of cards,     *)
(* every depth limit and every set of requests.                            *)
(*                                                                         *)
(* CardTree: the invariant TreeInv ranks the cards by their stored depth.  *)
(* It is what makes the single check of checkCircularReference enough, and *)
(* what lets a handler read the depth of a card instead of walking to its  *)
(* root.                                                                   *)
(*                                                                         *)
(* CardTreeRequests: requests that overlap break the depths, so LoopInv    *)
(* asks only for some ranking of the cards, along the parents in the table *)
(* and those a request has still to write. SoloInv says, place by place,   *)
(* what a request that runs alone has left to do; it carries the           *)
(* refinement of CardTree.                                                 *)
(***************************************************************************)
EXTENDS CardTreeRequests, FiniteSetTheorems, SequenceTheorems, TLAPS

TreeInv ==
    /\ TypeOK
    /\ NoDanglingParent
    /\ DepthIsLevel
    /\ DepthWithinMax

-----------------------------------------------------------------------------
(* The walks as closed sets.                                               *)

(* A recursion over GetSubCards visits the card it starts from, and with   *)
(* a card every sub-card of it.                                            *)
LEMMA SubtreeClosed ==
    ASSUME TypeOK, NEW c \in Cards
    PROVE  /\ Subtree(c) \subseteq Cards
           /\ c \in Subtree(c)
           /\ \A x \in live : parent[x] \in Subtree(c) => x \in Subtree(c)
<1>1. Subtree(c) \subseteq Cards /\ c \in Subtree(c)
  BY DEF Subtree
<1>2. ASSUME NEW x \in live, parent[x] \in Subtree(c)
      PROVE  x \in Subtree(c)
  <2>1. x \in Cards
    BY DEF TypeOK
  <2>2. ASSUME NEW S \in SUBSET Cards, c \in S, ClosedDownward(S)
        PROVE  x \in S
    BY <1>2, <2>2 DEF Subtree, ClosedDownward
  <2>3. QED
    BY <2>1, <2>2 DEF Subtree
<1>3. QED
  BY <1>1, <1>2

(* It visits nothing but what some sub-card link led to.                   *)
LEMMA SubtreeLeast ==
    ASSUME TypeOK, NEW c \in Cards, NEW x \in Subtree(c), x # c
    PROVE  x \in live /\ parent[x] \in Subtree(c)
<1> DEFINE S == Subtree(c) \ {x}
<1>1. SUFFICES ASSUME ~(x \in live /\ parent[x] \in Subtree(c))
               PROVE  FALSE
  OBVIOUS
<1>2. S \in SUBSET Cards /\ c \in S
  BY SubtreeClosed
<1>3. ClosedDownward(S)
  BY <1>1, SubtreeClosed DEF ClosedDownward
<1>4. x \in S
  BY <1>2, <1>3 DEF Subtree
<1>5. QED
  BY <1>4

(* A set that contains c and is closed under sub-cards contains the tree   *)
(* below c.                                                                *)
LEMMA SubtreeWithin ==
    ASSUME NEW c \in Cards, NEW S \in SUBSET Cards, c \in S, ClosedDownward(S)
    PROVE  Subtree(c) \subseteq S
BY DEF Subtree

(* The walk up from p visits p, and with a live card its parent card.      *)
LEMMA AncestorsClosed ==
    ASSUME NEW p \in Cards
    PROVE  /\ AncestorsOf(p) \subseteq Cards
           /\ p \in AncestorsOf(p)
           /\ ClosedUpward(AncestorsOf(p))
<1>1. AncestorsOf(p) \subseteq Cards /\ p \in AncestorsOf(p)
  BY DEF AncestorsOf
<1>2. ASSUME NEW x \in AncestorsOf(p), x \in live, parent[x] \in Cards
      PROVE  parent[x] \in AncestorsOf(p)
  BY <1>2 DEF AncestorsOf, ClosedUpward
<1>3. QED
  BY <1>1, <1>2 DEF ClosedUpward

(* When the walk up from p does not meet c, the walk down from c does not  *)
(* meet p: the check of checkCircularReference is the right one.           *)
LEMMA NotAboveNotBelow ==
    ASSUME TypeOK, NEW c \in Cards, NEW p \in Cards, c \notin AncestorsOf(p)
    PROVE  p \notin Subtree(c)
<1> DEFINE S == Cards \ AncestorsOf(p)
<1>1. S \in SUBSET Cards /\ c \in S /\ p \notin S
  BY AncestorsClosed
<1>2. ClosedDownward(S)
  BY AncestorsClosed DEF ClosedDownward, ClosedUpward, TypeOK
<1>3. QED
  BY <1>1, <1>2, SubtreeWithin

(* Nothing below a card is stored at a smaller depth than the card.        *)
LEMMA DepthGrowsDownward ==
    ASSUME TreeInv, NEW c \in live, NEW x \in Subtree(c)
    PROVE  x \in live /\ depth[x] >= depth[c]
<1> DEFINE S == {y \in live : depth[y] >= depth[c]}
<1>1. c \in Cards /\ depth \in [Cards -> Int] /\ live \subseteq Cards
  BY DEF TreeInv, TypeOK
<1>2. S \in SUBSET Cards /\ c \in S
  BY <1>1
<1>3. ASSUME NEW y \in live, parent[y] \in S
      PROVE  y \in S
  <2>1. depth[y] = depth[parent[y]] + 1 /\ depth[parent[y]] >= depth[c]
    BY <1>3 DEF TreeInv, DepthIsLevel
  <2>2. depth[y] \in Int /\ depth[parent[y]] \in Int /\ depth[c] \in Int
    BY <1>1, <1>3
  <2>3. QED
    BY <2>1, <2>2
<1>4. ClosedDownward(S)
  BY <1>3 DEF ClosedDownward
<1>5. QED
  BY <1>1, <1>2, <1>4, SubtreeWithin

(* With stored depths that are levels, the levels getMaxSubCardDepth counts *)
(* below c are differences of stored depths.                               *)
LEMMA LevelsAreDepths ==
    ASSUME TreeInv, NEW c \in live, NEW newDepth \in Nat, FitsBelow(c, newDepth),
           NEW x \in Subtree(c)
    PROVE  newDepth + (depth[x] - depth[c]) <= MaxCardDepth
<1>1. /\ c \in Cards /\ live \subseteq Cards /\ TypeOK
      /\ depth \in [Cards -> Int] /\ MaxCardDepth \in Nat
  BY DepthAssumption DEF TreeInv, TypeOK
<1>2. PICK level \in [Subtree(c) -> 0 .. MaxCardDepth - newDepth] :
        /\ level[c] = 0
        /\ \A y \in live : parent[y] \in Subtree(c) => level[y] = level[parent[y]] + 1
  BY DEF FitsBelow
<1> DEFINE S == {y \in Subtree(c) : y \in live /\ depth[y] - depth[c] = level[y]}
<1>3. S \in SUBSET Cards /\ c \in S
  BY <1>1, <1>2, SubtreeClosed
<1>4. ASSUME NEW y \in live, parent[y] \in S
      PROVE  y \in S
  <2>1. y \in Subtree(c) /\ level[y] = level[parent[y]] + 1
    BY <1>1, <1>2, <1>4, SubtreeClosed
  <2>2. depth[y] = depth[parent[y]] + 1 /\ depth[parent[y]] - depth[c] = level[parent[y]]
    BY <1>4 DEF TreeInv, DepthIsLevel
  <2>3. depth[y] \in Int /\ depth[parent[y]] \in Int /\ depth[c] \in Int
    BY <1>1, <1>4
  <2>4. QED
    BY <2>1, <2>2, <2>3
<1>5. x \in S
  BY <1>1, <1>3, <1>4, SubtreeWithin DEF ClosedDownward
<1>6. depth[x] - depth[c] = level[x] /\ level[x] \in 0 .. MaxCardDepth - newDepth
  BY <1>2, <1>5
<1>7. QED
  BY <1>1, <1>5, <1>6

(* Shifting the tree below c by delta keeps every card on its level, when  *)
(* c itself lands on the level its new parent gives it.                    *)
LEMMA ShiftKeepsLevels ==
    ASSUME TreeInv, NEW c \in live, NEW q \in Cards \cup {Board},
           NEW delta \in Int,
           parent' = [parent EXCEPT ![c] = q],
           depth' = ShiftSubtree(c, delta),
           live' = live,
           q = Board => depth[c] + delta = 0,
           q \in Cards => /\ q \in live
                          /\ q \notin Subtree(c)
                          /\ depth[c] + delta = depth[q] + 1
    PROVE  NoDanglingParent' /\ DepthIsLevel'
<1>1. /\ c \in Cards /\ live \subseteq Cards
      /\ parent \in [Cards -> Cards \cup {Board}]
      /\ depth \in [Cards -> Int]
      /\ Board \notin Cards
      /\ TypeOK
  BY BoardAssumption DEF TreeInv, TypeOK
<1>2. \A x \in Cards : depth'[x] = IF x \in Subtree(c) THEN depth[x] + delta
                                                     ELSE depth[x]
  BY DEF ShiftSubtree
<1>3. parent'[c] = q /\ \A x \in Cards : x # c => parent'[x] = parent[x]
  BY <1>1
<1>4. NoDanglingParent'
  BY <1>1, <1>3 DEF TreeInv, NoDanglingParent
<1>5. ASSUME NEW x \in live
      PROVE  /\ parent'[x] = Board => depth'[x] = 0
             /\ parent'[x] \in live => depth'[x] = depth'[parent'[x]] + 1
  <2>1. CASE x = c
    <3>1. depth'[c] = depth[c] + delta
      BY <1>1, <1>2, SubtreeClosed
    <3>2. q \in Cards => depth'[q] = depth[q]
      BY <1>2
    <3>3. QED
      BY <2>1, <1>1, <1>3, <3>1, <3>2
  <2>2. CASE x # c
    <3>1. parent'[x] = parent[x] /\ x \in Cards
      BY <2>2, <1>1, <1>3
    <3>2. x \in Subtree(c) <=> parent[x] \in Subtree(c)
      BY <2>2, <1>1, SubtreeClosed, SubtreeLeast
    <3>3. CASE parent[x] = Board
      <4>1. x \notin Subtree(c)
        BY <3>2, <3>3, <1>1, SubtreeClosed
      <4>2. depth'[x] = depth[x] /\ depth[x] = 0
        BY <3>1, <3>3, <4>1, <1>2 DEF TreeInv, DepthIsLevel
      <4>3. QED
        BY <3>1, <3>3, <4>2, <1>1
    <3>4. CASE parent[x] \in live
      <4>1. depth[x] = depth[parent[x]] + 1
        BY <3>4 DEF TreeInv, DepthIsLevel
      <4>2. depth[x] \in Int /\ depth[parent[x]] \in Int /\ parent[x] \in Cards
        BY <3>1, <3>4, <1>1
      <4>3. depth'[x] = depth'[parent[x]] + 1
        BY <3>1, <3>2, <4>1, <4>2, <1>2
      <4>4. QED
        BY <3>1, <3>4, <4>2, <4>3, <1>1
    <3>5. QED
      BY <3>1, <3>3, <3>4
  <2>3. QED
    BY <2>1, <2>2
<1>6. QED
  BY <1>4, <1>5 DEF DepthIsLevel
-----------------------------------------------------------------------------
(* TreeInv, one lemma per handler.                                         *)

LEMMA InitTreeInv == Init => TreeInv
BY DEF Init, TreeInv, TypeOK, NoDanglingParent, DepthIsLevel, DepthWithinMax

LEMMA StepTypeOK ==
    ASSUME TypeOK, NextWithRestore \/ Next
    PROVE  TypeOK'
<1>1. ASSUME NEW x \in Cards, CreateCard(x)
      PROVE  TypeOK'
  BY <1>1 DEF CreateCard, TypeOK
<1>2. ASSUME NEW x \in Cards, NEW p \in Cards, CreateSubCard(x, p)
      PROVE  TypeOK'
  BY <1>2 DEF CreateSubCard, TypeOK
<1>3. ASSUME NEW c \in Cards, NEW p \in Cards, LinkCardAsSubCard(c, p)
      PROVE  TypeOK'
  BY <1>3 DEF LinkCardAsSubCard, ShiftSubtree, TypeOK
<1>4. ASSUME NEW c \in Cards, UnlinkSubCard(c)
      PROVE  TypeOK'
  BY <1>4 DEF UnlinkSubCard, ShiftSubtree, TypeOK
<1>5. ASSUME NEW c \in Cards, NEW S \in SUBSET Cards, DeleteBlock(c, S)
      PROVE  TypeOK'
  BY <1>5 DEF DeleteBlock, TypeOK
<1>6. ASSUME NEW c \in Cards, UndeleteBlock(c)
      PROVE  TypeOK'
  BY <1>6 DEF UndeleteBlock, TypeOK
<1>7. QED
  BY <1>1, <1>2, <1>3, <1>4, <1>5, <1>6 DEF NextWithRestore, Next

LEMMA CreateTreeInv ==
    ASSUME TreeInv, NEW x \in Cards,
           CreateCard(x) \/ \E p \in Cards : CreateSubCard(x, p)
    PROVE  NoDanglingParent' /\ DepthIsLevel' /\ DepthWithinMax'
<1>1. /\ x \notin live /\ live' = live \cup {x}
      /\ \A y \in live : parent'[y] = parent[y] /\ depth'[y] = depth[y]
      /\ \A y \in live : y \in Cards /\ parent[y] # x
  BY DEF CreateCard, CreateSubCard, TreeInv, TypeOK, NoDanglingParent
<1>2. \/ parent'[x] = Board /\ depth'[x] = 0
      \/ /\ parent'[x] \in live /\ depth'[x] = depth[parent'[x]] + 1
         /\ depth'[x] <= MaxCardDepth
  BY DEF CreateCard, CreateSubCard, TreeInv, TypeOK
<1>3. NoDanglingParent'
  BY <1>1, <1>2, BoardAssumption DEF TreeInv, NoDanglingParent
<1>4. DepthIsLevel'
  BY <1>1, <1>2, BoardAssumption DEF TreeInv, DepthIsLevel, NoDanglingParent, TypeOK
<1>5. DepthWithinMax'
  BY <1>1, <1>2, DepthAssumption DEF TreeInv, DepthWithinMax
<1>6. QED
  BY <1>3, <1>4, <1>5

LEMMA LinkTreeInv ==
    ASSUME TreeInv, NEW c \in Cards, NEW p \in Cards, LinkCardAsSubCard(c, p)
    PROVE  NoDanglingParent' /\ DepthIsLevel' /\ DepthWithinMax'
<1> DEFINE delta == (depth[p] + 1) - depth[c]
<1>1. /\ c \in live /\ p \in live /\ live' = live
      /\ parent' = [parent EXCEPT ![c] = p]
      /\ depth' = ShiftSubtree(c, delta)
      /\ depth[c] <= 0
      /\ FitsBelow(c, depth[p] + 1)
      /\ c \notin AncestorsOf(p)
  BY DEF LinkCardAsSubCard
<1>2. /\ depth[c] \in Int /\ depth[p] \in Int /\ delta \in Int
      /\ depth[c] = 0 /\ depth[p] >= 0
      /\ TypeOK /\ depth \in [Cards -> Int] /\ live \subseteq Cards
  BY <1>1, DepthAssumption DEF TreeInv, TypeOK, DepthWithinMax
<1>3. p \notin Subtree(c)
  BY <1>1, <1>2, NotAboveNotBelow
<1>4. NoDanglingParent' /\ DepthIsLevel'
  <2>1. depth[c] + delta = depth[p] + 1 /\ p # Board
    BY <1>2, BoardAssumption
  <2> HIDE DEF delta
  <2>2. QED
    BY <1>1, <1>2, <1>3, <2>1, ShiftKeepsLevels
<1>5. ASSUME NEW x \in live
      PROVE  depth'[x] \in 0 .. MaxCardDepth
  <2>1. depth[x] \in Int /\ depth[x] >= 0 /\ depth[x] <= MaxCardDepth
    BY DepthAssumption DEF TreeInv, DepthWithinMax
  <2>2. depth'[x] = IF x \in Subtree(c) THEN depth[x] + delta ELSE depth[x]
    BY <1>1, <1>2 DEF ShiftSubtree
  <2>3. x \in Subtree(c) => depth[x] + delta <= MaxCardDepth
    <3>1. x \in Subtree(c) => (depth[p] + 1) + (depth[x] - depth[c]) <= MaxCardDepth
      BY <1>1, <1>2, LevelsAreDepths
    <3>2. QED
      BY <1>2, <2>1, <3>1, DepthAssumption
  <2>4. QED
    BY <1>2, <2>1, <2>2, <2>3, DepthAssumption
<1>6. DepthWithinMax'
  BY <1>1, <1>5 DEF DepthWithinMax
<1>7. QED
  BY <1>4, <1>6

LEMMA UnlinkTreeInv ==
    ASSUME TreeInv, NEW c \in Cards, UnlinkSubCard(c)
    PROVE  NoDanglingParent' /\ DepthIsLevel' /\ DepthWithinMax'
<1>1. /\ c \in live /\ live' = live
      /\ parent' = [parent EXCEPT ![c] = Board]
      /\ depth' = ShiftSubtree(c, -depth[c])
  <2>1. c \in live /\ parent[c] \in live
    BY BoardAssumption DEF UnlinkSubCard, TreeInv, TypeOK, NoDanglingParent
  <2>2. depth[c] = depth[parent[c]] + 1 /\ depth[parent[c]] >= 0 /\ depth[parent[c]] \in Int
    BY <2>1, DepthAssumption DEF TreeInv, TypeOK, DepthIsLevel, DepthWithinMax
  <2>3. depth[c] > 0
    BY <2>2
  <2>4. QED
    BY <2>3 DEF UnlinkSubCard
<1>2. /\ depth[c] \in Int /\ -depth[c] \in Int /\ depth[c] + (-depth[c]) = 0
      /\ depth[c] >= 0
      /\ depth \in [Cards -> Int] /\ live \subseteq Cards
  BY <1>1, DepthAssumption DEF TreeInv, TypeOK, DepthWithinMax
<1>3. NoDanglingParent' /\ DepthIsLevel'
  BY <1>1, <1>2, ShiftKeepsLevels, BoardAssumption
<1>4. ASSUME NEW x \in live
      PROVE  depth'[x] \in 0 .. MaxCardDepth
  <2>1. depth[x] \in Int /\ depth[x] >= 0 /\ depth[x] <= MaxCardDepth
    BY DepthAssumption DEF TreeInv, DepthWithinMax
  <2>2. depth'[x] = IF x \in Subtree(c) THEN depth[x] + (-depth[c]) ELSE depth[x]
    BY <1>1, <1>2 DEF ShiftSubtree
  <2>3. x \in Subtree(c) => depth[x] >= depth[c]
    BY <1>1, DepthGrowsDownward
  <2>4. QED
    BY <1>2, <2>1, <2>2, <2>3, DepthAssumption
<1>5. DepthWithinMax'
  BY <1>1, <1>4 DEF DepthWithinMax
<1>6. QED
  BY <1>3, <1>5

LEMMA DeleteTreeInv ==
    ASSUME TreeInv, NEW c \in Cards, NEW S \in SUBSET Cards, DeleteBlock(c, S)
    PROVE  NoDanglingParent' /\ DepthIsLevel' /\ DepthWithinMax'
<1>1. /\ live' = live \ S /\ parent' = parent /\ depth' = depth
      /\ ClosedDownward(S)
  BY DEF DeleteBlock
<1>2. NoDanglingParent'
  BY <1>1 DEF TreeInv, NoDanglingParent, ClosedDownward
<1>3. DepthIsLevel' /\ DepthWithinMax'
  BY <1>1 DEF TreeInv, DepthIsLevel, DepthWithinMax
<1>4. QED
  BY <1>2, <1>3

-----------------------------------------------------------------------------
(* Requests that run one at a time, without restores, keep the tree: every *)
(* live card hangs under a live card or the board, its stored depth is its *)
(* level, and no level exceeds model.MaxCardDepth.                         *)
THEOREM TreeInvariant == Spec => []TreeInv
<1>1. Init => TreeInv
  BY InitTreeInv
<1>2. TreeInv /\ [Next]_vars => TreeInv'
  <2> SUFFICES ASSUME TreeInv, [Next]_vars
               PROVE  TreeInv'
    OBVIOUS
  <2>1. CASE Next
    <3>1. TypeOK'
      BY <2>1, StepTypeOK DEF TreeInv
    <3>2. NoDanglingParent' /\ DepthIsLevel' /\ DepthWithinMax'
      BY <2>1, CreateTreeInv, LinkTreeInv, UnlinkTreeInv, DeleteTreeInv DEF Next
    <3>3. QED
      BY <3>1, <3>2 DEF TreeInv
  <2>2. CASE UNCHANGED vars
    BY <2>2 DEF vars, TreeInv, TypeOK, NoDanglingParent, DepthIsLevel, DepthWithinMax
  <2>3. QED
    BY <2>1, <2>2
<1>3. QED
  BY <1>1, <1>2, PTL DEF Spec

THEOREM TypeCorrect == Spec => []TypeOK
<1>1. TreeInv => TypeOK
  BY DEF TreeInv
<1>2. QED
  BY <1>1, TreeInvariant, PTL

(* The cascade of deleteSubCards: a card never outlives its parent card.   *)
THEOREM NoDanglingParentHolds == Spec => []NoDanglingParent
<1>1. TreeInv => NoDanglingParent
  BY DEF TreeInv
<1>2. QED
  BY <1>1, TreeInvariant, PTL

(* The depth checks of LinkCardAsSubCard and CreateSubCard read a depth    *)
(* that is the level of the card, and keep it within model.MaxCardDepth.   *)
THEOREM DepthsHold == Spec => []DepthsRight
<1>1. TreeInv => DepthsRight
  BY DEF TreeInv, DepthsRight
<1>2. QED
  BY <1>1, TreeInvariant, PTL

(* checkCircularReference keeps the cards a forest: the set of live cards  *)
(* at a smaller depth than c is closed upward and holds the parent of c,   *)
(* so a walk up from c never comes back to c.                              *)
THEOREM NoCycleHolds == Spec => []NoCycle
<1>1. TreeInv => NoCycle
  <2> SUFFICES ASSUME TreeInv, NEW c \in live, OwnAncestor(c)
               PROVE  FALSE
    BY DEF NoCycle
  <2> DEFINE S == {q \in live : depth[q] < depth[c]}
  <2>1. /\ live \subseteq Cards /\ c \in Cards /\ depth \in [Cards -> Int]
        /\ parent[c] \in Cards /\ c \in AncestorsOf(parent[c])
    BY DEF TreeInv, TypeOK, OwnAncestor
  <2>2. \A x \in live : parent[x] \in Cards
            => parent[x] \in live /\ depth[x] = depth[parent[x]] + 1
    BY DEF TreeInv, NoDanglingParent, DepthIsLevel
  <2>3. \A x \in live : parent[x] \in Cards => depth[parent[x]] < depth[x]
    BY <2>1, <2>2
  <2>4. S \in SUBSET Cards /\ parent[c] \in S
    BY <2>1, <2>2, <2>3
  <2>5. ASSUME NEW x \in S, x \in live, parent[x] \in Cards
        PROVE  parent[x] \in S
    <3>1. parent[x] \in live /\ depth[parent[x]] < depth[x] /\ depth[x] < depth[c]
      BY <2>2, <2>3, <2>5
    <3>2. depth[x] \in Int /\ depth[parent[x]] \in Int /\ depth[c] \in Int
      BY <2>1, <2>5
    <3>3. QED
      BY <3>1, <3>2
  <2>6. ClosedUpward(S)
    BY <2>5 DEF ClosedUpward
  <2>7. c \in S
    BY <2>1, <2>4, <2>6 DEF AncestorsOf
  <2>8. QED
    BY <2>1, <2>7
<1>2. QED
  BY <1>1, TreeInvariant, PTL

(* Whatever restores came before, no step removes the card another card    *)
(* hangs under and leaves that card where it is.                           *)
THEOREM NeverOrphansHolds == SpecWithRestore => NeverOrphans
<1> DEFINE Kept == \A c \in live :
                     parent[c] \in live /\ c \in live' /\ parent'[c] = parent[c]
                         => parent[c] \in live'
<1>1. Init => TypeOK
  BY InitTreeInv DEF TreeInv
<1>2. TypeOK /\ [NextWithRestore]_vars => TypeOK'
  BY StepTypeOK DEF vars, TypeOK
<1>3. TypeOK /\ [NextWithRestore]_vars => [Kept]_vars
  <2> SUFFICES ASSUME TypeOK, NextWithRestore
               PROVE  Kept
    OBVIOUS
  <2>1. ASSUME NEW c \in Cards, NEW S \in SUBSET Cards, DeleteBlock(c, S)
        PROVE  Kept
    BY <2>1 DEF DeleteBlock, ClosedDownward
  <2>2. \/ live \subseteq live'
        \/ \E c \in Cards : \E S \in SUBSET Cards : DeleteBlock(c, S)
    BY DEF NextWithRestore, Next, CreateCard, CreateSubCard, LinkCardAsSubCard,
           UnlinkSubCard, UndeleteBlock
  <2>3. QED
    BY <2>1, <2>2
<1>4. QED
  BY <1>1, <1>2, <1>3, PTL DEF SpecWithRestore, NeverOrphans
-----------------------------------------------------------------------------
(* CardTreeRequests, whatever overlaps: what a request has in hand is on   *)
(* the board, and only a request that may link or unlink writes a row.     *)

MoveTask(t) == t.do \in {"patch", "expand"}

\* The calls of a delete.
Deletes == {t \in Task : ~MoveTask(t)}

\* A request that patches no row.
Apart(q) == q.at \in {"idle", "insert", "walk"} /\ q.todo \in Seq(Deletes)

Links(r) == Allowed[r] \cap {"link", "unlink"} # {}

\* At most one request may link and unlink.
OneLinker == \A r, s \in Requests : Links(r) /\ Links(s) => r = s

\* The calls that are about the cards created so far.
CallsFor(created) == {t \in Task : t.card \in created}

InHand(q, created) ==
    /\ q.card \in created \cup {Nothing}
    /\ q.parent \in created \cup {Board, Nothing}
    /\ q.stored \in created \cup {Board, Nothing}
    /\ q.todo \in Seq(CallsFor(created))
    /\ q.at \in {"insert", "check"} => q.parent \in created
    /\ q.at \in {"check", "patch", "write", "reread"} => q.card \in created
    /\ q.at = "write" => q.stored # Nothing
    /\ q.at \in {"reread", "walk"} => q.parent = Nothing

HandInv ==
    /\ IsFiniteSet(known)
    /\ \A c \in known : parent[c] \in known \cup {Board}
    /\ \A r \in Requests : InHand(req[r], known)
    /\ \A r \in Requests : Links(r) \/ Apart(req[r])

\* Requests that have not overlapped do not overlap now.
AloneInv ==
    alone => \A r, s \in Requests : req[r].at # "idle" /\ req[s].at # "idle" => r = s

\* The parent a patch under way is going to write.
WillHang(q, x, y) ==
    /\ x = q.card
    /\ \/ q.at = "patch" /\ y = q.parent
       \/ q.at = "write" /\ y = PatchedParent(q)

Hangs(x, y) ==
    \/ x \in live /\ y = parent[x]
    \/ \E r \in Requests : WillHang(req[r], x, y)

\* The cards can be ranked so that each hangs, or will hang, under a lower one.
Ranked(rank) ==
    /\ rank \in [Cards -> Nat]
    /\ \A x, y \in Cards : Hangs(x, y) => rank[y] < rank[x]

LoopInv ==
    /\ ReqTypeOK
    /\ HandInv
    /\ AloneInv
    /\ alone \/ OneLinker => \E rank : Ranked(rank)

-----------------------------------------------------------------------------
(* A request that runs alone, at each of its places.                       *)

LinkInHand(q) ==
    /\ q.card # q.parent /\ q.card \in live /\ q.parent \in live
    /\ depth[q.card] <= 0
    /\ q.depth = depth[q.parent] + 1
    /\ q.delta = q.depth - depth[q.card]

LinkChecked(q) ==
    /\ LinkInHand(q)
    /\ FitsBelow(q.card, q.depth)
    /\ q.card \notin AncestorsOf(q.parent)
    /\ q.todo = IF SubCards(q.card) # {} THEN <<ExpandCall(q.card)>> ELSE <<>>

UnlinkInHand(q) ==
    /\ q.parent = Board /\ q.card \in live /\ parent[q.card] # Board
    /\ q.depth = 0
    /\ q.delta = -depth[q.card]
    /\ q.todo = IF depth[q.card] > 0 THEN <<ExpandCall(q.card)>> ELSE <<>>

\* The calls left of updateSubCardsDepth: no call is for a card below another's.
ShiftsLeft(q) ==
    /\ \A i \in DOMAIN q.todo : MoveTask(q.todo[i]) /\ q.todo[i].card \in live
    /\ \A i \in DOMAIN q.todo : q.todo[i].do = "patch" =>
         q.todo[i].depth = depth[q.todo[i].card] + q.delta
    /\ \A i, j \in DOMAIN q.todo : i # j => q.todo[i].card \notin Subtree(q.todo[j].card)

\* The calls left of deleteSubCards: what hangs under a card goes before it.
DeletesLeft(q) ==
    /\ \A i \in DOMAIN q.todo : ~MoveTask(q.todo[i])
    /\ \A i \in DOMAIN q.todo : q.todo[i].do = "remove" =>
         \A x \in SubCards(q.todo[i].card) :
            \E j \in DOMAIN q.todo : j < i /\ q.todo[j].card = x

SubPatch(q) ==
    /\ q.card \in live
    /\ q.depth = depth[q.card] + q.delta
    /\ q.todo # <<>> /\ q.todo[1] = ExpandCall(q.card)
    /\ q.at = "write" => q.stored = parent[q.card]
    /\ ShiftsLeft(q)

AtItsPlace(q) ==
    /\ q.at \in {"idle", "insert", "check"} => q.todo = <<>>
    /\ q.at = "insert" => /\ q.parent \in live
                          /\ q.depth = depth[q.parent] + 1
                          /\ q.depth <= MaxCardDepth
    /\ q.at = "check" => LinkInHand(q)
    /\ q.at \in {"patch", "write"} =>
         IF q.parent = Nothing THEN SubPatch(q)
         ELSE IF q.parent = Board THEN UnlinkInHand(q) ELSE LinkChecked(q)
    /\ q.at = "reread" => q.card \in live /\ ShiftsLeft(q)
    /\ q.at = "walk" => ShiftsLeft(q) \/ DeletesLeft(q)

SoloInv == alone => \A r \in Requests : \E q : q = req[r] /\ AtItsPlace(q)
-----------------------------------------------------------------------------
(* Sequences of calls.                                                     *)

(* What is left when the first call is replaced by those of a.             *)
LEMMA Replaced ==
    ASSUME NEW T, NEW s \in Seq(T), s # <<>>, NEW a \in Seq(T)
    PROVE  /\ a \o Tail(s) \in Seq(T)
           /\ Head(s) = s[1] /\ 1 \in DOMAIN s /\ Head(s) \in T
           /\ DOMAIN a = 1 .. Len(a) /\ DOMAIN s = 1 .. Len(s)
           /\ \A i \in DOMAIN a : i \in DOMAIN (a \o Tail(s)) /\ (a \o Tail(s))[i] = a[i]
           /\ \A j \in DOMAIN s : j # 1 =>
                /\ j + Len(a) - 1 \in DOMAIN (a \o Tail(s))
                /\ (a \o Tail(s))[j + Len(a) - 1] = s[j]
           /\ \A i \in DOMAIN (a \o Tail(s)) :
                \/ i \in DOMAIN a
                \/ /\ i > Len(a)
                   /\ \E j \in DOMAIN s : j # 1 /\ i = j + Len(a) - 1
<1> DEFINE w == a \o Tail(s)
<1>1. /\ Len(s) \in Nat /\ Len(s) > 0 /\ Len(a) \in Nat
      /\ DOMAIN s = 1 .. Len(s) /\ DOMAIN a = 1 .. Len(a)
  BY EmptySeq, LenProperties
<1>2. /\ Head(s) = s[1] /\ Tail(s) \in Seq(T) /\ Len(Tail(s)) = Len(s) - 1
      /\ \A i \in 1 .. Len(s) - 1 : Tail(s)[i] = s[i + 1]
  BY <1>1, HeadTailProperties
<1>3. Head(s) \in T
  BY HeadTailProperties
<1>4. /\ w \in Seq(T) /\ Len(w) = Len(a) + (Len(s) - 1) /\ DOMAIN w = 1 .. Len(w)
      /\ \A i \in 1 .. Len(w) : w[i] = IF i <= Len(a) THEN a[i] ELSE Tail(s)[i - Len(a)]
  BY <1>1, <1>2, ConcatProperties, LenProperties
<1> HIDE DEF w
<1>5. \A i \in DOMAIN a : i \in DOMAIN w /\ w[i] = a[i]
  BY <1>1, <1>4
<1>6. ASSUME NEW j \in DOMAIN s, j # 1
      PROVE  j + Len(a) - 1 \in DOMAIN w /\ w[j + Len(a) - 1] = s[j]
  <2> DEFINE i == j + Len(a) - 1
  <2>1. j \in Int /\ 2 <= j /\ j <= Len(s)
    BY <1>1, <1>6
  <2>2. i \in Int /\ Len(a) < i /\ i <= Len(a) + (Len(s) - 1) /\ 1 <= i /\ i - Len(a) = j - 1
    BY <1>1, <2>1
  <2> HIDE DEF i
  <2>3. i \in 1 .. Len(w) /\ ~(i <= Len(a))
    BY <1>1, <1>4, <2>2
  <2>4. w[i] = Tail(s)[j - 1]
    BY <1>4, <2>2, <2>3
  <2>5. j - 1 \in 1 .. Len(s) - 1 /\ (j - 1) + 1 = j
    BY <1>1, <2>1
  <2>6. Tail(s)[j - 1] = s[j]
    BY <1>2, <2>5
  <2>7. QED
    BY <1>4, <2>3, <2>4, <2>6 DEF i
<1>7. ASSUME NEW i \in DOMAIN w, i \notin DOMAIN a
      PROVE  i > Len(a) /\ \E j \in DOMAIN s : j # 1 /\ i = j + Len(a) - 1
  <2>1. i > Len(a) /\ i <= Len(a) + (Len(s) - 1) /\ i \in Int
    BY <1>1, <1>4, <1>7
  <2>2. i - Len(a) + 1 \in DOMAIN s /\ i - Len(a) + 1 # 1 /\ i = (i - Len(a) + 1) + Len(a) - 1
    BY <1>1, <2>1
  <2>3. QED
    BY <2>1, <2>2
<1>8. QED
  BY <1>1, <1>2, <1>3, <1>4, <1>5, <1>6, <1>7 DEF w

(* A listing of the rows under a card has each of them, and each once.     *)
LEMMA ListingFacts ==
    ASSUME IsFiniteSet(live), NEW c, NEW l \in Listings(c)
    PROVE  /\ l \in Seq(SubCards(c)) /\ DOMAIN l = 1 .. Len(l)
           /\ \A i, j \in DOMAIN l : i # j => l[i] # l[j]
           /\ \A x \in SubCards(c) : \E i \in DOMAIN l : l[i] = x
<1> DEFINE S == SubCards(c)
           n == Cardinality(S)
<1>1. IsFiniteSet(S) /\ n \in Nat
  <2>1. S \subseteq live
    BY DEF SubCards
  <2> HIDE DEF S
  <2>2. QED
    BY <2>1, FS_Subset, FS_CardinalityType
<1>2. l \in [1 .. n -> S] /\ \A i, j \in 1 .. n : i # j => l[i] # l[j]
  BY DEF Listings, SetToSeqs
<1> HIDE DEF S
<1>3. l \in Seq(S)
  BY <1>1, <1>2, SeqDef
<1>4. DOMAIN l = 1 .. Len(l)
  BY <1>3, LenProperties
<1>5. l \in Surjection(1 .. n, S)
  <2>1. l \in Injection(1 .. n, S)
    BY <1>2 DEF Injection, IsInjective
  <2>2. Cardinality(1 .. n) = n
    BY <1>1, FS_Interval
  <2>3. QED
    BY <1>1, <2>1, <2>2, FS_Injection DEF n
<1>6. \A x \in S : \E i \in DOMAIN l : l[i] = x
  BY <1>2, <1>5 DEF Surjection
<1>7. QED
  BY <1>2, <1>3, <1>4, <1>6 DEF S

-----------------------------------------------------------------------------
(* What one step of one request does, as far as LoopInv can tell.          *)

LEMMA TaskTypes ==
    ASSUME NEW c \in Cards, NEW d \in Int
    PROVE  /\ PatchCall(c, d) \in Task /\ ExpandCall(c) \in Task
           /\ DeleteCall(c) \in Deletes /\ RemoveCall(c) \in Deletes
           /\ PatchCall(c, d).card = c /\ ExpandCall(c).card = c
           /\ DeleteCall(c).card = c /\ RemoveCall(c).card = c
           /\ PatchCall(c, d).do = "patch" /\ ExpandCall(c).do = "expand"
           /\ DeleteCall(c).do = "delete" /\ RemoveCall(c).do = "remove"
           /\ PatchCall(c, d).depth = d
BY DEF PatchCall, ExpandCall, DeleteCall, RemoveCall, Task, Deletes, MoveTask

\* Without the ghost: the table, and the request that moved.
OneStep(r) == Step(r) \/ Fail(r)

\* Request r goes to state s, whose cards have been created.
GoesTo(r, s) ==
    /\ req' = [req EXCEPT ![r] = s]
    /\ s \in ReqState
    /\ InHand(s, known')
    /\ (Links(r) \/ Apart(s))

LEMMA IdleFacts ==
    /\ Idle \in ReqState /\ Apart(Idle) /\ \A k : InHand(Idle, k)
    /\ Idle.at = "idle" /\ Idle.todo = <<>>
    /\ Idle.card = Nothing /\ Idle.parent = Nothing /\ Idle.stored = Nothing
    /\ Idle.delta = 0 /\ Idle.depth = 0
BY EmptySeq DEF Idle, ReqState, InHand, Apart

(* The first call is replaced by others about cards that exist.            *)
LEMMA PushKeeps ==
    ASSUME NEW S, NEW s \in Seq(S), s # <<>>, NEW a \in Seq(S)
    PROVE  a \o Tail(s) \in Seq(S) /\ Head(s) \in S
BY HeadTailProperties, ConcatProperties

LEMMA RequestFacts ==
    ASSUME ReqTypeOK, HandInv, NEW r \in Requests
    PROVE  /\ req[r] \in ReqState /\ InHand(req[r], known) /\ (Links(r) \/ Apart(req[r]))
           /\ known \subseteq Cards /\ live \subseteq known /\ IsFiniteSet(live)
           /\ parent \in [Cards -> Cards \cup {Board}] /\ depth \in [Cards -> Int]
           /\ req \in [Requests -> ReqState]
BY FS_Subset DEF ReqTypeOK, HandInv, TypeOK

(* Replacing the first of the calls of a request on its walk.              *)
LEMMA WalkGoes ==
    ASSUME NEW q \in ReqState, NEW k, InHand(q, k), q.at = "walk", q.todo # <<>>,
           NEW a \in Seq(CallsFor(k))
    PROVE  LET s == [q EXCEPT !.todo = a \o Tail(q.todo)] IN
           /\ s \in ReqState /\ InHand(s, k) /\ s.at = "walk" /\ s.todo = a \o Tail(q.todo)
           /\ Head(q.todo) \in Task /\ Head(q.todo).card \in k
           /\ Apart(q) => Head(q.todo) \in Deletes
           /\ Apart(q) /\ a \in Seq(Deletes) => Apart(s)
<1> DEFINE w == a \o Tail(q.todo)
           s == [q EXCEPT !.todo = w]
<1>1. q.todo \in Seq(CallsFor(k))
  BY DEF InHand
<1>2. w \in Seq(CallsFor(k)) /\ Head(q.todo) \in CallsFor(k)
  BY <1>1, PushKeeps
<1>3. Head(q.todo) \in Task /\ Head(q.todo).card \in k
  BY <1>2 DEF CallsFor
<1>4. w \in Seq(Task)
  BY <1>2, SeqMonotonic DEF CallsFor
<1>5. Apart(q) => Head(q.todo) \in Deletes
  BY PushKeeps, EmptySeq DEF Apart
<1>6. Apart(q) /\ a \in Seq(Deletes) => w \in Seq(Deletes)
  BY PushKeeps DEF Apart
<1> HIDE DEF w
<1>7. /\ s \in ReqState /\ s.at = "walk" /\ s.card = q.card /\ s.parent = q.parent
      /\ s.stored = q.stored /\ s.todo = w
  BY <1>4 DEF ReqState
<1> HIDE DEF s
<1>8. InHand(s, k)
  BY <1>2, <1>7 DEF InHand
<1>9. Apart(q) /\ a \in Seq(Deletes) => Apart(s)
  BY <1>6, <1>7 DEF Apart
<1>10. QED
  BY <1>3, <1>5, <1>7, <1>8, <1>9 DEF s, w

(* The calls ListToPatch and ListToDelete make are about live cards.       *)
LEMMA ListedCalls ==
    ASSUME ReqTypeOK, HandInv, NEW c, NEW l \in Listings(c), NEW delta \in Int
    PROVE  /\ [i \in DOMAIN l |-> PatchCall(l[i], depth[l[i]] + delta)] \in Seq(CallsFor(live))
           /\ [i \in DOMAIN l |-> DeleteCall(l[i])] \in Seq(CallsFor(live) \cap Deletes)
<1> DEFINE p == [i \in DOMAIN l |-> PatchCall(l[i], depth[l[i]] + delta)]
           d == [i \in DOMAIN l |-> DeleteCall(l[i])]
<1>1. live \subseteq Cards /\ IsFiniteSet(live) /\ depth \in [Cards -> Int]
  BY FS_Subset DEF ReqTypeOK, TypeOK, HandInv
<1>2. l \in Seq(SubCards(c)) /\ DOMAIN l = 1 .. Len(l) /\ Len(l) \in Nat
  BY <1>1, ListingFacts, LenProperties
<1>3. ASSUME NEW i \in 1 .. Len(l)
      PROVE  /\ PatchCall(l[i], depth[l[i]] + delta) \in CallsFor(live)
             /\ DeleteCall(l[i]) \in CallsFor(live) \cap Deletes
  <2>1. l[i] \in live
    BY <1>2, ElementOfSeq DEF SubCards
  <2>2. l[i] \in Cards /\ depth[l[i]] + delta \in Int
    BY <1>1, <2>1
  <2>3. QED
    BY <2>1, <2>2, TaskTypes DEF CallsFor, Deletes
<1>4. p \in [1 .. Len(l) -> CallsFor(live)] /\ d \in [1 .. Len(l) -> CallsFor(live) \cap Deletes]
  BY <1>2, <1>3
<1> HIDE DEF p, d
<1>5. p \in Seq(CallsFor(live)) /\ d \in Seq(CallsFor(live) \cap Deletes)
  BY <1>2, <1>4, SeqDef
<1>6. QED
  BY <1>5 DEF p, d

LEMMA ListToPatchGoes ==
    ASSUME ReqTypeOK, HandInv, NEW r \in Requests, ListToPatch(r)
    PROVE  \E s : GoesTo(r, s) /\ UNCHANGED vars /\ s.at = "walk"
<1>1. PICK q \in ReqState : q = req[r]
  BY RequestFacts
<1>2. PICK c : c = Head(q.todo).card
  OBVIOUS
<1>3. q.at = "walk" /\ q.todo # <<>> /\ Head(q.todo).do = "expand" /\ UNCHANGED vars
  BY <1>1 DEF ListToPatch, Next1
<1>4. PICK l \in Listings(Head(req[r].todo).card) : req' = [req EXCEPT ![r] = [req[r] EXCEPT
          !.todo = [i \in DOMAIN l |-> PatchCall(l[i], depth[l[i]] + req[r].delta)]
                     \o Tail(req[r].todo)]]
  BY DEF ListToPatch, Goto
<1>5. PICK a : a = [i \in DOMAIN l |-> PatchCall(l[i], depth[l[i]] + req[r].delta)]
  OBVIOUS
<1>6. PICK s : s = [q EXCEPT !.todo = a \o Tail(q.todo)]
  OBVIOUS
<1>7. a \in Seq(CallsFor(known))
  <2>1. a \in Seq(CallsFor(live))
    <3>1. req[r].delta \in Int
      BY <1>1 DEF ReqState
    <3>2. QED
      BY <1>5, <3>1, ListedCalls
  <2>2. CallsFor(live) \subseteq CallsFor(known)
    BY RequestFacts DEF CallsFor
  <2>3. QED
    BY <2>1, <2>2, SeqMonotonic
<1>8. InHand(q, known) /\ known' = known /\ (Links(r) \/ Apart(q))
  BY <1>1, <1>3, RequestFacts DEF vars
<1>9. s \in ReqState /\ InHand(s, known) /\ s.at = "walk" /\ (Apart(q) => Head(q.todo) \in Deletes)
  BY <1>3, <1>6, <1>7, <1>8, WalkGoes
<1>10. Links(r)
  BY <1>3, <1>8, <1>9 DEF Deletes, MoveTask
<1>11. req' = [req EXCEPT ![r] = s]
  <2>1. req' = [req EXCEPT ![r] = [req[r] EXCEPT !.todo = a \o Tail(req[r].todo)]]
    BY <1>4, <1>5
  <2>2. QED
    BY <1>1, <1>6, <2>1
<1>12. QED
  BY <1>3, <1>8, <1>9, <1>10, <1>11 DEF GoesTo

LEMMA ListToDeleteGoes ==
    ASSUME ReqTypeOK, HandInv, NEW r \in Requests, ListToDelete(r)
    PROVE  \E s : GoesTo(r, s) /\ UNCHANGED vars /\ s.at \in {"walk", "idle"}
<1>1. PICK q \in ReqState : q = req[r]
  BY RequestFacts
<1>2. PICK c : c = Head(q.todo).card
  OBVIOUS
<1>3. q.at = "walk" /\ q.todo # <<>> /\ Head(q.todo).do = "delete" /\ UNCHANGED vars
  BY <1>1 DEF ListToDelete, Next1
<1>4. InHand(q, known) /\ known' = known /\ (Links(r) \/ Apart(q))
  BY <1>1, <1>3, RequestFacts DEF vars
<1>5. CASE c \notin live
  <2>1. req' = [req EXCEPT ![r] = Idle]
    BY <1>1, <1>2, <1>5 DEF ListToDelete, Done, Goto
  <2>2. QED
    BY <1>3, <2>1, IdleFacts DEF GoesTo
<1>6. CASE c \in live
  <2>1. PICK l \in Listings(Head(req[r].todo).card) : req' = [req EXCEPT ![r] = [req[r] EXCEPT
          !.todo = [i \in DOMAIN l |-> DeleteCall(l[i])]
                     \o <<RemoveCall(Head(req[r].todo).card)>> \o Tail(req[r].todo)]]
    <3>1. Head(req[r].todo).card \in live
      BY <1>1, <1>2, <1>6
    <3>2. QED
      BY <3>1 DEF ListToDelete, Goto
  <2>2. PICK b : b = [i \in DOMAIN l |-> DeleteCall(l[i])]
    OBVIOUS
  <2>3. PICK a : a = b \o <<RemoveCall(c)>>
    OBVIOUS
  <2>4. PICK s : s = [q EXCEPT !.todo = a \o Tail(q.todo)]
    OBVIOUS
  <2>5. a \in Seq(CallsFor(known)) /\ a \in Seq(Deletes)
    <3>1. live \subseteq known /\ known \subseteq Cards
      BY RequestFacts
    <3>2. b \in Seq(CallsFor(live) \cap Deletes)
      <4>1. 0 \in Int
        OBVIOUS
      <4>2. QED
        BY <2>2, <4>1, ListedCalls
    <3>3. RemoveCall(c) \in CallsFor(known) \cap Deletes
      <4>1. c \in Cards /\ c \in known /\ 0 \in Int
        BY <1>6, <3>1
      <4>2. QED
        BY <4>1, TaskTypes DEF CallsFor, Deletes
    <3>4. b \in Seq(CallsFor(known) \cap Deletes)
      BY <3>1, <3>2, SeqMonotonic DEF CallsFor
    <3>5. <<RemoveCall(c)>> \in Seq(CallsFor(known) \cap Deletes)
      BY <3>3
    <3>6. a \in Seq(CallsFor(known) \cap Deletes)
      BY <2>3, <3>4, <3>5, ConcatProperties
    <3>7. QED
      BY <3>6, SeqMonotonic
  <2>6. s \in ReqState /\ InHand(s, known) /\ s.at = "walk" /\ (Apart(q) => Apart(s))
    BY <1>3, <1>4, <2>4, <2>5, WalkGoes
  <2>7. req' = [req EXCEPT ![r] = s]
    <3>1. req' = [req EXCEPT ![r] = [req[r] EXCEPT
              !.todo = b \o <<RemoveCall(Head(req[r].todo).card)>> \o Tail(req[r].todo)]]
      BY <2>1, <2>2
    <3>2. req' = [req EXCEPT ![r] = [req[r] EXCEPT !.todo = a \o Tail(req[r].todo)]]
      BY <1>1, <1>2, <2>3, <3>1
    <3>3. QED
      BY <1>1, <2>4, <3>2
  <2>8. QED
    BY <1>3, <1>4, <2>6, <2>7 DEF GoesTo
<1>7. QED
  BY <1>5, <1>6

LEMMA PatchSubCardGoes ==
    ASSUME ReqTypeOK, HandInv, NEW r \in Requests, PatchSubCard(r)
    PROVE  \E s : /\ GoesTo(r, s) /\ UNCHANGED vars
                  /\ s.at = "patch" /\ s.parent = Nothing
<1>1. PICK q \in ReqState : q = req[r]
  BY RequestFacts
<1>2. PICK c : c = Head(q.todo).card
  OBVIOUS
<1>3. q.at = "walk" /\ q.todo # <<>> /\ Head(q.todo).do = "patch" /\ UNCHANGED vars
  BY <1>1 DEF PatchSubCard, Next1
<1>4. InHand(q, known) /\ known' = known /\ (Links(r) \/ Apart(q)) /\ known \subseteq Cards
  BY <1>1, <1>3, RequestFacts DEF vars
<1>5. PICK a : a = <<ExpandCall(c)>>
  OBVIOUS
<1>6. PICK w : w = [q EXCEPT !.todo = a \o Tail(q.todo)]
  OBVIOUS
<1>7. PICK s : s = [w EXCEPT !.at = "patch", !.card = c, !.depth = Head(q.todo).depth]
  OBVIOUS
<1>8. Head(q.todo) \in Task /\ c \in known /\ (Apart(q) => Head(q.todo) \in Deletes)
  <2>1. <<>> \in Seq(CallsFor(known))
    BY EmptySeq
  <2>2. QED
    BY <1>2, <1>3, <1>4, <2>1, WalkGoes
<1>9. a \in Seq(CallsFor(known))
  <2>1. c \in Cards /\ 0 \in Int
    BY <1>4, <1>8, RequestFacts
  <2>2. ExpandCall(c) \in CallsFor(known)
    BY <1>8, <2>1, TaskTypes DEF CallsFor
  <2>3. QED
    BY <1>5, <2>2
<1>10. w \in ReqState /\ InHand(w, known) /\ w.at = "walk"
  BY <1>3, <1>4, <1>6, <1>9, WalkGoes
<1>11. Links(r)
  BY <1>3, <1>4, <1>8 DEF Deletes, MoveTask
<1>12. Head(q.todo).depth \in Int /\ c \in Cards
  BY <1>2, <1>8 DEF Task
<1>13. /\ s \in ReqState /\ s.at = "patch" /\ s.card = c /\ s.parent = w.parent
       /\ s.stored = w.stored /\ s.todo = w.todo
  BY <1>7, <1>10, <1>12 DEF ReqState
<1>14. w.parent = Nothing
  BY <1>10 DEF InHand
<1>15. InHand(s, known)
  BY <1>8, <1>10, <1>13 DEF InHand
<1>16. req' = [req EXCEPT ![r] = s]
  BY <1>1, <1>2, <1>5, <1>6, <1>7 DEF PatchSubCard, Goto, ReqState
<1>17. QED
  BY <1>3, <1>4, <1>11, <1>13, <1>14, <1>15, <1>16 DEF GoesTo

\* A step that leaves the table alone and makes no card hang under another.
Quiet(r, s) ==
    /\ UNCHANGED vars
    /\ \A x, y \in Cards : WillHang(s, x, y) => Hangs(x, y)

Inserts(r, s) ==
    /\ s.at \notin {"patch", "write"}
    /\ \E x \in Cards \ known, p \in known \cup {Board} :
         /\ known' = known \cup {x} /\ live' = live \cup {x}
         /\ parent' = [parent EXCEPT ![x] = p]
         /\ depth' \in [Cards -> Int]

Accepts(r, s) ==
    /\ UNCHANGED vars
    /\ s.at = "patch"
    /\ req[r].at = "check"
    /\ req[r].card \notin AncestorsOf(req[r].parent)
    /\ \A x, y \in Cards : WillHang(s, x, y) => x = req[r].card /\ y = req[r].parent

Writes(r, s) ==
    /\ req[r].at = "write"
    /\ s.at = "reread" /\ UNCHANGED known
    /\ req[r].card \in known
    /\ live' \subseteq live \cup {req[r].card}
    /\ parent' = [parent EXCEPT ![req[r].card] = PatchedParent(req[r])]
    /\ PatchedParent(req[r]) \in known \cup {Board}
    /\ depth' \in [Cards -> Int]

Removes(r, s) ==
    s.at = "walk" /\ live' \subseteq live /\ UNCHANGED <<known, parent, depth>>

Effect(r, s) == Quiet(r, s) \/ Inserts(r, s) \/ Accepts(r, s) \/ Writes(r, s) \/ Removes(r, s)

LEMMA Unmoved ==
    ASSUME NEW r, NEW s, UNCHANGED vars, s.at \notin {"patch", "write"}
    PROVE  Quiet(r, s)
BY DEF Quiet, WillHang

LEMMA ConstantFacts ==
    /\ Board \notin Cards /\ Nothing \notin Cards /\ Nothing # Board
    /\ MaxCardDepth \in Int
    /\ Allowed \in [Requests -> SUBSET {"create", "subcard", "link", "unlink", "delete"}]
BY BoardAssumption, DepthAssumption, RequestsAssumption

(* The steps that start a request, and the inserts.                        *)
LEMMA CreatesGo ==
    ASSUME ReqTypeOK, HandInv, NEW r \in Requests,
           CreateCardRequest(r) \/ InsertSubCard(r)
    PROVE  \E s : GoesTo(r, s) /\ Inserts(r, s)
<1>1. PICK q \in ReqState : q = req[r]
  BY RequestFacts
<1>2. InHand(q, known) /\ (Links(r) \/ Apart(q)) /\ known \subseteq Cards
  BY <1>1, RequestFacts
<1>3. CASE CreateCardRequest(r)
  <2>1. PICK x \in Cards : Insert(x, Board, 0)
    BY <1>3 DEF CreateCardRequest
  <2>2. q.at = "idle" /\ req' = req
    BY <1>1, <1>3 DEF CreateCardRequest, Starts
  <2>3. req' = [req EXCEPT ![r] = q]
    BY <1>1, <2>2 DEF ReqTypeOK
  <2>4. /\ x \notin known /\ known' = known \cup {x} /\ live' = live \cup {x}
        /\ parent' = [parent EXCEPT ![x] = Board] /\ depth' \in [Cards -> Int]
    BY <2>1, RequestFacts DEF Insert
  <2>5. Inserts(r, q)
    BY <2>2, <2>4 DEF Inserts
  <2>6. InHand(q, known')
    <3>1. CallsFor(known) \subseteq CallsFor(known')
      BY <2>4 DEF CallsFor
    <3>2. q.todo \in Seq(CallsFor(known'))
      BY <1>2, <3>1, SeqMonotonic DEF InHand
    <3>3. QED
      BY <1>2, <2>4, <3>2 DEF InHand
  <2>7. QED
    BY <1>2, <2>3, <2>5, <2>6 DEF GoesTo
<1>4. CASE InsertSubCard(r)
  <2>1. PICK x \in Cards : Insert(x, q.parent, q.depth)
    BY <1>1, <1>4 DEF InsertSubCard
  <2>2. q.at = "insert" /\ req' = [req EXCEPT ![r] = Idle]
    BY <1>1, <1>4 DEF InsertSubCard, Done, Goto
  <2>3. q.parent \in known /\ q.depth \in Int
    BY <1>2, <2>2 DEF InHand, ReqState
  <2>4. /\ x \notin known /\ known' = known \cup {x} /\ live' = live \cup {x}
        /\ parent' = [parent EXCEPT ![x] = q.parent] /\ depth' \in [Cards -> Int]
    BY <2>1, <2>3, RequestFacts DEF Insert
  <2>5. Inserts(r, Idle)
    BY <2>3, <2>4, IdleFacts DEF Inserts
  <2>6. QED
    BY <2>2, <2>5, IdleFacts DEF GoesTo
<1>5. QED
  BY <1>3, <1>4

LEMMA StartGoes ==
    ASSUME ReqTypeOK, HandInv, NEW r \in Requests, NEW c \in Cards, NEW p \in Cards,
           \/ CreateSubCardRequest(r, p)
           \/ LinkRequest(r, c, p)
           \/ UnlinkRequest(r, c)
           \/ DeleteRequest(r, c)
    PROVE  \E s : GoesTo(r, s) /\ Quiet(r, s)
<1>a. /\ known \subseteq Cards /\ live \subseteq known /\ known' = known
      /\ depth \in [Cards -> Int] /\ UNCHANGED vars
  BY RequestFacts DEF CreateSubCardRequest, LinkRequest, UnlinkRequest, DeleteRequest, vars
<1>b. <<>> \in Seq(CallsFor(known)) /\ <<>> \in Seq(Task) /\ <<>> \in Seq(Deletes)
  BY EmptySeq
<1>1. CASE CreateSubCardRequest(r, p)
  <2>1. PICK s : s = [Idle EXCEPT !.at = "insert", !.parent = p, !.depth = depth[p] + 1]
    OBVIOUS
  <2>2. p \in live /\ req' = [req EXCEPT ![r] = s]
    BY <1>1, <2>1 DEF CreateSubCardRequest, Goto
  <2>3. s \in ReqState
    <3>1. s = [at |-> "insert", card |-> Nothing, parent |-> p, stored |-> Nothing,
             depth |-> depth[p] + 1, delta |-> 0, todo |-> <<>>]
      BY <2>1 DEF Idle
    <3>2. QED
      BY <1>a, <1>b, <3>1, RequestFacts DEF ReqState
  <2>4. s.at = "insert" /\ s.parent = p /\ s.card = Nothing /\ s.stored = Nothing /\ s.todo = <<>>
    BY <2>1 DEF Idle
  <2>5. InHand(s, known') /\ Apart(s)
    BY <1>a, <1>b, <2>2, <2>4 DEF InHand, Apart
  <2>6. QED
    BY <1>a, <2>2, <2>3, <2>4, <2>5, Unmoved DEF GoesTo
<1>2. CASE LinkRequest(r, c, p)
  <2>1. PICK s : s = [Idle EXCEPT !.at = "check", !.card = c, !.parent = p, !.depth = depth[p] + 1,
                                  !.delta = depth[p] + 1 - depth[c]]
    OBVIOUS
  <2>2. {c, p} \subseteq live /\ req' = [req EXCEPT ![r] = s] /\ Links(r)
    BY <1>2, <2>1 DEF LinkRequest, Goto, Starts, Links
  <2>3. s \in ReqState
    <3>1. s = [at |-> "check", card |-> c, parent |-> p, stored |-> Nothing,
             depth |-> depth[p] + 1, delta |-> depth[p] + 1 - depth[c], todo |-> <<>>]
      BY <2>1 DEF Idle
    <3>2. QED
      BY <1>a, <1>b, <3>1, RequestFacts DEF ReqState
  <2>4. s.at = "check" /\ s.card = c /\ s.parent = p /\ s.stored = Nothing /\ s.todo = <<>>
    BY <2>1 DEF Idle
  <2>5. InHand(s, known')
    BY <1>a, <1>b, <2>2, <2>4 DEF InHand
  <2>6. QED
    BY <1>a, <2>2, <2>3, <2>4, <2>5, Unmoved DEF GoesTo
<1>3. CASE UnlinkRequest(r, c)
  <2>1. PICK a : a = IF depth[c] > 0 THEN <<ExpandCall(c)>> ELSE <<>>
    OBVIOUS
  <2>2. PICK s : s = [Idle EXCEPT !.at = "patch", !.card = c, !.parent = Board,
                                  !.delta = -depth[c], !.todo = a]
    OBVIOUS
  <2>3. c \in live /\ req' = [req EXCEPT ![r] = s] /\ Links(r)
    BY <1>3, <2>1, <2>2 DEF UnlinkRequest, Goto, Starts, Links
  <2>4. a \in Seq(CallsFor(known)) /\ a \in Seq(Task)
    <3>1. 0 \in Int /\ c \in known
      BY <1>a, <2>3
    <3>2. ExpandCall(c) \in CallsFor(known) /\ ExpandCall(c) \in Task
      BY <3>1, TaskTypes DEF CallsFor
    <3>3. QED
      BY <1>b, <2>1, <3>2
  <2>5. s \in ReqState
    <3>1. s = [at |-> "patch", card |-> c, parent |-> Board, stored |-> Nothing,
             depth |-> 0, delta |-> -depth[c], todo |-> a]
      BY <2>2 DEF Idle
    <3>2. QED
      BY <1>a, <2>4, <3>1, RequestFacts DEF ReqState
  <2>6. s.at = "patch" /\ s.card = c /\ s.parent = Board /\ s.stored = Nothing /\ s.todo = a
    BY <2>2 DEF Idle
  <2>7. InHand(s, known')
    BY <1>a, <2>3, <2>4, <2>6 DEF InHand
  <2>8. Quiet(r, s)
    BY <1>a, <2>6, ConstantFacts DEF Quiet, WillHang
  <2>9. QED
    BY <2>3, <2>5, <2>7, <2>8 DEF GoesTo
<1>4. CASE DeleteRequest(r, c)
  <2>1. PICK a : a = <<DeleteCall(c)>>
    OBVIOUS
  <2>2. PICK s : s = [Idle EXCEPT !.at = "walk", !.todo = a]
    OBVIOUS
  <2>3. c \in live /\ req' = [req EXCEPT ![r] = s]
    BY <1>4, <2>1, <2>2 DEF DeleteRequest, Goto
  <2>4. a \in Seq(CallsFor(known)) /\ a \in Seq(Task) /\ a \in Seq(Deletes)
    <3>1. 0 \in Int /\ c \in known
      BY <1>a, <2>3
    <3>2. DeleteCall(c) \in CallsFor(known) /\ DeleteCall(c) \in Task /\ DeleteCall(c) \in Deletes
      BY <3>1, TaskTypes DEF CallsFor, Deletes
    <3>3. QED
      BY <2>1, <3>2
  <2>5. s \in ReqState
    <3>1. s = [at |-> "walk", card |-> Nothing, parent |-> Nothing, stored |-> Nothing,
             depth |-> 0, delta |-> 0, todo |-> a]
      BY <2>2 DEF Idle
    <3>2. QED
      BY <1>a, <2>4, <3>1, RequestFacts DEF ReqState
  <2>6. s.at = "walk" /\ s.card = Nothing /\ s.parent = Nothing /\ s.stored = Nothing /\ s.todo = a
    BY <2>2 DEF Idle
  <2>7. InHand(s, known') /\ Apart(s)
    BY <1>a, <2>4, <2>6 DEF InHand, Apart
  <2>8. QED
    BY <1>a, <2>3, <2>5, <2>6, <2>7, Unmoved DEF GoesTo
<1>5. QED
  BY <1>1, <1>2, <1>3, <1>4

(* A step that ends a request.                                             *)
LEMMA EndGoes ==
    ASSUME NEW r, req' = [req EXCEPT ![r] = Idle], UNCHANGED vars
    PROVE  \E s : GoesTo(r, s) /\ Quiet(r, s)
BY IdleFacts, Unmoved DEF GoesTo

LEMMA PatchGoes ==
    ASSUME ReqTypeOK, HandInv, NEW r \in Requests,
           LinkChecks(r) \/ ReadRow(r) \/ WriteRow(r) \/ ReadBack(r)
    PROVE  \E s : GoesTo(r, s) /\ Effect(r, s)
<1>1. PICK q \in ReqState : q = req[r]
  BY RequestFacts
<1>2. InHand(q, known) /\ (Links(r) \/ Apart(q)) /\ known \subseteq Cards /\ live \subseteq known
  BY <1>1, RequestFacts
<1>3. CASE LinkChecks(r)
  <2>1. PICK a : a = IF SubCards(q.card) # {} THEN <<ExpandCall(q.card)>> ELSE <<>>
    OBVIOUS
  <2>2. PICK s : s = [q EXCEPT !.at = "patch", !.todo = a]
    OBVIOUS
  <2>3. q.at = "check" /\ UNCHANGED vars /\ known' = known
    BY <1>1, <1>3 DEF LinkChecks, vars
  <2>4. q.card \in known /\ q.parent \in known /\ Links(r)
    BY <1>2, <2>3 DEF InHand, Apart
  <2>5. \/ req' = [req EXCEPT ![r] = Idle]
        \/ req' = [req EXCEPT ![r] = s] /\ q.card \notin AncestorsOf(q.parent)
    BY <1>1, <1>3, <2>1, <2>2 DEF LinkChecks, Goto
  <2>6. a \in Seq(CallsFor(known)) /\ a \in Seq(Task)
    <3>1. 0 \in Int /\ q.card \in Cards
      BY <1>2, <2>4
    <3>2. ExpandCall(q.card) \in CallsFor(known) /\ ExpandCall(q.card) \in Task
      BY <2>4, <3>1, TaskTypes DEF CallsFor
    <3>3. <<>> \in Seq(CallsFor(known)) /\ <<>> \in Seq(Task)
      BY EmptySeq
    <3>4. QED
      BY <2>1, <3>2, <3>3
  <2>7. /\ s \in ReqState /\ s.at = "patch" /\ s.card = q.card /\ s.parent = q.parent
        /\ s.stored = q.stored /\ s.todo = a
    BY <2>2, <2>6 DEF ReqState
  <2>8. InHand(s, known')
    BY <1>2, <2>3, <2>4, <2>6, <2>7 DEF InHand
  <2>9. ASSUME req' = [req EXCEPT ![r] = s], q.card \notin AncestorsOf(q.parent)
        PROVE  GoesTo(r, s) /\ Accepts(r, s)
    <3>1. GoesTo(r, s)
      BY <2>4, <2>7, <2>8, <2>9 DEF GoesTo
    <3>2. Accepts(r, s)
      BY <1>1, <2>3, <2>7, <2>9 DEF Accepts, WillHang
    <3>3. QED
      BY <3>1, <3>2
  <2>10. QED
    BY <2>3, <2>5, <2>9, EndGoes DEF Effect
<1>4. CASE ReadRow(r)
  <2>1. PICK s : s = [q EXCEPT !.at = "write", !.stored = parent[q.card]]
    OBVIOUS
  <2>2. q.at = "patch" /\ UNCHANGED vars /\ known' = known
    BY <1>1, <1>4 DEF ReadRow, vars
  <2>3. q.card \in known /\ Links(r)
    BY <1>2, <2>2 DEF InHand, Apart
  <2>4. \/ req' = [req EXCEPT ![r] = Idle]
        \/ req' = [req EXCEPT ![r] = s] /\ q.card \in live
    BY <1>1, <1>4, <2>1 DEF ReadRow, Goto
  <2>5. parent[q.card] \in known \cup {Board} /\ parent[q.card] \in Cards \cup {Board}
    BY <1>2, <2>3 DEF HandInv
  <2>6. /\ s \in ReqState /\ s.at = "write" /\ s.card = q.card /\ s.parent = q.parent
        /\ s.stored = parent[q.card] /\ s.todo = q.todo
    BY <2>1, <2>5 DEF ReqState
  <2>7. InHand(s, known')
    BY <1>2, <2>2, <2>3, <2>5, <2>6, ConstantFacts DEF InHand
  <2>8. ASSUME req' = [req EXCEPT ![r] = s], q.card \in live
        PROVE  GoesTo(r, s) /\ Quiet(r, s)
    <3>1. ASSUME NEW x \in Cards, NEW y \in Cards, WillHang(s, x, y)
          PROVE  Hangs(x, y)
      <4>1. x = q.card /\ y = PatchedParent(s)
        BY <2>6, <3>1 DEF WillHang
      <4>2. CASE q.parent = Nothing
        BY <2>6, <2>8, <4>1, <4>2 DEF PatchedParent, Hangs
      <4>3. CASE q.parent # Nothing
        <5>1. y = q.parent
          BY <2>6, <4>1, <4>3 DEF PatchedParent
        <5>2. WillHang(q, x, y)
          BY <2>2, <4>1, <5>1 DEF WillHang
        <5>3. QED
          BY <1>1, <5>2 DEF Hangs
      <4>4. QED
        BY <4>2, <4>3
    <3>2. QED
      BY <2>2, <2>3, <2>6, <2>7, <2>8, <3>1 DEF GoesTo, Quiet
  <2>9. QED
    BY <2>2, <2>4, <2>8, EndGoes DEF Effect
<1>5. CASE WriteRow(r)
  <2>1. PICK s : s = [q EXCEPT !.at = "reread", !.parent = Nothing, !.stored = Nothing, !.depth = 0]
    OBVIOUS
  <2>2. /\ q.at = "write" /\ UNCHANGED known
        /\ live' \subseteq live \cup {q.card}
        /\ parent' = [parent EXCEPT ![q.card] = PatchedParent(q)]
        /\ depth' = [depth EXCEPT ![q.card] = q.depth]
        /\ req' = [req EXCEPT ![r] = s]
    BY <1>1, <1>5, <2>1 DEF WriteRow, Goto
  <2>3. q.card \in known /\ Links(r)
    BY <1>2, <2>2 DEF InHand, Apart
  <2>4. /\ s \in ReqState /\ s.at = "reread" /\ s.card = q.card /\ s.parent = Nothing
        /\ s.stored = Nothing /\ s.todo = q.todo
    <3>1. PICK w : w = [q EXCEPT !.at = "reread", !.parent = Nothing]
      OBVIOUS
    <3>2. /\ w \in ReqState /\ w.at = "reread" /\ w.card = q.card /\ w.parent = Nothing
          /\ w.todo = q.todo
      BY <3>1 DEF ReqState
    <3>3. s = [w EXCEPT !.stored = Nothing, !.depth = 0]
      BY <2>1, <3>1
    <3>4. PICK v : v = [w EXCEPT !.stored = Nothing]
      OBVIOUS
    <3>5. /\ v \in ReqState /\ v.at = "reread" /\ v.card = q.card /\ v.parent = Nothing
          /\ v.stored = Nothing /\ v.todo = q.todo
      BY <3>2, <3>4 DEF ReqState
    <3>6. s = [v EXCEPT !.depth = 0] /\ 0 \in Int
      BY <3>3, <3>4
    <3>7. QED
      BY <3>5, <3>6 DEF ReqState
  <2>5. InHand(s, known')
    BY <1>2, <2>2, <2>3, <2>4 DEF InHand
  <2>6. depth' \in [Cards -> Int]
    BY <2>2, RequestFacts DEF ReqState
  <2>7. PatchedParent(q) \in known \cup {Board}
    BY <1>2, <2>2 DEF InHand, PatchedParent
  <2>8. Writes(r, s)
    BY <1>1, <2>2, <2>3, <2>4, <2>6, <2>7 DEF Writes
  <2>9. QED
    BY <2>2, <2>3, <2>4, <2>5, <2>8 DEF GoesTo, Effect
<1>6. CASE ReadBack(r)
  <2>1. PICK s : s = [q EXCEPT !.at = "walk", !.card = Nothing]
    OBVIOUS
  <2>2. q.at = "reread" /\ UNCHANGED vars /\ known' = known
    BY <1>1, <1>6 DEF ReadBack, vars
  <2>3. Links(r)
    BY <1>2, <2>2 DEF Apart
  <2>4. req' = [req EXCEPT ![r] = s] \/ req' = [req EXCEPT ![r] = Idle]
    BY <1>1, <1>6, <2>1 DEF ReadBack, Goto
  <2>5. /\ s \in ReqState /\ s.at = "walk" /\ s.card = Nothing /\ s.parent = q.parent
        /\ s.stored = q.stored /\ s.todo = q.todo
    BY <2>1 DEF ReqState
  <2>6. InHand(s, known')
    BY <1>2, <2>2, <2>5 DEF InHand
  <2>7. ASSUME req' = [req EXCEPT ![r] = s]
        PROVE  GoesTo(r, s) /\ Quiet(r, s)
    BY <2>2, <2>3, <2>5, <2>6, <2>7, Unmoved DEF GoesTo
  <2>8. QED
    BY <2>2, <2>4, <2>7, EndGoes DEF Effect
<1>7. QED
  BY <1>3, <1>4, <1>5, <1>6

LEMMA RemoveGoes ==
    ASSUME ReqTypeOK, HandInv, NEW r \in Requests, RemoveRow(r)
    PROVE  \E s : GoesTo(r, s) /\ Removes(r, s)
<1>1. PICK q \in ReqState : q = req[r]
  BY RequestFacts
<1>2. InHand(q, known) /\ (Links(r) \/ Apart(q))
  BY <1>1, RequestFacts
<1>3. PICK s : s = [q EXCEPT !.todo = <<>> \o Tail(q.todo)]
  OBVIOUS
<1>4. q.at = "walk" /\ q.todo # <<>> /\ UNCHANGED <<known, parent, depth>> /\ live' \subseteq live
  BY <1>1 DEF RemoveRow, Next1
<1>5. /\ <<>> \in Seq(CallsFor(known)) /\ <<>> \in Seq(Deletes)
      /\ <<>> \o Tail(q.todo) = Tail(q.todo)
  <2>1. Tail(q.todo) \in Seq(Task)
    BY <1>4, HeadTailProperties DEF ReqState
  <2>2. QED
    BY <2>1, EmptySeq, ConcatEmptySeq
<1>6. /\ s \in ReqState /\ InHand(s, known) /\ s.at = "walk" /\ (Apart(q) => Apart(s))
  BY <1>2, <1>3, <1>4, <1>5, WalkGoes
<1>7. req' = [req EXCEPT ![r] = s]
  <2>1. req' = [req EXCEPT ![r] = [req[r] EXCEPT !.todo = Tail(req[r].todo)]]
    BY DEF RemoveRow, Goto
  <2>2. QED
    BY <1>1, <1>3, <1>5, <2>1
<1>8. QED
  BY <1>2, <1>4, <1>6, <1>7 DEF GoesTo, Removes

LEMMA StepGoes ==
    ASSUME ReqTypeOK, HandInv, NEW r \in Requests, OneStep(r)
    PROVE  \E s : GoesTo(r, s) /\ Effect(r, s)
<1>1. CASE CreateCardRequest(r) \/ InsertSubCard(r)
  BY <1>1, CreatesGo DEF Effect
<1>2. ASSUME NEW c \in Cards, NEW p \in Cards,
             \/ CreateSubCardRequest(r, p)
             \/ LinkRequest(r, c, p)
             \/ UnlinkRequest(r, c)
             \/ DeleteRequest(r, c)
      PROVE  \E s : GoesTo(r, s) /\ Effect(r, s)
  BY <1>2, StartGoes DEF Effect
<1>3. CASE LinkChecks(r) \/ ReadRow(r) \/ WriteRow(r) \/ ReadBack(r)
  BY <1>3, PatchGoes
<1>4. CASE ListToPatch(r)
  <2>1. PICK s : GoesTo(r, s) /\ UNCHANGED vars /\ s.at = "walk"
    BY <1>4, ListToPatchGoes
  <2>2. QED
    BY <2>1, Unmoved DEF Effect
<1>5. CASE PatchSubCard(r)
  <2>1. PICK s : GoesTo(r, s) /\ UNCHANGED vars /\ s.at = "patch" /\ s.parent = Nothing
    BY <1>5, PatchSubCardGoes
  <2>2. Quiet(r, s)
    BY <2>1, ConstantFacts DEF Quiet, WillHang
  <2>3. QED
    BY <2>1, <2>2 DEF Effect
<1>6. CASE ListToDelete(r)
  <2>1. PICK s : GoesTo(r, s) /\ UNCHANGED vars /\ s.at \in {"walk", "idle"}
    BY <1>6, ListToDeleteGoes
  <2>2. QED
    BY <2>1, Unmoved DEF Effect
<1>7. CASE RemoveRow(r)
  BY <1>7, RemoveGoes DEF Effect
<1>8. CASE Return(r) \/ Fail(r)
  <2>1. req' = [req EXCEPT ![r] = Idle] /\ UNCHANGED vars
    BY <1>8 DEF Return, Fail, Done, Goto
  <2>2. QED
    BY <2>1, EndGoes DEF Effect
<1>9. QED
  BY <1>1, <1>2, <1>3, <1>4, <1>5, <1>6, <1>7, <1>8 DEF OneStep, Step

-----------------------------------------------------------------------------
(* No cycle, as long as one request at most links.  The cards that hang,   *)
(* or are going to, under each other are ranked.  A link that was accepted *)
(* lifts everything below the card; an insert puts the new card on top.    *)

LEMMA HandGrows ==
    ASSUME NEW q, NEW k, NEW k2, k \subseteq k2, InHand(q, k)
    PROVE  InHand(q, k2)
<1>1. CallsFor(k) \subseteq CallsFor(k2)
  BY DEF CallsFor
<1>2. q.todo \in Seq(CallsFor(k2))
  BY <1>1, SeqMonotonic DEF InHand
<1>3. QED
  BY <1>2 DEF InHand

LEMMA EffectOnTable ==
    ASSUME ReqTypeOK, HandInv, NEW r \in Requests, NEW s, Effect(r, s)
    PROVE  /\ TypeOK' /\ known \subseteq known' /\ IsFiniteSet(known')
           /\ \A c \in known' : parent'[c] \in known' \cup {Board}
<1>1. /\ known \subseteq Cards /\ live \subseteq known /\ IsFiniteSet(known)
      /\ parent \in [Cards -> Cards \cup {Board}] /\ depth \in [Cards -> Int]
      /\ \A c \in known : parent[c] \in known \cup {Board}
  BY DEF ReqTypeOK, HandInv, TypeOK
<1>2. CASE Quiet(r, s) \/ Accepts(r, s)
  BY <1>1, <1>2 DEF Quiet, Accepts, vars, TypeOK
<1>3. CASE Inserts(r, s)
  <2>1. PICK x \in Cards \ known, p \in known \cup {Board} :
         /\ known' = known \cup {x} /\ live' = live \cup {x}
         /\ parent' = [parent EXCEPT ![x] = p]
         /\ depth' \in [Cards -> Int]
    BY <1>3 DEF Inserts
  <2>2. IsFiniteSet(known')
    BY <1>1, <2>1, FS_AddElement
  <2>3. QED
    BY <1>1, <2>1, <2>2 DEF TypeOK
<1>4. CASE Writes(r, s)
  <2>1. PICK c \in known, p \in known \cup {Board} :
         /\ known' = known /\ live' \subseteq live \cup {c}
         /\ parent' = [parent EXCEPT ![c] = p]
         /\ depth' \in [Cards -> Int]
    BY <1>4 DEF Writes
  <2>2. QED
    BY <1>1, <2>1 DEF TypeOK
<1>5. CASE Removes(r, s)
  BY <1>1, <1>5 DEF Removes, TypeOK
<1>6. QED
  BY <1>2, <1>3, <1>4, <1>5 DEF Effect

LEMMA HandKept ==
    ASSUME ReqTypeOK, HandInv, NEW r \in Requests, NEW s, GoesTo(r, s), Effect(r, s)
    PROVE  /\ TypeOK' /\ req' \in [Requests -> ReqState] /\ HandInv'
           /\ req'[r] = s /\ \A o \in Requests \ {r} : req'[o] = req[o]
<1>1. /\ TypeOK' /\ known \subseteq known' /\ IsFiniteSet(known')
      /\ \A c \in known' : parent'[c] \in known' \cup {Board}
  BY EffectOnTable
<1>2. /\ req' \in [Requests -> ReqState]
      /\ req'[r] = s /\ \A o \in Requests \ {r} : req'[o] = req[o]
  BY DEF GoesTo, ReqTypeOK
<1>3. \A o \in Requests : InHand(req'[o], known') /\ (Links(o) \/ Apart(req'[o]))
  <2>1. TAKE o \in Requests
  <2>2. CASE o = r
    BY <1>2, <2>2 DEF GoesTo
  <2>3. CASE o # r
    <3>1. InHand(req[o], known) /\ (Links(o) \/ Apart(req[o]))
      BY RequestFacts
    <3>2. QED
      BY <1>1, <1>2, <2>3, <3>1, HandGrows
  <2>4. QED
    BY <2>2, <2>3
<1>4. HandInv'
  BY <1>1, <1>3 DEF HandInv
<1>5. QED
  BY <1>1, <1>2, <1>4

(* Going up from x one comes by all that is above the card x hangs under.  *)
LEMMA AncestorsGoUp ==
    ASSUME NEW x \in Cards, x \in live, parent[x] \in Cards
    PROVE  AncestorsOf(parent[x]) \subseteq AncestorsOf(x)
<1>1. ASSUME NEW a \in AncestorsOf(parent[x]), NEW S \in SUBSET Cards, x \in S, ClosedUpward(S)
      PROVE  a \in S
  <2>1. parent[x] \in S
    BY <1>1 DEF ClosedUpward
  <2>2. QED
    BY <1>1, <2>1 DEF AncestorsOf
<1>2. QED
  BY <1>1 DEF AncestorsOf

LEMMA RankedNoCycle ==
    ASSUME NEW rank, Ranked(rank), TypeOK
    PROVE  NoCycle
<1>1. SUFFICES ASSUME NEW c \in live, parent[c] \in Cards, c \in AncestorsOf(parent[c])
               PROVE  FALSE
  BY DEF NoCycle, OwnAncestor
<1> DEFINE S == {z \in Cards : rank[z] <= rank[parent[c]]}
<1>2. rank \in [Cards -> Nat] /\ live \subseteq Cards
  BY DEF Ranked, TypeOK
<1>3. \A x \in live : parent[x] \in Cards => rank[parent[x]] < rank[x]
  BY <1>2 DEF Ranked, Hangs
<1>4. ClosedUpward(S)
  <2>1. ASSUME NEW x \in S, x \in live, parent[x] \in Cards
        PROVE  parent[x] \in S
    <3>1. rank[parent[x]] \in Nat /\ rank[x] \in Nat /\ rank[parent[c]] \in Nat
      BY <1>1, <1>2, <2>1
    <3>2. rank[parent[x]] < rank[x] /\ rank[x] <= rank[parent[c]]
      BY <1>3, <2>1
    <3>3. QED
      BY <2>1, <3>1, <3>2
  <2>2. QED
    BY <2>1 DEF ClosedUpward
<1>5. parent[c] \in S /\ S \in SUBSET Cards
  BY <1>1, <1>2
<1>6. c \in S
  BY <1>1, <1>4, <1>5 DEF AncestorsOf
<1>7. rank[parent[c]] < rank[c] /\ rank[parent[c]] \in Nat /\ rank[c] \in Nat
  BY <1>1, <1>2, <1>3
<1>8. QED
  BY <1>6, <1>7

(* The link that LinkChecks accepts.                                       *)
LEMMA AcceptedIsRanked ==
    ASSUME ReqTypeOK, HandInv, NEW r \in Requests, NEW s, GoesTo(r, s), Accepts(r, s),
           \A o \in Requests \ {r} : req[o].at \notin {"patch", "write"},
           NEW rank, Ranked(rank)
    PROVE  \E rank2 : Ranked(rank2)'
<1>1. PICK c, p : c = req[r].card /\ p = req[r].parent
  OBVIOUS
<1>2. c \in Cards /\ p \in Cards /\ c \notin AncestorsOf(p) /\ known \subseteq Cards
  <2>1. InHand(req[r], known) /\ known \subseteq Cards /\ req[r].at = "check"
    BY RequestFacts DEF Accepts
  <2>2. QED
    BY <1>1, <2>1 DEF InHand, Accepts
<1>3. rank \in [Cards -> Nat] /\ \A x, y \in Cards : Hangs(x, y) => rank[y] < rank[x]
  BY DEF Ranked
<1> DEFINE up(x) == c \in AncestorsOf(x)
<1>4. PICK R : R = [x \in Cards |-> IF up(x) THEN rank[x] + rank[p] + 1 ELSE rank[x]]
  OBVIOUS
<1>5. up(c) /\ ~up(p)
  BY <1>2 DEF AncestorsOf
<1>6. ASSUME NEW x \in Cards, x \in live, parent[x] \in Cards
      PROVE  up(parent[x]) => up(x)
  BY <1>6, AncestorsGoUp
<1> HIDE DEF up
<1>7. /\ \A x \in Cards : up(x) => R[x] = rank[x] + rank[p] + 1
      /\ \A x \in Cards : ~up(x) => R[x] = rank[x]
      /\ R \in [Cards -> Nat]
  BY <1>2, <1>3, <1>4
<1>8. UNCHANGED vars
  BY DEF Accepts
<1>9. ASSUME NEW x \in Cards, NEW y \in Cards, Hangs(x, y)'
      PROVE  R[y] < R[x]
  <2>1. \/ x \in live' /\ y = parent'[x]
        \/ \E o \in Requests : WillHang(req'[o], x, y)
    BY <1>9 DEF Hangs, WillHang, PatchedParent
  <2>2. CASE x \in live' /\ y = parent'[x]
    <3>1. x \in live /\ y = parent[x]
      BY <1>8, <2>2 DEF vars
    <3>2. rank[y] < rank[x] /\ (up(y) => up(x))
      BY <1>3, <1>6, <3>1 DEF Hangs
    <3>3. rank[x] \in Nat /\ rank[y] \in Nat /\ rank[p] \in Nat
      BY <1>2, <1>3
    <3>4. CASE up(x) /\ up(y)
      BY <1>7, <3>2, <3>3, <3>4
    <3>5. CASE up(x) /\ ~up(y)
      BY <1>7, <3>2, <3>3, <3>5
    <3>6. CASE ~up(x) /\ ~up(y)
      BY <1>7, <3>2, <3>3, <3>6
    <3>7. QED
      BY <3>2, <3>4, <3>5, <3>6
  <2>3. CASE \E o \in Requests : WillHang(req'[o], x, y)
    <3>1. PICK o \in Requests : WillHang(req'[o], x, y)
      BY <2>3
    <3>2. req'[r] = s /\ \A a \in Requests \ {r} : req'[a] = req[a]
      BY DEF GoesTo, ReqTypeOK
    <3>3. o = r
      BY <3>1, <3>2 DEF WillHang
    <3>4. x = c /\ y = p
      BY <1>1, <3>1, <3>2, <3>3 DEF Accepts
    <3>5. rank[c] \in Nat /\ rank[p] \in Nat /\ R[c] = rank[c] + rank[p] + 1 /\ R[p] = rank[p]
      BY <1>2, <1>3, <1>5, <1>7
    <3>6. QED
      BY <3>4, <3>5
  <2>4. QED
    BY <2>1, <2>2, <2>3
<1>10. Ranked(R)'
  BY <1>7, <1>9 DEF Ranked
<1>11. QED
  BY <1>10

(* The card that CreateCard or CreateSubCard inserts.                      *)
LEMMA InsertedIsRanked ==
    ASSUME ReqTypeOK, HandInv, NEW r \in Requests, NEW s, GoesTo(r, s), Inserts(r, s),
           NEW rank, Ranked(rank)
    PROVE  \E rank2 : Ranked(rank2)'
<1>1. PICK c \in Cards \ known, p \in known \cup {Board} :
         /\ known' = known \cup {c} /\ live' = live \cup {c}
         /\ parent' = [parent EXCEPT ![c] = p]
  BY DEF Inserts
<1>2. /\ known \subseteq Cards /\ live \subseteq known /\ parent \in [Cards -> Cards \cup {Board}]
      /\ \A x \in known : parent[x] \in known \cup {Board}
  BY DEF ReqTypeOK, TypeOK, HandInv
<1>3. rank \in [Cards -> Nat] /\ \A x, y \in Cards : Hangs(x, y) => rank[y] < rank[x]
  BY DEF Ranked
<1>4. PICK n \in Nat : p \in Cards => rank[p] < n
  <2>1. CASE p \in Cards
    <3>1. rank[p] + 1 \in Nat /\ rank[p] < rank[p] + 1
      BY <1>3, <2>1
    <3>2. QED
      BY <3>1
  <2>2. CASE p \notin Cards
    BY <2>2
  <2>3. QED
    BY <2>1, <2>2
<1>5. PICK R : R = [rank EXCEPT ![c] = n]
  OBVIOUS
<1>6. R \in [Cards -> Nat] /\ R[c] = n /\ \A x \in Cards : x # c => R[x] = rank[x]
  BY <1>3, <1>5
<1>7. ASSUME NEW o \in Requests, NEW x \in Cards, NEW y \in Cards, WillHang(req'[o], x, y)
      PROVE  x # c /\ y # c /\ WillHang(req[o], x, y)
  <2>1. req'[o] = req[o]
    <3>1. req'[r] = s /\ \A a \in Requests \ {r} : req'[a] = req[a]
      BY DEF GoesTo, ReqTypeOK
    <3>2. o # r
      BY <1>7, <3>1 DEF Inserts, WillHang
    <3>3. QED
      BY <3>1, <3>2
  <2>2. InHand(req[o], known) /\ WillHang(req[o], x, y)
    BY <1>7, <2>1, RequestFacts
  <2>3. x \in known
    BY <2>2 DEF InHand, WillHang
  <2>4. y \in known \cup {Board, Nothing}
    BY <2>2 DEF InHand, WillHang, PatchedParent
  <2>5. QED
    BY <2>2, <2>3, <2>4, ConstantFacts
<1>8. ASSUME NEW x \in Cards, NEW y \in Cards, Hangs(x, y)'
      PROVE  R[y] < R[x]
  <2>1. \/ x \in live' /\ y = parent'[x]
        \/ \E o \in Requests : WillHang(req'[o], x, y)
    BY <1>8 DEF Hangs, WillHang, PatchedParent
  <2>2. CASE x = c
    <3>1. y = p
      BY <1>1, <1>2, <1>7, <2>1, <2>2
    <3>2. y # c /\ y \in Cards
      BY <1>1, <3>1, ConstantFacts
    <3>3. QED
      BY <1>4, <1>6, <2>2, <3>1, <3>2
  <2>3. CASE x # c
    <3>1. Hangs(x, y) /\ y # c
      <4>1. CASE x \in live' /\ y = parent'[x]
        <5>1. x \in live /\ y = parent[x]
          BY <1>1, <1>2, <2>3, <4>1
        <5>2. y \in known
          BY <1>2, <5>1, ConstantFacts
        <5>3. QED
          BY <1>1, <5>1, <5>2 DEF Hangs
      <4>2. CASE \E o \in Requests : WillHang(req'[o], x, y)
        BY <1>7, <4>2 DEF Hangs
      <4>3. QED
        BY <2>1, <4>1, <4>2
    <3>2. QED
      BY <1>3, <1>6, <2>3, <3>1
  <2>4. QED
    BY <2>2, <2>3
<1>9. Ranked(R)'
  BY <1>6, <1>8 DEF Ranked
<1>10. QED
  BY <1>9

LEMMA RankKept ==
    ASSUME ReqTypeOK, HandInv, NEW r \in Requests, NEW s, GoesTo(r, s), Effect(r, s),
           req[r].at = "check" =>
              \A o \in Requests \ {r} : req[o].at \notin {"patch", "write"},
           NEW rank, Ranked(rank)
    PROVE  \E rank2 : Ranked(rank2)'
<1>1. CASE Accepts(r, s)
  BY <1>1, AcceptedIsRanked DEF Accepts
<1>2. CASE Inserts(r, s)
  BY <1>2, InsertedIsRanked
<1>3. CASE Quiet(r, s) \/ Writes(r, s) \/ Removes(r, s)
  <2>1. /\ known \subseteq Cards /\ live \subseteq known
        /\ parent \in [Cards -> Cards \cup {Board}]
        /\ req'[r] = s /\ \A o \in Requests \ {r} : req'[o] = req[o]
    BY DEF ReqTypeOK, TypeOK, GoesTo
  <2>2. ASSUME NEW x \in Cards, NEW y \in Cards, Hangs(x, y)'
        PROVE  Hangs(x, y)
    <3>1. \/ x \in live' /\ y = parent'[x]
          \/ \E o \in Requests : WillHang(req'[o], x, y)
      BY <2>2 DEF Hangs, WillHang, PatchedParent
    <3>2. CASE x \in live' /\ y = parent'[x]
      <4>1. CASE Quiet(r, s) \/ Removes(r, s)
        BY <3>2, <4>1 DEF Quiet, Removes, Hangs, vars
      <4>2. CASE Writes(r, s)
        <5>1. CASE x = req[r].card
          <6>1. y = PatchedParent(req[r])
            BY <2>1, <3>2, <4>2, <5>1 DEF Writes
          <6>2. WillHang(req[r], x, y)
            BY <4>2, <5>1, <6>1 DEF Writes, WillHang
          <6>3. QED
            BY <6>2 DEF Hangs
        <5>2. CASE x # req[r].card
          <6>1. x \in live /\ y = parent[x]
            BY <2>1, <3>2, <4>2, <5>2 DEF Writes
          <6>2. QED
            BY <6>1 DEF Hangs
        <5>3. QED
          BY <5>1, <5>2
      <4>3. QED
        BY <1>3, <4>1, <4>2
    <3>3. CASE \E o \in Requests : WillHang(req'[o], x, y)
      <4>1. PICK o \in Requests : WillHang(req'[o], x, y)
        BY <3>3
      <4>2. CASE o # r
        BY <2>1, <4>1, <4>2 DEF Hangs
      <4>3. CASE o = r
        <5>1. WillHang(s, x, y)
          BY <2>1, <4>1, <4>3
        <5>2. CASE Quiet(r, s)
          BY <5>1, <5>2 DEF Quiet
        <5>3. CASE Writes(r, s) \/ Removes(r, s)
          BY <5>1, <5>3 DEF Writes, Removes, WillHang
        <5>4. QED
          BY <1>3, <5>2, <5>3
      <4>4. QED
        BY <4>2, <4>3
    <3>4. QED
      BY <3>1, <3>2, <3>3
  <2>3. Ranked(rank)'
    BY <2>2 DEF Ranked
  <2>4. QED
    BY <2>3
<1>4. QED
  BY <1>1, <1>2, <1>3 DEF Effect

(* What requests that overlap keep: LoopInv is inductive.                  *)
LEMMA StepLoopInv ==
    ASSUME LoopInv, ReqNext
    PROVE  LoopInv'
<1>1. PICK r \in Requests : /\ OneStep(r) /\ alone' \in BOOLEAN
                            /\ alone' => alone /\ OthersIdle(r)
  BY DEF ReqNext, OneStep, LoopInv, ReqTypeOK
<1>2. ReqTypeOK /\ HandInv /\ AloneInv
  BY DEF LoopInv
<1>3. PICK s : GoesTo(r, s) /\ Effect(r, s)
  BY <1>1, <1>2, StepGoes
<1>4. /\ TypeOK' /\ req' \in [Requests -> ReqState] /\ HandInv'
      /\ req'[r] = s /\ \A o \in Requests \ {r} : req'[o] = req[o]
  BY <1>2, <1>3, HandKept
<1>5. ReqTypeOK'
  BY <1>1, <1>4 DEF ReqTypeOK
<1>6. AloneInv'
  <2>1. SUFFICES ASSUME alone', NEW a \in Requests, NEW b \in Requests,
                        req'[a].at # "idle", req'[b].at # "idle"
                 PROVE  a = b
    BY DEF AloneInv
  <2>2. \A o \in Requests \ {r} : req'[o].at = "idle"
    BY <1>1, <1>4, <2>1 DEF OthersIdle
  <2>3. QED
    BY <2>1, <2>2
<1>7. ASSUME alone' \/ OneLinker
      PROVE  \E rank : Ranked(rank)'
  <2>1. alone \/ OneLinker
    BY <1>1, <1>7
  <2>2. PICK rank : Ranked(rank)
    BY <2>1 DEF LoopInv
  <2>3. ASSUME req[r].at = "check", NEW o \in Requests \ {r}
        PROVE  req[o].at \notin {"patch", "write"}
    <3>1. Links(r) /\ (Links(o) \/ Apart(req[o]))
      BY <1>2, <2>3, RequestFacts DEF Apart
    <3>2. CASE OneLinker
      BY <3>1, <3>2 DEF OneLinker, Apart
    <3>3. CASE alone
      BY <1>2, <2>3, <3>3 DEF AloneInv
    <3>4. QED
      BY <2>1, <3>2, <3>3
  <2>4. QED
    BY <1>2, <1>3, <2>2, <2>3, RankKept
<1>8. QED
  BY <1>4, <1>5, <1>6, <1>7 DEF LoopInv

LEMMA InitLoopInv == ReqInit => LoopInv
<1>1. SUFFICES ASSUME ReqInit PROVE LoopInv
  OBVIOUS
<1>2. known = {} /\ live = {} /\ TypeOK /\ \A r \in Requests : req[r] = Idle
  <2>1. Init /\ req = [r \in Requests |-> Idle]
    BY <1>1 DEF ReqInit
  <2>2. TypeOK
    BY <2>1 DEF Init, TypeOK
  <2>3. known = {} /\ live = {}
    BY <2>1 DEF Init
  <2>4. QED
    BY <2>1, <2>2, <2>3
<1>3. ReqTypeOK
  <2>1. req = [r \in Requests |-> Idle] /\ alone = TRUE
    BY <1>1 DEF ReqInit
  <2>2. req \in [Requests -> ReqState]
    BY <2>1, IdleFacts
  <2>3. QED
    BY <1>2, <2>1, <2>2 DEF ReqTypeOK
<1>4. HandInv
  BY <1>2, IdleFacts, FS_EmptySet DEF HandInv
<1>5. AloneInv
  BY <1>2, IdleFacts DEF AloneInv
<1>6. \E rank : Ranked(rank)
  <2>1. PICK R : R = [x \in Cards |-> 0]
    OBVIOUS
  <2>2. Ranked(R)
    BY <1>2, <2>1, IdleFacts DEF Ranked, Hangs, WillHang
  <2>3. QED
    BY <2>2
<1>7. QED
  BY <1>3, <1>4, <1>5, <1>6 DEF LoopInv

LEMMA StutterLoopInv ==
    ASSUME LoopInv, UNCHANGED reqVars
    PROVE  LoopInv'
<1>1. /\ known' = known /\ live' = live /\ parent' = parent /\ depth' = depth
      /\ req' = req /\ alone' = alone
  BY DEF reqVars, vars
<1>2. ReqTypeOK' /\ AloneInv'
  BY <1>1 DEF LoopInv, ReqTypeOK, TypeOK, AloneInv
<1>3. HandInv'
  BY <1>1 DEF LoopInv, HandInv
<1>4. (alone \/ OneLinker => \E rank : Ranked(rank))'
  <2>1. \A rank : Ranked(rank) => Ranked(rank)'
    BY <1>1 DEF Ranked, Hangs, WillHang, PatchedParent
  <2>2. QED
    BY <1>1, <2>1 DEF LoopInv
<1>5. QED
  BY <1>2, <1>3, <1>4 DEF LoopInv

LEMMA LoopInvariant == ReqSpec => []LoopInv
<1>1. LoopInv /\ [ReqNext]_reqVars => LoopInv'
  BY StepLoopInv, StutterLoopInv
<1>2. QED
  BY <1>1, InitLoopInv, PTL DEF ReqSpec

(* Every request is, at every one of its steps, in a state its handler can *)
(* be in (server/app/cards.go, blocks.go), whatever overlaps.              *)
THEOREM RequestsTypeCorrect == ReqSpec => []ReqTypeOK
<1>1. LoopInv => ReqTypeOK
  BY DEF LoopInv
<1>2. QED
  BY <1>1, LoopInvariant, PTL

(* However many requests create, delete and fail meanwhile: as long as one *)
(* of them at most links and unlinks, no card is its own ancestor          *)
(* (checkCircularReference, one store call at a time).                     *)
THEOREM NoCycleWithOneLinker ==
    ASSUME OneLinker
    PROVE  ReqSpec => []NoCycle
<1>1. LoopInv => NoCycle
  BY RankedNoCycle DEF LoopInv, ReqTypeOK
<1>2. QED
  BY <1>1, LoopInvariant, PTL

(* And as long as requests do not overlap, any number of them may link.    *)
THEOREM NoCycleWhileAlone ==
    ReqSpec => [](alone => NoCycle)
<1>1. LoopInv => (alone => NoCycle)
  BY RankedNoCycle DEF LoopInv, ReqTypeOK
<1>2. QED
  BY <1>1, LoopInvariant, PTL

-----------------------------------------------------------------------------
(* Requests that run one at a time implement CardTree.                     *)

(* The contract walks the same tree.                                       *)
LEMMA ContractWalks ==
    /\ \A c : Contract!Subtree(c) = Subtree(c)
    /\ \A c : Contract!AncestorsOf(c) = AncestorsOf(c)
    /\ \A c : Contract!OwnAncestor(c) <=> OwnAncestor(c)
    /\ \A c, d : Contract!FitsBelow(c, d) <=> FitsBelow(c, d)
    /\ \A S : Contract!ClosedDownward(S) <=> ClosedDownward(S)
BY DEF Contract!Subtree, Contract!AncestorsOf, Contract!OwnAncestor, Contract!FitsBelow,
       Contract!ClosedDownward, Contract!ClosedUpward,
       Subtree, AncestorsOf, OwnAncestor, FitsBelow, ClosedDownward, ClosedUpward

(* While rows keep their place, so do the walks.                           *)
LEMMA SameTree ==
    ASSUME live' = live, parent' = parent
    PROVE  /\ \A c : Subtree(c)' = Subtree(c)
           /\ \A c : AncestorsOf(c)' = AncestorsOf(c)
           /\ \A c : SubCards(c)' = SubCards(c)
           /\ \A c, d : FitsBelow(c, d)' <=> FitsBelow(c, d)
<1>1. /\ \A S : ClosedDownward(S)' <=> ClosedDownward(S)
      /\ \A S : ClosedUpward(S)' <=> ClosedUpward(S)
  BY DEF ClosedDownward, ClosedUpward
<1>2. \A c : Subtree(c)' = Subtree(c)
  BY <1>1 DEF Subtree
<1>3. \A c : AncestorsOf(c)' = AncestorsOf(c)
  BY <1>1 DEF AncestorsOf
<1>4. \A c : SubCards(c)' = SubCards(c)
  BY DEF SubCards
<1>5. \A c, d : FitsBelow(c, d)' <=> FitsBelow(c, d)
  BY <1>2 DEF FitsBelow
<1>6. QED
  BY <1>2, <1>3, <1>4, <1>5

LEMMA SameOwed ==
    ASSUME live' = live, parent' = parent
    PROVE  /\ \A t : OwedBy(t)' = OwedBy(t)
           /\ \A todo : OwedByAll(todo)' = OwedByAll(todo)
           /\ \A q : Owed(q)' = Owed(q)
<1>1. \A t : OwedBy(t)' = OwedBy(t)
  BY SameTree DEF OwedBy
<1>2. \A todo : OwedByAll(todo)' = OwedByAll(todo)
  BY <1>1 DEF OwedByAll
<1>3. \A q : Owed(q)' = Owed(q)
  BY <1>2 DEF Owed, BeforeMove
<1>4. QED
  BY <1>1, <1>2, <1>3

LEMMA SamePlace ==
    ASSUME UNCHANGED vars, NEW s
    PROVE  /\ Settled(s)' = Settled(s)
           /\ AtItsPlace(s) => AtItsPlace(s)'
<1>1. live' = live /\ parent' = parent /\ depth' = depth
  BY DEF vars
<1>2. /\ \A c : Subtree(c)' = Subtree(c)
      /\ \A c : AncestorsOf(c)' = AncestorsOf(c)
      /\ \A c : SubCards(c)' = SubCards(c)
      /\ \A c, d : FitsBelow(c, d)' <=> FitsBelow(c, d)
      /\ Owed(s)' = Owed(s)
  BY <1>1, SameTree, SameOwed
<1>3. Settled(s)' = Settled(s)
  BY <1>1, <1>2 DEF Settled
<1>4. /\ LinkInHand(s)' <=> LinkInHand(s)
      /\ UnlinkInHand(s)' <=> UnlinkInHand(s)
      /\ ShiftsLeft(s)' <=> ShiftsLeft(s)
      /\ DeletesLeft(s)' <=> DeletesLeft(s)
  BY <1>1, <1>2 DEF LinkInHand, UnlinkInHand, ShiftsLeft, DeletesLeft
<1>5. /\ LinkChecked(s)' <=> LinkChecked(s)
      /\ SubPatch(s)' <=> SubPatch(s)
  BY <1>1, <1>2, <1>4 DEF LinkChecked, SubPatch
<1>6. AtItsPlace(s) => AtItsPlace(s)'
  BY <1>1, <1>4, <1>5 DEF AtItsPlace
<1>7. QED
  BY <1>3, <1>6

(* A subtree is its root and the subtrees under it.                        *)
LEMMA SubtreeSplits ==
    ASSUME TypeOK, NEW c \in Cards
    PROVE  /\ \A x \in SubCards(c) : Subtree(x) \subseteq Subtree(c) /\ x \in Subtree(x)
           /\ \A z \in Subtree(c) : z = c \/ \E x \in SubCards(c) : z \in Subtree(x)
<1>1. live \subseteq Cards
  BY DEF TypeOK
<1>2. \A x \in SubCards(c) : x \in Subtree(x) /\ x \in Cards /\ x \in Subtree(c)
  BY <1>1, SubtreeClosed DEF SubCards
<1>3. ASSUME NEW x \in SubCards(c) PROVE Subtree(x) \subseteq Subtree(c)
  <2>1. Subtree(c) \in SUBSET Cards /\ ClosedDownward(Subtree(c))
    BY SubtreeClosed DEF ClosedDownward
  <2>2. QED
    BY <1>2, <2>1 DEF Subtree
<1> DEFINE S == {c} \cup {z \in Cards : \E x \in SubCards(c) : z \in Subtree(x)}
<1>4. ClosedDownward(S)
  <2>1. ASSUME NEW y \in live, parent[y] \in S
        PROVE  y \in S
    <3>1. CASE parent[y] = c
      <4>1. y \in SubCards(c)
        BY <3>1 DEF SubCards
      <4>2. QED
        BY <1>2, <4>1
    <3>2. CASE parent[y] # c
      <4>1. PICK x \in SubCards(c) : parent[y] \in Subtree(x)
        BY <2>1, <3>2
      <4>2. y \in Subtree(x)
        BY <1>2, <4>1, SubtreeClosed
      <4>3. QED
        BY <1>1, <4>2
    <3>3. QED
      BY <3>1, <3>2
  <2>2. QED
    BY <2>1 DEF ClosedDownward
<1>5. \A z \in Subtree(c) : z \in S
  BY <1>4 DEF Subtree
<1>6. QED
  BY <1>2, <1>3, <1>5

(* What is below a card ranks above it.                                    *)
LEMMA SubtreeAbove ==
    ASSUME TypeOK, NEW rank, Ranked(rank), NEW c \in Cards, NEW x \in Subtree(c)
    PROVE  x = c \/ rank[c] < rank[x]
<1> DEFINE S == {z \in Cards : z = c \/ rank[c] < rank[z]}
<1>1. rank \in [Cards -> Nat] /\ live \subseteq Cards
  BY DEF Ranked, TypeOK
<1>2. \A y \in live : parent[y] \in Cards => rank[parent[y]] < rank[y]
  BY <1>1 DEF Ranked, Hangs
<1>3. ClosedDownward(S)
  <2>1. ASSUME NEW y \in live, parent[y] \in S
        PROVE  y \in S
    <3>1. rank[c] \in Nat /\ rank[y] \in Nat /\ rank[parent[y]] \in Nat /\ y \in Cards
      BY <1>1, <2>1
    <3>2. rank[parent[y]] < rank[y] /\ rank[c] <= rank[parent[y]]
      BY <1>2, <2>1, <3>1
    <3>3. QED
      BY <3>1, <3>2
  <2>2. QED
    BY <2>1 DEF ClosedDownward
<1>4. x \in S
  BY <1>3 DEF Subtree
<1>5. QED
  BY <1>4

(* The cards right under one card are not below each other, nor is it.     *)
LEMMA SubCardsApart ==
    ASSUME TypeOK, NEW rank, Ranked(rank), NEW c \in Cards, NEW x \in SubCards(c)
    PROVE  /\ c \notin Subtree(x)
           /\ \A y \in SubCards(c) : y # x => y \notin Subtree(x)
<1>1. /\ rank \in [Cards -> Nat] /\ x \in live /\ x \in Cards /\ parent[x] = c
      /\ rank[c] < rank[x]
  BY DEF Ranked, Hangs, SubCards, TypeOK
<1>2. rank[c] \in Nat /\ rank[x] \in Nat
  BY <1>1
<1>3. c \notin Subtree(x)
  BY <1>1, <1>2, SubtreeAbove
<1>4. QED
  BY <1>1, <1>3, SubtreeLeast DEF SubCards

-----------------------------------------------------------------------------
(* What the calls still owe.                                               *)

LEMMA OwedByAllIs ==
    ASSUME NEW todo, NEW x
    PROVE  x \in OwedByAll(todo) <=> \E i \in DOMAIN todo : x \in OwedBy(todo[i])
BY DEF OwedByAll, ToSet

LEMMA NothingOwed ==
    ASSUME NEW q,
           BeforeMove(q) \/ ( /\ q.at \notin {"patch", "write"}
                              /\ \A i \in DOMAIN q.todo : ~MoveTask(q.todo[i]) )
    PROVE  Owed(q) = {}
<1>1. CASE BeforeMove(q)
  BY <1>1 DEF Owed
<1>2. CASE /\ q.at \notin {"patch", "write"}
           /\ \A i \in DOMAIN q.todo : ~MoveTask(q.todo[i])
  <2>1. OwedByAll(q.todo) = {}
    BY <1>2, OwedByAllIs DEF OwedBy, MoveTask
  <2>2. QED
    BY <1>2, <2>1 DEF Owed
<1>3. QED
  BY <1>1, <1>2

LEMMA NoCalls ==
    ASSUME NEW q, q.todo = <<>>, q.at \notin {"patch", "write"}
    PROVE  Owed(q) = {}
<1>1. DOMAIN q.todo = {}
  BY LenProperties, EmptySeq
<1>2. QED
  BY <1>1, NothingOwed

(* Calls in place of the first one, that owe what it owed.                 *)
LEMMA ReplacedOwed ==
    ASSUME NEW T, NEW s \in Seq(T), s # <<>>, NEW a \in Seq(T)
    PROVE  \A x : x \in OwedByAll(a \o Tail(s)) <=>
                    \/ x \in OwedByAll(a)
                    \/ \E j \in DOMAIN s : j # 1 /\ x \in OwedBy(s[j])
<1>1. TAKE x
<1>2. ASSUME x \in OwedByAll(a \o Tail(s))
      PROVE  x \in OwedByAll(a) \/ \E j \in DOMAIN s : j # 1 /\ x \in OwedBy(s[j])
  <2>1. PICK i \in DOMAIN (a \o Tail(s)) : x \in OwedBy((a \o Tail(s))[i])
    BY <1>2, OwedByAllIs
  <2>2. CASE i \in DOMAIN a
    <3>1. (a \o Tail(s))[i] = a[i]
      BY <2>2, Replaced
    <3>2. QED
      BY <2>1, <2>2, <3>1, OwedByAllIs
  <2>3. CASE i \notin DOMAIN a
    <3>1. PICK j \in DOMAIN s : j # 1 /\ i = j + Len(a) - 1
      BY <2>3, Replaced
    <3>2. (a \o Tail(s))[i] = s[j]
      BY <3>1, Replaced
    <3>3. QED
      BY <2>1, <3>1, <3>2
  <2>4. QED
    BY <2>2, <2>3
<1>3. ASSUME x \in OwedByAll(a)
      PROVE  x \in OwedByAll(a \o Tail(s))
  <2>1. PICK i \in DOMAIN a : x \in OwedBy(a[i])
    BY <1>3, OwedByAllIs
  <2>2. i \in DOMAIN (a \o Tail(s)) /\ (a \o Tail(s))[i] = a[i]
    BY Replaced
  <2>3. QED
    BY <2>1, <2>2, OwedByAllIs
<1>4. ASSUME NEW j \in DOMAIN s, j # 1, x \in OwedBy(s[j])
      PROVE  x \in OwedByAll(a \o Tail(s))
  <2>1. /\ j + Len(a) - 1 \in DOMAIN (a \o Tail(s))
        /\ (a \o Tail(s))[j + Len(a) - 1] = s[j]
    BY <1>4, Replaced
  <2>2. QED
    BY <1>4, <2>1, OwedByAllIs
<1>5. QED
  BY <1>2, <1>3, <1>4

LEMMA ReplacedSame ==
    ASSUME NEW T, NEW s \in Seq(T), s # <<>>, NEW a \in Seq(T),
           \A x : x \in OwedByAll(a) <=> x \in OwedBy(s[1])
    PROVE  OwedByAll(a \o Tail(s)) = OwedByAll(s)
<1>1. \A x : x \in OwedByAll(s) <=>
                x \in OwedBy(s[1]) \/ \E j \in DOMAIN s : j # 1 /\ x \in OwedBy(s[j])
  <2>1. 1 \in DOMAIN s
    BY Replaced
  <2>2. QED
    BY <2>1, OwedByAllIs
<1>2. QED
  BY <1>1, ReplacedOwed

LEMMA OwedByOne ==
    ASSUME NEW c
    PROVE  /\ OwedByAll(<<ExpandCall(c)>>) = Subtree(c) \ {c}
           /\ OwedByAll(<<ExpandCall(c)>>)' = Subtree(c)' \ {c}
           /\ OwedByAll(<<>>) = {}
<1>1. /\ DOMAIN <<ExpandCall(c)>> = {1} /\ <<ExpandCall(c)>>[1] = ExpandCall(c)
      /\ DOMAIN <<>> = {}
  OBVIOUS
<1>2. ToSet(<<ExpandCall(c)>>) = {ExpandCall(c)} /\ ToSet(<<>>) = {}
  BY <1>1 DEF ToSet
<1>3. /\ OwedBy(ExpandCall(c)) = Subtree(c) \ {c}
      /\ OwedBy(ExpandCall(c))' = Subtree(c)' \ {c}
  BY DEF OwedBy, ExpandCall
<1>4. QED
  BY <1>2, <1>3 DEF OwedByAll

-----------------------------------------------------------------------------
(* The steps of a request that runs alone.                                 *)

\* Request r, in state q, is about to move, and the others are idle.
Solo(r, q) ==
    /\ q = req[r] /\ q \in ReqState /\ InHand(q, known)
    /\ ReqTypeOK /\ HandInv
    /\ \E rank : Ranked(rank)
    /\ AtItsPlace(q)
    /\ SettledDepth = Settled(q)

\* It goes to state s, and the contract makes the step too.
Follows(r, s) ==
    /\ req' = [req EXCEPT ![r] = s]
    /\ AtItsPlace(s)'
    /\ SettledDepth' = Settled(s)' => [Contract!Next]_(Contract!vars)

LEMMA SoloFacts ==
    ASSUME NEW r, NEW q, Solo(r, q)
    PROVE  /\ q = req[r] /\ q \in ReqState /\ InHand(q, known) /\ AtItsPlace(q)
           /\ known \subseteq Cards /\ live \subseteq known /\ IsFiniteSet(live) /\ TypeOK
           /\ parent \in [Cards -> Cards \cup {Board}] /\ depth \in [Cards -> Int]
           /\ NoCycle
<1>1. TypeOK /\ IsFiniteSet(known)
  BY DEF Solo, ReqTypeOK, HandInv
<1>2. NoCycle
  BY <1>1, RankedNoCycle DEF Solo
<1>3. QED
  BY <1>1, <1>2, FS_Subset DEF Solo, TypeOK

(* A step that moves nothing is a stutter.                                 *)
LEMMA QuietFollows ==
    ASSUME NEW r, NEW q, NEW s, Solo(r, q), UNCHANGED vars,
           req' = [req EXCEPT ![r] = s],
           AtItsPlace(s),
           Owed(s) = Owed(q),
           s.delta = q.delta \/ Owed(q) = {}
    PROVE  Follows(r, s)
<1>1. Settled(s) = Settled(q)
  BY DEF Settled
<1>2. Settled(s)' = Settled(s) /\ AtItsPlace(s)'
  BY SamePlace
<1>3. SettledDepth' = Settled(s)' => UNCHANGED Contract!vars
  BY <1>1, <1>2 DEF Solo, Contract!vars, vars
<1>4. QED
  BY <1>2, <1>3 DEF Follows

(* What is left of a request that is through.                              *)
LEMMA IdlePlace ==
    /\ AtItsPlace(Idle) /\ Owed(Idle) = {}
    /\ AtItsPlace(Idle)'
<1>1. Idle.at = "idle" /\ Idle.todo = <<>>
  BY IdleFacts
<1>2. Owed(Idle) = {}
  BY <1>1, NoCalls
<1>3. QED
  BY <1>1, <1>2 DEF AtItsPlace

LEMMA SettledIsDepth ==
    ASSUME TypeOK, NEW q, Owed(q) = {}
    PROVE  Settled(q) = depth
<1>1. Settled(q) = [x \in Cards |-> depth[x]]
  BY DEF Settled
<1>2. QED
  BY <1>1 DEF TypeOK

LEMMA SoloCreates ==
    ASSUME NEW r \in Requests, NEW q, Solo(r, q),
           CreateCardRequest(r) \/ InsertSubCard(r)
    PROVE  \E s : Follows(r, s)
<1>1. TypeOK /\ q = req[r] /\ AtItsPlace(q) /\ SettledDepth = Settled(q)
  BY SoloFacts DEF Solo
<1>2. q.at \in {"idle", "insert"} /\ q.todo = <<>>
  BY <1>1 DEF CreateCardRequest, InsertSubCard, Starts, AtItsPlace
<1>3. SettledDepth = depth
  BY <1>1, <1>2, NoCalls, SettledIsDepth
<1>4. CASE CreateCardRequest(r)
  <2>1. PICK x \in Cards : Insert(x, Board, 0)
    BY <1>4 DEF CreateCardRequest
  <2>2. req' = req /\ q.at = "idle"
    BY <1>1, <1>4 DEF CreateCardRequest, Starts
  <2>3. req' = [req EXCEPT ![r] = q]
    BY <1>1, <2>2 DEF Solo, ReqTypeOK
  <2>4. AtItsPlace(q)'
    BY <1>2, <2>2 DEF AtItsPlace
  <2>5. ASSUME SettledDepth' = Settled(q)' PROVE Contract!Next
    <3>1. Settled(q)' = depth'
      <4>1. Owed(q)' = {}
        BY <1>2, <2>2, OwedByOne DEF Owed, OwedByAll, ToSet
      <4>2. Settled(q)' = [c \in Cards |-> depth'[c]]
        BY <4>1 DEF Settled
      <4>3. QED
        BY <1>1, <2>1, <4>2 DEF Insert, TypeOK
    <3>2. Contract!CreateCard(x)
      BY <1>3, <2>1, <2>5, <3>1 DEF Contract!CreateCard, Insert
    <3>3. QED
      BY <3>2 DEF Contract!Next
  <2>6. QED
    BY <2>3, <2>4, <2>5 DEF Follows
<1>5. CASE InsertSubCard(r)
  <2>1. PICK x \in Cards : Insert(x, q.parent, q.depth)
    BY <1>1, <1>5 DEF InsertSubCard
  <2>2. req' = [req EXCEPT ![r] = Idle] /\ q.at = "insert"
    BY <1>1, <1>5 DEF InsertSubCard, Done, Goto
  <2>3. q.parent \in live /\ q.depth = depth[q.parent] + 1 /\ q.depth <= MaxCardDepth
    BY <1>1, <2>2 DEF AtItsPlace
  <2>4. ASSUME SettledDepth' = Settled(Idle)' PROVE Contract!Next
    <3>1. Settled(Idle)' = depth'
      <4>1. Owed(Idle)' = {}
        BY IdleFacts, OwedByOne DEF Owed, OwedByAll, ToSet
      <4>2. Settled(Idle)' = [c \in Cards |-> depth'[c]]
        BY <4>1 DEF Settled
      <4>3. QED
        BY <1>1, <2>1, <4>2 DEF Insert, TypeOK
    <3>2. Contract!CreateSubCard(x, q.parent)
      BY <1>3, <2>1, <2>3, <2>4, <3>1 DEF Contract!CreateSubCard, Insert
    <3>3. q.parent \in Cards
      BY <2>3, SoloFacts
    <3>4. QED
      BY <3>2, <3>3 DEF Contract!Next
  <2>5. QED
    BY <2>2, <2>4, IdlePlace DEF Follows
<1>6. QED
  BY <1>4, <1>5

LEMMA SoloStarts ==
    ASSUME NEW r \in Requests, NEW q, Solo(r, q), NEW c \in Cards, NEW p \in Cards,
           \/ CreateSubCardRequest(r, p)
           \/ LinkRequest(r, c, p)
           \/ UnlinkRequest(r, c)
           \/ DeleteRequest(r, c)
    PROVE  \E s : Follows(r, s)
<1>1. q = req[r] /\ AtItsPlace(q)
  BY SoloFacts
<1>2. q.at = "idle" /\ UNCHANGED vars
  BY <1>1 DEF CreateSubCardRequest, LinkRequest, UnlinkRequest, DeleteRequest, Starts
<1>3. Owed(q) = {}
  BY <1>1, <1>2, NoCalls DEF AtItsPlace
<1>4. CASE CreateSubCardRequest(r, p)
  <2>1. PICK s : s = [Idle EXCEPT !.at = "insert", !.parent = p, !.depth = depth[p] + 1]
    OBVIOUS
  <2>2. p \in live /\ depth[p] + 1 <= MaxCardDepth /\ req' = [req EXCEPT ![r] = s]
    BY <1>4, <2>1 DEF CreateSubCardRequest, Goto
  <2>3. s.at = "insert" /\ s.parent = p /\ s.depth = depth[p] + 1 /\ s.todo = <<>>
    BY <2>1 DEF Idle
  <2>4. AtItsPlace(s) /\ Owed(s) = {}
    BY <2>2, <2>3, NoCalls DEF AtItsPlace
  <2>5. QED
    BY <1>2, <1>3, <2>2, <2>4, QuietFollows
<1>5. CASE LinkRequest(r, c, p)
  <2>1. PICK s : s = [Idle EXCEPT !.at = "check", !.card = c, !.parent = p, !.depth = depth[p] + 1,
                                  !.delta = depth[p] + 1 - depth[c]]
    OBVIOUS
  <2>2. c # p /\ {c, p} \subseteq live /\ ~(depth[c] > 0) /\ req' = [req EXCEPT ![r] = s]
    BY <1>5, <2>1 DEF LinkRequest, Goto
  <2>3. s.at = "check" /\ s.card = c /\ s.parent = p /\ s.depth = depth[p] + 1
        /\ s.delta = depth[p] + 1 - depth[c] /\ s.todo = <<>>
    BY <2>1 DEF Idle
  <2>4. depth[c] \in Int /\ depth[p] \in Int
    BY SoloFacts
  <2>5. LinkInHand(s)
    BY <2>2, <2>3, <2>4 DEF LinkInHand
  <2>6. AtItsPlace(s) /\ Owed(s) = {}
    BY <2>3, <2>5, NoCalls DEF AtItsPlace
  <2>7. QED
    BY <1>2, <1>3, <2>2, <2>6, QuietFollows
<1>6. CASE UnlinkRequest(r, c)
  <2>1. PICK s : s = [Idle EXCEPT !.at = "patch", !.card = c, !.parent = Board,
                                  !.delta = -depth[c],
                                  !.todo = IF depth[c] > 0 THEN <<ExpandCall(c)>> ELSE <<>>]
    OBVIOUS
  <2>2. c \in live /\ parent[c] # Board /\ req' = [req EXCEPT ![r] = s]
    BY <1>6, <2>1 DEF UnlinkRequest, Goto
  <2>3. s.at = "patch" /\ s.card = c /\ s.parent = Board /\ s.depth = 0 /\ s.delta = -depth[c]
        /\ s.todo = IF depth[c] > 0 THEN <<ExpandCall(c)>> ELSE <<>>
    BY <2>1 DEF Idle
  <2>4. UnlinkInHand(s)
    BY <2>2, <2>3 DEF UnlinkInHand
  <2>5. AtItsPlace(s)
    BY <2>3, <2>4, ConstantFacts DEF AtItsPlace
  <2>6. Owed(s) = {}
    BY <2>3, NothingOwed, ConstantFacts DEF BeforeMove
  <2>7. QED
    BY <1>2, <1>3, <2>2, <2>5, <2>6, QuietFollows
<1>7. CASE DeleteRequest(r, c)
  <2>1. PICK s : s = [Idle EXCEPT !.at = "walk", !.todo = <<DeleteCall(c)>>]
    OBVIOUS
  <2>2. req' = [req EXCEPT ![r] = s]
    BY <1>7, <2>1 DEF DeleteRequest, Goto
  <2>3. s.at = "walk" /\ s.todo = <<DeleteCall(c)>>
    BY <2>1 DEF Idle
  <2>4. DOMAIN s.todo = {1} /\ s.todo[1].do = "delete"
    BY <2>3 DEF DeleteCall
  <2>5. DeletesLeft(s)
    BY <2>4 DEF DeletesLeft, MoveTask
  <2>6. AtItsPlace(s) /\ Owed(s) = {}
    BY <2>3, <2>4, <2>5, NothingOwed DEF AtItsPlace, DeletesLeft
  <2>7. QED
    BY <1>2, <1>3, <2>2, <2>6, QuietFollows
<1>8. QED
  BY <1>4, <1>5, <1>6, <1>7

LEMMA SoloReads ==
    ASSUME NEW r \in Requests, NEW q, Solo(r, q),
           LinkChecks(r) \/ ReadRow(r) \/ ReadBack(r) \/ Return(r)
    PROVE  \E s : Follows(r, s)
<1>1. q = req[r] /\ q \in ReqState /\ AtItsPlace(q) /\ UNCHANGED vars
  BY SoloFacts DEF LinkChecks, ReadRow, ReadBack, Return
<1>2. CASE LinkChecks(r)
  <2>1. PICK a : a = IF SubCards(q.card) # {} THEN <<ExpandCall(q.card)>> ELSE <<>>
    OBVIOUS
  <2>2. PICK s : s = [q EXCEPT !.at = "patch", !.todo = a]
    OBVIOUS
  <2>3. /\ q.at = "check"
        /\ \/ req' = [req EXCEPT ![r] = Idle]
           \/ /\ req' = [req EXCEPT ![r] = s]
              /\ FitsBelow(q.card, q.depth) /\ q.card \notin AncestorsOf(q.parent)
    BY <1>1, <1>2, <2>1, <2>2 DEF LinkChecks, Goto
  <2>4. LinkInHand(q) /\ Owed(q) = {}
    BY <1>1, <2>3, NoCalls DEF AtItsPlace
  <2>5. CASE req' = [req EXCEPT ![r] = Idle]
    BY <1>1, <2>4, <2>5, IdlePlace, QuietFollows
  <2>6. CASE /\ req' = [req EXCEPT ![r] = s]
             /\ FitsBelow(q.card, q.depth) /\ q.card \notin AncestorsOf(q.parent)
    <3>1. /\ s.at = "patch" /\ s.card = q.card /\ s.parent = q.parent /\ s.depth = q.depth
          /\ s.delta = q.delta /\ s.todo = a
      BY <1>1, <2>2 DEF ReqState
    <3>2. LinkChecked(s)
      BY <2>1, <2>4, <2>6, <3>1 DEF LinkChecked, LinkInHand
    <3>3. s.parent # Nothing /\ s.parent # Board
      BY <2>4, <3>1, ConstantFacts, SoloFacts DEF LinkInHand
    <3>4. AtItsPlace(s)
      BY <3>1, <3>2, <3>3 DEF AtItsPlace
    <3>5. Owed(s) = {}
      BY <3>1, <3>3, NothingOwed DEF BeforeMove
    <3>6. QED
      BY <1>1, <2>4, <2>6, <3>4, <3>5, QuietFollows
  <2>7. QED
    BY <2>3, <2>5, <2>6
<1>3. CASE ReadRow(r)
  <2>1. PICK s : s = [q EXCEPT !.at = "write", !.stored = parent[q.card]]
    OBVIOUS
  <2>2. q.at = "patch"
    BY <1>1, <1>3 DEF ReadRow
  <2>3. q.card \in live
    BY <1>1, <2>2 DEF AtItsPlace, SubPatch, UnlinkInHand, LinkChecked, LinkInHand
  <2>4. req' = [req EXCEPT ![r] = s]
    BY <1>1, <1>3, <2>1, <2>3 DEF ReadRow, Goto
  <2>5. /\ s.at = "write" /\ s.card = q.card /\ s.parent = q.parent /\ s.depth = q.depth
        /\ s.delta = q.delta /\ s.todo = q.todo /\ s.stored = parent[q.card]
    BY <1>1, <2>1 DEF ReqState
  <2>6. ShiftsLeft(s) <=> ShiftsLeft(q)
    BY <2>5 DEF ShiftsLeft
  <2>7. /\ SubPatch(q) => SubPatch(s)
        /\ UnlinkInHand(q) => UnlinkInHand(s)
        /\ LinkChecked(q) => LinkChecked(s)
    BY <2>5, <2>6 DEF SubPatch, UnlinkInHand, LinkChecked, LinkInHand
  <2>8. AtItsPlace(s)
    BY <1>1, <2>2, <2>5, <2>7 DEF AtItsPlace
  <2>9. Owed(s) = Owed(q)
    BY <2>2, <2>5 DEF Owed, BeforeMove
  <2>10. QED
    BY <1>1, <2>4, <2>5, <2>8, <2>9, QuietFollows
<1>4. CASE ReadBack(r)
  <2>1. PICK s : s = [q EXCEPT !.at = "walk", !.card = Nothing]
    OBVIOUS
  <2>2. q.at = "reread"
    BY <1>1, <1>4 DEF ReadBack
  <2>3. q.card \in live /\ ShiftsLeft(q)
    BY <1>1, <2>2 DEF AtItsPlace
  <2>4. req' = [req EXCEPT ![r] = s]
    BY <1>1, <1>4, <2>1, <2>3 DEF ReadBack, Goto
  <2>5. s.at = "walk" /\ s.delta = q.delta /\ s.todo = q.todo
    BY <1>1, <2>1 DEF ReqState
  <2>6. AtItsPlace(s)
    BY <2>3, <2>5 DEF AtItsPlace, ShiftsLeft
  <2>7. Owed(s) = Owed(q)
    BY <2>2, <2>5 DEF Owed, BeforeMove
  <2>8. QED
    BY <1>1, <2>4, <2>5, <2>6, <2>7, QuietFollows
<1>5. CASE Return(r)
  <2>1. q.at = "walk" /\ q.todo = <<>> /\ req' = [req EXCEPT ![r] = Idle]
    BY <1>1, <1>5 DEF Return, Done, Goto
  <2>2. Owed(q) = {}
    BY <2>1, NoCalls
  <2>3. QED
    BY <1>1, <2>1, <2>2, IdlePlace, QuietFollows
<1>6. QED
  BY <1>2, <1>3, <1>4, <1>5

(* A move takes what hangs below the card along.                           *)
LEMMA MovedSubtree ==
    ASSUME live' = live, NEW c, \A x \in live : x # c => parent'[x] = parent[x]
    PROVE  Subtree(c)' = Subtree(c)
<1>1. \A S : c \in S => (ClosedDownward(S)' <=> ClosedDownward(S))
  BY DEF ClosedDownward
<1>2. QED
  BY <1>1 DEF Subtree

(* The write that moves a card: the contract links or unlinks it.          *)
LEMMA SoloMoves ==
    ASSUME NEW r \in Requests, NEW q, Solo(r, q), WriteRow(r), q.parent # Nothing
    PROVE  \E s : Follows(r, s)
<1>1. /\ q = req[r] /\ q \in ReqState /\ AtItsPlace(q) /\ TypeOK /\ NoCycle
      /\ live \subseteq Cards
      /\ parent \in [Cards -> Cards \cup {Board}] /\ depth \in [Cards -> Int]
  BY SoloFacts
<1>2. PICK c, d, todo : c = q.card /\ d = q.delta /\ todo = q.todo
  OBVIOUS
<1>3. PICK s : s = [q EXCEPT !.at = "reread", !.parent = Nothing, !.stored = Nothing, !.depth = 0]
  OBVIOUS
<1>4. /\ q.at = "write" /\ known' = known /\ live' \in {live, live \cup {c}}
      /\ parent' = [parent EXCEPT ![c] = q.parent]
      /\ depth' = [depth EXCEPT ![c] = q.depth]
      /\ req' = [req EXCEPT ![r] = s]
  BY <1>1, <1>2, <1>3 DEF WriteRow, PatchedParent, Goto
<1>5. s.at = "reread" /\ s.card = c /\ s.parent = Nothing /\ s.delta = d /\ s.todo = todo
  BY <1>1, <1>2, <1>3 DEF ReqState
<1>6. IF q.parent = Board THEN UnlinkInHand(q) ELSE LinkChecked(q)
  BY <1>1, <1>4 DEF AtItsPlace
<1>7. /\ c \in live /\ c \in Cards /\ d \in Int /\ q.depth = depth[c] + d
      /\ todo = <<ExpandCall(c)>> \/ todo = <<>>
  <2>1. c \in live
    BY <1>2, <1>6 DEF UnlinkInHand, LinkChecked, LinkInHand
  <2>2. d \in Int /\ q.depth \in Int /\ depth[c] \in Int
    BY <1>1, <1>2, <2>1 DEF ReqState
  <2>3. CASE q.parent = Board
    BY <1>1, <1>2, <1>6, <2>1, <2>2, <2>3 DEF UnlinkInHand
  <2>4. CASE q.parent # Board
    BY <1>1, <1>2, <1>6, <2>1, <2>2, <2>4 DEF LinkChecked, LinkInHand
  <2>5. QED
    BY <2>3, <2>4
<1>8. live' = live
  BY <1>4, <1>7
<1>9. Subtree(c)' = Subtree(c)
  <2>1. \A x \in live : x # c => parent'[x] = parent[x]
    BY <1>1, <1>4
  <2>2. QED
    BY <1>8, <2>1, MovedSubtree
<1>10. AtItsPlace(s)'
  <2>1. \/ DOMAIN todo = {}
        \/ DOMAIN todo = {1} /\ todo[1].do = "expand" /\ todo[1].card = c
    BY <1>7 DEF ExpandCall
  <2>2. ShiftsLeft(s)'
    BY <1>5, <1>7, <1>8, <2>1 DEF ShiftsLeft, MoveTask
  <2>3. QED
    BY <1>5, <1>7, <1>8, <2>2 DEF AtItsPlace
<1>11. SettledDepth = depth
  <2>1. Owed(q) = {}
    BY <1>4, NothingOwed DEF BeforeMove
  <2>2. QED
    BY <1>1, <2>1, SettledIsDepth DEF Solo
<1>12. /\ Owed(s)' = IF todo = <<>> THEN {} ELSE Subtree(c) \ {c}
       /\ Settled(s)' = [x \in Cards |-> IF x \in Owed(s)' THEN depth'[x] + d ELSE depth'[x]]
  <2>1. Owed(s)' = OwedByAll(todo)'
    BY <1>5 DEF Owed, BeforeMove
  <2>2. /\ OwedByAll(<<ExpandCall(c)>>)' = Subtree(c)' \ {c}
        /\ OwedByAll(<<>>)' = {}
    BY OwedByOne DEF OwedByAll, ToSet
  <2>3. QED
    BY <1>5, <1>7, <1>9, <2>1, <2>2 DEF Settled
<1>13. ASSUME SettledDepth' = Settled(s)'
       PROVE  Contract!Next
  <2>1. c \in Subtree(c) /\ Subtree(c) \subseteq Cards
    BY <1>1, <1>7, SubtreeClosed
  <2>2. ~OwnAncestor(c)
    BY <1>1, <1>7 DEF NoCycle
  <2>3. SettledDepth' = [x \in Cards |-> IF x = c THEN depth[c] + d
                                         ELSE IF todo # <<>> /\ x \in Subtree(c) THEN depth[x] + d
                                         ELSE depth[x]]
    BY <1>1, <1>4, <1>7, <1>12, <1>13
  <2>4. \A n : Contract!ShiftSubtree(c, n) =
              [x \in Cards |-> IF x \in Subtree(c) THEN depth[x] + n ELSE depth[x]]
    BY <1>11, ContractWalks DEF Contract!ShiftSubtree
  <2>5. CASE q.parent = Board
    <3>1. UnlinkInHand(q)
      BY <1>6, <2>5
    <3>2. /\ parent[c] # Board /\ d = -depth[c]
          /\ todo = IF depth[c] > 0 THEN <<ExpandCall(c)>> ELSE <<>>
      BY <1>2, <3>1 DEF UnlinkInHand
    <3>3. SettledDepth' = IF depth[c] > 0 THEN Contract!ShiftSubtree(c, -depth[c])
                          ELSE [depth EXCEPT ![c] = 0]
      <4>1. CASE depth[c] > 0
        <5>1. todo # <<>>
          BY <3>2, <4>1
        <5>2. SettledDepth' = Contract!ShiftSubtree(c, d)
          BY <2>1, <2>3, <2>4, <5>1
        <5>3. QED
          BY <3>2, <4>1, <5>2
      <4>2. CASE ~(depth[c] > 0)
        <5>1. todo = <<>> /\ depth[c] + d = 0
          BY <1>1, <1>7, <3>2, <4>2
        <5>2. QED
          BY <1>1, <1>7, <2>3, <4>2, <5>1
      <4>3. QED
        BY <4>1, <4>2
    <3>4. Contract!UnlinkSubCard(c)
      BY <1>4, <1>7, <1>8, <1>11, <2>2, <2>5, <3>2, <3>3, ContractWalks
      DEF Contract!UnlinkSubCard
    <3>5. QED
      BY <1>7, <3>4 DEF Contract!Next
  <2>6. CASE q.parent # Board
    <3>1. LinkChecked(q)
      BY <1>6, <2>6
    <3>2. PICK p : p = q.parent
      OBVIOUS
    <3>3. /\ c # p /\ p \in live /\ depth[c] <= 0
          /\ q.depth = depth[p] + 1 /\ d = q.depth - depth[c]
          /\ c \notin AncestorsOf(p)
          /\ todo = IF SubCards(c) # {} THEN <<ExpandCall(c)>> ELSE <<>>
      <4>1. LinkInHand(q) /\ q.card \notin AncestorsOf(q.parent)
            /\ q.todo = IF SubCards(q.card) # {} THEN <<ExpandCall(q.card)>> ELSE <<>>
        BY <3>1 DEF LinkChecked
      <4>2. todo = IF SubCards(c) # {} THEN <<ExpandCall(c)>> ELSE <<>>
        BY <1>2, <4>1
      <4>3. c \notin AncestorsOf(p)
        BY <1>2, <3>2, <4>1
      <4>4. QED
        BY <1>2, <3>2, <4>1, <4>2, <4>3 DEF LinkInHand
    <3>4. FitsBelow(c, depth[p] + 1)
      <4>1. FitsBelow(q.card, q.depth)
        BY <3>1 DEF LinkChecked
      <4>2. QED
        BY <1>2, <3>3, <4>1, Zenon
    <3>5. todo = <<>> => Subtree(c) = {c}
      BY <1>1, <1>7, <2>1, <3>3, SubtreeSplits
    <3>6. SettledDepth' = Contract!ShiftSubtree(c, d)
      <4>1. [x \in Cards |-> IF x = c THEN depth[c] + d
                              ELSE IF todo # <<>> /\ x \in Subtree(c) THEN depth[x] + d
                              ELSE depth[x]]
            = [x \in Cards |-> IF x \in Subtree(c) THEN depth[x] + d ELSE depth[x]]
        BY <2>1, <3>5
      <4>2. QED
        BY <2>3, <2>4, <4>1
    <3>7. Contract!LinkCardAsSubCard(c, p)
      <4>1. Contract!FitsBelow(c, SettledDepth[p] + 1)
        BY <1>11, <3>4, ContractWalks, Zenon
      <4>2. ~Contract!OwnAncestor(c) /\ c \notin Contract!AncestorsOf(p)
        BY <2>2, <3>3, ContractWalks
      <4>3. SettledDepth' = Contract!ShiftSubtree(c, (SettledDepth[p] + 1) - SettledDepth[c])
        BY <1>11, <3>3, <3>6, Zenon
      <4>4. parent' = [parent EXCEPT ![c] = p] /\ UNCHANGED <<known, live>>
        BY <1>4, <1>8, <3>2
      <4>5. SettledDepth[c] <= 0
        BY <1>11, <3>3
      <4>6. QED
        BY <1>7, <3>3, <4>1, <4>2, <4>3, <4>4, <4>5, Zenon DEF Contract!LinkCardAsSubCard
    <3>8. p \in Cards
      BY <1>1, <3>3
    <3>9. QED
      BY <1>7, <3>7, <3>8 DEF Contract!Next
  <2>7. QED
    BY <2>5, <2>6
<1>14. QED
  BY <1>4, <1>10, <1>13 DEF Follows

(* The write of a card below the one that moved: its shift was owed.       *)
LEMMA SoloShifts ==
    ASSUME NEW r \in Requests, NEW q, Solo(r, q), WriteRow(r), q.parent = Nothing
    PROVE  \E s : Follows(r, s)
<1>1. /\ q = req[r] /\ q \in ReqState /\ AtItsPlace(q) /\ InHand(q, known)
      /\ known \subseteq Cards /\ live \subseteq Cards /\ TypeOK
      /\ parent \in [Cards -> Cards \cup {Board}] /\ depth \in [Cards -> Int]
  BY SoloFacts
<1>2. PICK c, d, todo : c = q.card /\ d = q.delta /\ todo = q.todo
  OBVIOUS
<1>3. PICK s : s = [q EXCEPT !.at = "reread", !.parent = Nothing, !.stored = Nothing, !.depth = 0]
  OBVIOUS
<1>4. /\ q.at = "write" /\ known' = known /\ live' \in {live, live \cup {c}}
      /\ parent' = [parent EXCEPT ![c] = q.stored]
      /\ depth' = [depth EXCEPT ![c] = q.depth]
      /\ req' = [req EXCEPT ![r] = s]
  BY <1>1, <1>2, <1>3 DEF WriteRow, PatchedParent, Goto
<1>5. s.at = "reread" /\ s.card = c /\ s.parent = Nothing /\ s.delta = d /\ s.todo = todo
  BY <1>1, <1>2, <1>3 DEF ReqState
<1>6. SubPatch(q)
  BY <1>1, <1>4 DEF AtItsPlace
<1>7. /\ c \in live /\ q.stored = parent[c] /\ q.depth = depth[c] + d
      /\ todo # <<>> /\ todo[1] = ExpandCall(c) /\ ShiftsLeft(q)
  BY <1>2, <1>4, <1>6 DEF SubPatch
<1>8. /\ live' = live /\ parent' = parent
      /\ depth'[c] = depth[c] + d /\ \A x \in Cards : x # c => depth'[x] = depth[x]
  BY <1>1, <1>4, <1>7
<1>9. todo \in Seq(Task) /\ 1 \in DOMAIN todo /\ todo[1].do = "expand" /\ todo[1].card = c
  <2>1. todo \in Seq(Task)
    BY <1>1, <1>2 DEF ReqState
  <2>2. 1 \in DOMAIN todo
    BY <1>7, <2>1, Replaced
  <2>3. QED
    BY <1>7, <2>1, <2>2 DEF ExpandCall
<1>10. ASSUME NEW i \in DOMAIN todo, i # 1
       PROVE  c \notin Subtree(todo[i].card) /\ todo[i].card # c
  <2>1. /\ todo[1].card \notin Subtree(todo[i].card)
        /\ todo[i].card \notin Subtree(todo[1].card)
    BY <1>2, <1>7, <1>9, <1>10 DEF ShiftsLeft
  <2>2. c \in Subtree(c)
    BY <1>1, <1>7, SubtreeClosed
  <2>3. QED
    BY <1>9, <2>1, <2>2
<1>11. AtItsPlace(s)'
  <2>1. \A x : Subtree(x)' = Subtree(x)
    BY <1>8, SameTree
  <2>2. \A i \in DOMAIN todo : MoveTask(todo[i]) /\ todo[i].card \in live
    BY <1>2, <1>7 DEF ShiftsLeft
  <2>3. ASSUME NEW i \in DOMAIN todo, todo[i].do = "patch"
        PROVE  todo[i].depth = depth'[todo[i].card] + d
    <3>1. i # 1
      BY <1>9, <2>3
    <3>2. todo[i].depth = depth[todo[i].card] + d
      BY <1>2, <1>7, <2>3 DEF ShiftsLeft
    <3>3. depth'[todo[i].card] = depth[todo[i].card]
      BY <1>1, <1>8, <1>10, <2>2, <3>1
    <3>4. QED
      BY <3>2, <3>3
  <2>4. \A i, j \in DOMAIN todo : i # j => todo[i].card \notin Subtree(todo[j].card)'
    BY <1>2, <1>7, <2>1 DEF ShiftsLeft
  <2>5. ShiftsLeft(s)'
    BY <1>5, <1>8, <2>2, <2>3, <2>4 DEF ShiftsLeft
  <2>6. QED
    BY <1>5, <1>7, <1>8, <2>5 DEF AtItsPlace
<1>12. /\ Owed(q) = {c} \cup OwedByAll(todo) /\ c \notin OwedByAll(todo)
       /\ Owed(s)' = OwedByAll(todo)
  <2>1. Owed(q) = {c} \cup OwedByAll(todo)
    BY <1>2, <1>4 DEF Owed, BeforeMove
  <2>2. Owed(s) = OwedByAll(todo)
    BY <1>5 DEF Owed, BeforeMove
  <2>3. Owed(s)' = Owed(s)
    BY <1>8, SameOwed
  <2>4. \A i \in DOMAIN todo : c \notin OwedBy(todo[i])
    BY <1>9, <1>10 DEF OwedBy
  <2>5. QED
    BY <2>1, <2>2, <2>3, <2>4, OwedByAllIs
<1>13. Settled(s)' = Settled(q)
  <2>1. Settled(q) = [x \in Cards |-> IF x \in {c} \cup OwedByAll(todo) THEN depth[x] + d ELSE depth[x]]
    BY <1>2, <1>12 DEF Settled
  <2>2. Settled(s)' = [x \in Cards |-> IF x \in OwedByAll(todo) THEN depth'[x] + d ELSE depth'[x]]
    BY <1>5, <1>12 DEF Settled
  <2>3. QED
    BY <1>8, <1>12, <2>1, <2>2
<1>14. SettledDepth' = Settled(s)' => UNCHANGED Contract!vars
  BY <1>4, <1>8, <1>13 DEF Solo, Contract!vars
<1>15. QED
  BY <1>4, <1>11, <1>14 DEF Follows

\* w is s with the calls of a in place of the first.
InPlace(s, a, w) ==
    /\ \A i \in DOMAIN a : i \in DOMAIN w /\ w[i] = a[i]
    /\ \A j \in DOMAIN s : j # 1 =>
         j + Len(a) - 1 \in DOMAIN w /\ w[j + Len(a) - 1] = s[j]
    /\ \A i \in DOMAIN w :
         \/ i \in DOMAIN a /\ w[i] = a[i]
         \/ \E j \in DOMAIN s : j # 1 /\ i = j + Len(a) - 1 /\ w[i] = s[j]

LEMMA CallsLeft ==
    ASSUME NEW T, NEW s \in Seq(T), s # <<>>, NEW a \in Seq(T), NEW w, w = a \o Tail(s)
    PROVE  w \in Seq(T) /\ InPlace(s, a, w)
<1>1. w \in Seq(T)
  BY Replaced
<1>2. \A i \in DOMAIN a : i \in DOMAIN w /\ w[i] = a[i]
  BY Replaced
<1>3. ASSUME NEW j \in DOMAIN s, j # 1
      PROVE  j + Len(a) - 1 \in DOMAIN w /\ w[j + Len(a) - 1] = s[j]
  BY <1>3, Replaced
<1>4. ASSUME NEW i \in DOMAIN w, i \notin DOMAIN a
      PROVE  \E j \in DOMAIN s : j # 1 /\ i = j + Len(a) - 1 /\ w[i] = s[j]
  <2>1. PICK j \in DOMAIN s : j # 1 /\ i = j + Len(a) - 1
    BY <1>4, Replaced
  <2>2. w[i] = s[j]
    BY <1>3, <2>1
  <2>3. QED
    BY <2>1, <2>2
<1>5. QED
  BY <1>1, <1>2, <1>3, <1>4 DEF InPlace

(* The request goes on with other calls in place of the first.             *)
LEMMA WalkFacts ==
    ASSUME NEW r, NEW q, Solo(r, q), q.at = "walk", q.todo # <<>>
    PROVE  /\ q.todo \in Seq(Task) /\ 1 \in DOMAIN q.todo /\ Head(q.todo) = q.todo[1]
           /\ \A i \in DOMAIN q.todo : q.todo[i].card \in Cards
           /\ ShiftsLeft(q) \/ DeletesLeft(q)
           /\ q.todo[1].do \in {"patch", "expand"} => ShiftsLeft(q)
           /\ q.todo[1].do \in {"delete", "remove"} => DeletesLeft(q)
<1>1. q.todo \in Seq(Task) /\ AtItsPlace(q)
  BY SoloFacts DEF ReqState
<1>2. 1 \in DOMAIN q.todo /\ Head(q.todo) = q.todo[1] /\ DOMAIN q.todo = 1 .. Len(q.todo)
  BY <1>1, Replaced
<1>3. \A i \in DOMAIN q.todo : q.todo[i].card \in Cards
  <2>1. \A i \in DOMAIN q.todo : q.todo[i] \in Task
    BY <1>1, <1>2, ElementOfSeq
  <2>2. QED
    BY <2>1 DEF Task
<1>4. ShiftsLeft(q) \/ DeletesLeft(q)
  BY <1>1 DEF AtItsPlace
<1>5. /\ q.todo[1].do \in {"patch", "expand"} => ShiftsLeft(q)
      /\ q.todo[1].do \in {"delete", "remove"} => DeletesLeft(q)
  BY <1>2, <1>4 DEF ShiftsLeft, DeletesLeft, MoveTask
<1>6. QED
  BY <1>1, <1>2, <1>3, <1>4, <1>5

LEMMA ListToPatchIs ==
    ASSUME NEW r \in Requests, NEW q, Solo(r, q), ListToPatch(r)
    PROVE  \E l, a : /\ l \in Listings(q.todo[1].card) /\ a \in Seq(Task)
                     /\ DOMAIN a = DOMAIN l
                     /\ \A i \in DOMAIN l : a[i] = PatchCall(l[i], depth[l[i]] + q.delta)
                     /\ req' = [req EXCEPT ![r] = [q EXCEPT !.todo = a \o Tail(q.todo)]]
<1>1. PICK l \in Listings(Head(req[r].todo).card) : req' = [req EXCEPT ![r] = [req[r] EXCEPT
          !.todo = [i \in DOMAIN l |-> PatchCall(l[i], depth[l[i]] + req[r].delta)]
                     \o Tail(req[r].todo)]]
  BY DEF ListToPatch, Goto
<1>2. PICK a : a = [i \in DOMAIN l |-> PatchCall(l[i], depth[l[i]] + req[r].delta)]
  OBVIOUS
<1>3. q = req[r] /\ q \in ReqState /\ q.at = "walk" /\ q.todo # <<>>
  BY SoloFacts DEF ListToPatch, Next1
<1>4. a \in Seq(CallsFor(live))
  <2>1. req[r].delta \in Int
    BY <1>3 DEF ReqState
  <2>2. QED
    BY <1>2, <2>1, ListedCalls DEF Solo
<1>5. a \in Seq(Task)
  BY <1>4, SeqMonotonic DEF CallsFor
<1>6. DOMAIN a = DOMAIN l /\ \A i \in DOMAIN l : a[i] = PatchCall(l[i], depth[l[i]] + q.delta)
  BY <1>2, <1>3
<1>7. req' = [req EXCEPT ![r] = [req[r] EXCEPT !.todo = a \o Tail(req[r].todo)]]
  BY <1>1, <1>2
<1>8. l \in Listings(q.todo[1].card)
  BY <1>1, <1>3, WalkFacts
<1>9. QED
  BY <1>3, <1>5, <1>6, <1>7, <1>8

LEMMA SoloListsToPatch ==
    ASSUME NEW r \in Requests, NEW q, Solo(r, q), ListToPatch(r)
    PROVE  \E s : Follows(r, s)
<1>1. PICK l, a : /\ l \in Listings(q.todo[1].card) /\ a \in Seq(Task)
                  /\ DOMAIN a = DOMAIN l
                  /\ \A i \in DOMAIN l : a[i] = PatchCall(l[i], depth[l[i]] + q.delta)
                  /\ req' = [req EXCEPT ![r] = [q EXCEPT !.todo = a \o Tail(q.todo)]]
  BY ListToPatchIs
<1>2. PICK c, todo, w : c = q.todo[1].card /\ todo = q.todo /\ w = a \o Tail(q.todo)
  OBVIOUS
<1>3. PICK s : s = [q EXCEPT !.todo = w]
  OBVIOUS
<1>4. /\ q = req[r] /\ q \in ReqState /\ TypeOK /\ IsFiniteSet(live)
      /\ live \subseteq Cards /\ depth \in [Cards -> Int]
  BY SoloFacts
<1>5. q.at = "walk" /\ todo # <<>> /\ UNCHANGED vars /\ Head(todo).do = "expand"
  BY <1>2, <1>4 DEF ListToPatch, Next1
<1>6. /\ todo \in Seq(Task) /\ 1 \in DOMAIN todo /\ todo[1].card = c /\ todo[1].do = "expand"
      /\ \A i \in DOMAIN todo : todo[i].card \in Cards
      /\ ShiftsLeft(q)
  BY <1>2, <1>5, WalkFacts
<1>7. req' = [req EXCEPT ![r] = s] /\ s.at = "walk" /\ s.delta = q.delta /\ s.todo = w
  BY <1>1, <1>2, <1>3, <1>4, <1>5 DEF ReqState
<1>8. /\ DOMAIN l = 1 .. Len(l)
      /\ \A i \in DOMAIN l : l[i] \in SubCards(c) /\ l[i] \in live /\ l[i] \in Cards
      /\ \A i, j \in DOMAIN l : i # j => l[i] # l[j]
      /\ \A x \in SubCards(c) : \E i \in DOMAIN l : l[i] = x
  <2>1. l \in Seq(SubCards(c))
    BY <1>1, <1>2, <1>4, ListingFacts
  <2>2. DOMAIN l = 1 .. Len(l)
    BY <2>1, LenProperties
  <2>3. \A i \in DOMAIN l : l[i] \in SubCards(c)
    BY <2>1, <2>2, ElementOfSeq
  <2>4. /\ \A i, j \in DOMAIN l : i # j => l[i] # l[j]
        /\ \A x \in SubCards(c) : \E i \in DOMAIN l : l[i] = x
    BY <1>1, <1>2, <1>4, ListingFacts
  <2>5. SubCards(c) \subseteq live
    BY DEF SubCards
  <2>6. QED
    BY <1>4, <2>2, <2>3, <2>4, <2>5
<1>9. \A i \in DOMAIN a : /\ a[i].card = l[i] /\ a[i].do = "patch"
                          /\ a[i].depth = depth[l[i]] + q.delta
  BY <1>1 DEF PatchCall
<1>10. PICK rank : Ranked(rank)
  BY DEF Solo
<1>11. /\ \A x \in SubCards(c) : /\ Subtree(x) \subseteq Subtree(c)
                                 /\ x \in Subtree(x) /\ c \notin Subtree(x)
       /\ \A x, y \in SubCards(c) : x # y => y \notin Subtree(x)
  BY <1>4, <1>6, <1>10, SubtreeSplits, SubCardsApart
\* Each call that is left is one of the new ones or an old one.
<1>12. ASSUME NEW i \in DOMAIN w
       PROVE  \/ i \in DOMAIN a /\ w[i] = a[i]
              \/ \E j \in DOMAIN todo : j # 1 /\ i = j + Len(a) - 1 /\ w[i] = todo[j]
  <2>1. \A k \in DOMAIN w :
          \/ k \in DOMAIN a /\ w[k] = a[k]
          \/ \E j \in DOMAIN todo : j # 1 /\ k = j + Len(a) - 1 /\ w[k] = todo[j]
    <3>1. todo \in Seq(Task) /\ todo # <<>> /\ a \in Seq(Task) /\ w = a \o Tail(todo)
      BY <1>1, <1>2, <1>5, <1>6
    <3>2. InPlace(todo, a, w)
      BY <3>1, CallsLeft
    <3>3. QED
      BY <3>2 DEF InPlace
  <2>2. QED
    BY <1>12, <2>1
<1>13. \A j \in DOMAIN todo : /\ MoveTask(todo[j]) /\ todo[j].card \in live
                              /\ todo[j].do = "patch" =>
                                   todo[j].depth = depth[todo[j].card] + q.delta
                              /\ j # 1 => /\ todo[j].card \notin Subtree(c)
                                          /\ c \notin Subtree(todo[j].card)
                              /\ \A m \in DOMAIN todo : j # m =>
                                   todo[j].card \notin Subtree(todo[m].card)
  BY <1>2, <1>6 DEF ShiftsLeft
<1>14. ASSUME NEW i \in DOMAIN w, NEW k \in DOMAIN w, i # k
       PROVE  w[i].card \notin Subtree(w[k].card)
  <2>1. CASE /\ i \in DOMAIN a /\ w[i] = a[i]
             /\ k \in DOMAIN a /\ w[k] = a[k]
    BY <1>1, <1>8, <1>9, <1>11, <1>14, <2>1
  <2>2. CASE /\ i \in DOMAIN a /\ w[i] = a[i]
             /\ \E j \in DOMAIN todo : j # 1 /\ k = j + Len(a) - 1 /\ w[k] = todo[j]
    <3>1. PICK j \in DOMAIN todo : j # 1 /\ w[k] = todo[j]
      BY <2>2
    <3>2. w[i].card = l[i] /\ l[i] \in SubCards(c)
      BY <1>1, <1>8, <1>9, <2>2
    <3>3. todo[j].card \notin Subtree(c) /\ c \notin Subtree(todo[j].card) /\ todo[j].card \in Cards
      BY <1>6, <1>13, <3>1
    <3>4. l[i] \in Subtree(c)
      BY <1>11, <3>2
    <3>5. l[i] # todo[j].card
      BY <3>3, <3>4
    <3>6. l[i] \notin Subtree(todo[j].card)
      BY <1>4, <3>2, <3>3, <3>5, SubtreeLeast DEF SubCards
    <3>7. QED
      BY <3>1, <3>2, <3>6
  <2>3. CASE /\ \E j \in DOMAIN todo : j # 1 /\ i = j + Len(a) - 1 /\ w[i] = todo[j]
             /\ k \in DOMAIN a /\ w[k] = a[k]
    <3>1. PICK j \in DOMAIN todo : j # 1 /\ w[i] = todo[j]
      BY <2>3
    <3>2. w[k].card = l[k] /\ l[k] \in SubCards(c)
      BY <1>1, <1>8, <1>9, <2>3
    <3>3. QED
      BY <1>11, <1>13, <3>1, <3>2
  <2>4. CASE /\ \E j \in DOMAIN todo : j # 1 /\ i = j + Len(a) - 1 /\ w[i] = todo[j]
             /\ \E j \in DOMAIN todo : j # 1 /\ k = j + Len(a) - 1 /\ w[k] = todo[j]
    <3>1. PICK j \in DOMAIN todo : i = j + Len(a) - 1 /\ w[i] = todo[j]
      BY <2>4
    <3>2. PICK m \in DOMAIN todo : k = m + Len(a) - 1 /\ w[k] = todo[m]
      BY <2>4
    <3>3. j # m
      BY <1>14, <3>1, <3>2
    <3>4. QED
      BY <1>13, <3>1, <3>2, <3>3
  <2>5. QED
    BY <1>12, <2>1, <2>2, <2>3, <2>4
<1>15. ASSUME NEW i \in DOMAIN w
       PROVE  /\ MoveTask(w[i]) /\ w[i].card \in live
              /\ w[i].do = "patch" => w[i].depth = depth[w[i].card] + q.delta
  <2>1. CASE i \in DOMAIN a /\ w[i] = a[i]
    BY <1>1, <1>8, <1>9, <2>1 DEF MoveTask
  <2>2. CASE \E j \in DOMAIN todo : w[i] = todo[j]
    BY <1>13, <2>2
  <2>3. QED
    BY <1>12, <2>1, <2>2
<1>16. AtItsPlace(s)
  <2>1. ShiftsLeft(s)
    BY <1>7, <1>14, <1>15 DEF ShiftsLeft
  <2>2. QED
    BY <1>7, <2>1 DEF AtItsPlace
<1>17. Owed(s) = Owed(q)
  <2>1. ASSUME NEW x PROVE x \in OwedByAll(a) <=> x \in OwedBy(todo[1])
    <3>1. x \in OwedBy(todo[1]) <=> x \in Subtree(c) /\ x # c
      BY <1>6 DEF OwedBy
    <3>2. x \in OwedByAll(a) <=> \E i \in DOMAIN l : x \in Subtree(l[i])
      BY <1>1, <1>9, OwedByAllIs DEF OwedBy
    <3>3. (\E i \in DOMAIN l : x \in Subtree(l[i])) <=> \E y \in SubCards(c) : x \in Subtree(y)
      BY <1>8
    <3>4. (\E y \in SubCards(c) : x \in Subtree(y)) <=> x \in Subtree(c) /\ x # c
      BY <1>4, <1>6, <1>11, SubtreeSplits
    <3>5. QED
      BY <3>1, <3>2, <3>3, <3>4
  <2>2. OwedByAll(w) = OwedByAll(todo)
    BY <1>1, <1>2, <1>5, <1>6, <2>1, ReplacedSame
  <2>3. QED
    BY <1>2, <1>5, <1>7, <2>2 DEF Owed, BeforeMove
<1>18. QED
  BY <1>5, <1>7, <1>16, <1>17, QuietFollows

LEMMA SoloPatchesSubCard ==
    ASSUME NEW r \in Requests, NEW q, Solo(r, q), PatchSubCard(r)
    PROVE  \E s : Follows(r, s)
<1>1. PICK c, todo : c = q.todo[1].card /\ todo = q.todo
  OBVIOUS
<1>2. PICK a : a = <<ExpandCall(c)>>
  OBVIOUS
<1>3. PICK w : w = a \o Tail(todo)
  OBVIOUS
<1>4. /\ q = req[r] /\ q \in ReqState /\ TypeOK /\ InHand(q, known)
      /\ live \subseteq Cards /\ depth \in [Cards -> Int]
  BY SoloFacts
<1>5. q.at = "walk" /\ todo # <<>> /\ UNCHANGED vars /\ Head(todo).do = "patch"
  BY <1>1, <1>4 DEF PatchSubCard, Next1
<1>6. /\ todo \in Seq(Task) /\ 1 \in DOMAIN todo /\ todo[1].card = c /\ todo[1].do = "patch"
      /\ Head(todo) = todo[1] /\ c \in Cards
      /\ ShiftsLeft(q)
  BY <1>1, <1>5, WalkFacts
<1>7. PICK s : s = [q EXCEPT !.at = "patch", !.card = c, !.depth = todo[1].depth, !.todo = w]
  OBVIOUS
<1>8. req' = [req EXCEPT ![r] = s]
  <2>1. req' = [req EXCEPT ![r] =
                  [req[r] EXCEPT !.at = "patch", !.card = Head(req[r].todo).card,
                                 !.depth = Head(req[r].todo).depth,
                                 !.todo = <<ExpandCall(Head(req[r].todo).card)>> \o Tail(req[r].todo)]]
    BY DEF PatchSubCard, Goto
  <2>2. QED
    BY <1>1, <1>2, <1>3, <1>4, <1>6, <1>7, <2>1
<1>9. a \in Seq(Task) /\ DOMAIN a = {1} /\ Len(a) = 1 /\ a[1] = ExpandCall(c)
  <2>1. ExpandCall(c) \in Task
    BY <1>6, TaskTypes
  <2>2. QED
    BY <1>2, <2>1
<1>10. ExpandCall(c).do = "expand" /\ ExpandCall(c).card = c
  BY DEF ExpandCall
<1>11. /\ w \in Seq(Task) /\ 1 \in DOMAIN w /\ w[1] = ExpandCall(c)
       /\ \A i \in DOMAIN w : i # 1 => i \in DOMAIN todo /\ w[i] = todo[i]
  <2>1. w \in Seq(Task) /\ 1 \in DOMAIN w /\ w[1] = ExpandCall(c)
    BY <1>3, <1>5, <1>6, <1>9, Replaced
  <2>2. DOMAIN todo = 1 .. Len(todo) /\ Len(todo) \in Nat
    BY <1>6, LenProperties
  <2>3. ASSUME NEW i \in DOMAIN w, i # 1
        PROVE  i \in DOMAIN todo /\ w[i] = todo[i]
    <3>1. \/ i \in DOMAIN a /\ w[i] = a[i]
          \/ \E j \in DOMAIN todo : j # 1 /\ i = j + Len(a) - 1 /\ w[i] = todo[j]
      <4>1. todo \in Seq(Task) /\ todo # <<>> /\ a \in Seq(Task) /\ w = a \o Tail(todo)
        BY <1>3, <1>5, <1>6, <1>9
      <4>2. InPlace(todo, a, w)
        BY <4>1, CallsLeft
      <4>3. QED
        BY <2>3, <4>2 DEF InPlace
    <3>2. PICK j \in DOMAIN todo : j # 1 /\ i = j + Len(a) - 1 /\ w[i] = todo[j]
      BY <1>9, <2>3, <3>1
    <3>3. i = j
      BY <1>9, <2>2, <3>2
    <3>4. QED
      BY <3>2, <3>3
  <2>4. QED
    BY <2>1, <2>3
<1>12. /\ s.at = "patch" /\ s.card = c /\ s.depth = todo[1].depth /\ s.todo = w
       /\ s.delta = q.delta /\ s.parent = Nothing
  <2>1. q.parent = Nothing
    BY <1>4, <1>5 DEF InHand
  <2>2. QED
    BY <1>4, <1>7, <2>1 DEF ReqState
<1>13. /\ \A i \in DOMAIN todo : MoveTask(todo[i]) /\ todo[i].card \in live
       /\ \A i \in DOMAIN todo : todo[i].do = "patch" =>
            todo[i].depth = depth[todo[i].card] + q.delta
       /\ \A i, j \in DOMAIN todo : i # j => todo[i].card \notin Subtree(todo[j].card)
  BY <1>1, <1>6 DEF ShiftsLeft
<1>14. ASSUME NEW i \in DOMAIN w
       PROVE  /\ MoveTask(w[i]) /\ w[i].card \in live
              /\ w[i].do = "patch" => w[i].depth = depth[w[i].card] + q.delta
              /\ i \in DOMAIN todo /\ w[i].card = todo[i].card
  <2>1. CASE i = 1
    BY <1>6, <1>10, <1>11, <1>13, <2>1 DEF MoveTask
  <2>2. CASE i # 1
    BY <1>11, <1>13, <2>2
  <2>3. QED
    BY <2>1, <2>2
<1>15. ShiftsLeft(s)
  <2>1. \A i, j \in DOMAIN w : i # j => w[i].card \notin Subtree(w[j].card)
    BY <1>13, <1>14
  <2>2. QED
    BY <1>12, <1>14, <2>1 DEF ShiftsLeft
<1>16. AtItsPlace(s)
  <2>1. c \in live /\ s.depth = depth[c] + s.delta
    BY <1>6, <1>12, <1>13
  <2>2. w # <<>>
    BY <1>11
  <2>3. SubPatch(s)
    BY <1>11, <1>12, <1>15, <2>1, <2>2 DEF SubPatch
  <2>4. QED
    BY <1>12, <2>3 DEF AtItsPlace
<1>17. Owed(s) = Owed(q)
  <2>1. c \in Subtree(c)
    BY <1>4, <1>6, SubtreeClosed
  <2>2. \A x : x \in OwedByAll(todo) <=>
                 x \in Subtree(c) \/ \E j \in DOMAIN todo : j # 1 /\ x \in OwedBy(todo[j])
    <3>1. \A x : x \in OwedBy(todo[1]) <=> x \in Subtree(c)
      BY <1>6 DEF OwedBy
    <3>2. QED
      BY <1>6, <3>1, OwedByAllIs
  <2>3. \A x : x \in OwedByAll(w) <=>
                 \/ x \in Subtree(c) \ {c}
                 \/ \E j \in DOMAIN todo : j # 1 /\ x \in OwedBy(todo[j])
    <3>1. OwedByAll(a) = Subtree(c) \ {c}
      BY <1>2, OwedByOne
    <3>2. \A x : x \in OwedByAll(w) <=>
                   \/ x \in OwedByAll(a)
                   \/ \E j \in DOMAIN todo : j # 1 /\ x \in OwedBy(todo[j])
      BY <1>3, <1>5, <1>6, <1>9, ReplacedOwed
    <3>3. QED
      BY <3>1, <3>2
  <2>4. Owed(q) = OwedByAll(todo)
    BY <1>1, <1>5 DEF Owed, BeforeMove
  <2>5. Owed(s) = {c} \cup OwedByAll(w)
    BY <1>12 DEF Owed, BeforeMove
  <2>6. QED
    BY <2>1, <2>2, <2>3, <2>4, <2>5
<1>18. QED
  BY <1>5, <1>8, <1>12, <1>16, <1>17, QuietFollows

LEMMA ListToDeleteIs ==
    ASSUME NEW r \in Requests, NEW q, Solo(r, q), ListToDelete(r), q.todo[1].card \in live
    PROVE  \E l, b : /\ l \in Listings(q.todo[1].card) /\ b \in Seq(Task)
                     /\ DOMAIN b = DOMAIN l
                     /\ \A i \in DOMAIN l : b[i] = DeleteCall(l[i])
                     /\ req' = [req EXCEPT ![r] = [q EXCEPT
                          !.todo = b \o <<RemoveCall(q.todo[1].card)>> \o Tail(q.todo)]]
<1>1. q = req[r] /\ q \in ReqState /\ q.at = "walk" /\ q.todo # <<>>
  BY SoloFacts DEF ListToDelete, Next1
<1>2. Head(req[r].todo) = q.todo[1]
  BY <1>1, WalkFacts
<1>3. PICK l \in Listings(Head(req[r].todo).card) : req' = [req EXCEPT ![r] = [req[r] EXCEPT
          !.todo = [i \in DOMAIN l |-> DeleteCall(l[i])]
                     \o <<RemoveCall(Head(req[r].todo).card)>> \o Tail(req[r].todo)]]
  <2>1. Head(req[r].todo).card \in live
    BY <1>2
  <2>2. QED
    BY <2>1 DEF ListToDelete, Goto
<1>4. PICK b : b = [i \in DOMAIN l |-> DeleteCall(l[i])]
  OBVIOUS
<1>5. b \in Seq(CallsFor(live) \cap Deletes)
  <2>1. 0 \in Int
    OBVIOUS
  <2>2. QED
    BY <1>4, <2>1, ListedCalls DEF Solo
<1>6. b \in Seq(Task)
  BY <1>5, SeqMonotonic DEF CallsFor
<1>7. DOMAIN b = DOMAIN l /\ \A i \in DOMAIN l : b[i] = DeleteCall(l[i])
  BY <1>4
<1>8. req' = [req EXCEPT ![r] = [req[r] EXCEPT
          !.todo = b \o <<RemoveCall(Head(req[r].todo).card)>> \o Tail(req[r].todo)]]
  BY <1>3, <1>4
<1>9. QED
  BY <1>1, <1>2, <1>3, <1>6, <1>7, <1>8

LEMMA SoloListsToDelete ==
    ASSUME NEW r \in Requests, NEW q, Solo(r, q), ListToDelete(r)
    PROVE  \E s : Follows(r, s)
<1>1. PICK c, todo : c = q.todo[1].card /\ todo = q.todo
  OBVIOUS
<1>2. /\ q = req[r] /\ q \in ReqState /\ TypeOK /\ IsFiniteSet(live)
  BY SoloFacts
<1>3. q.at = "walk" /\ todo # <<>> /\ UNCHANGED vars /\ Head(todo).do = "delete"
  BY <1>1, <1>2 DEF ListToDelete, Next1
<1>4. /\ todo \in Seq(Task) /\ 1 \in DOMAIN todo /\ todo[1].card = c /\ todo[1].do = "delete"
      /\ Head(todo) = todo[1] /\ c \in Cards
      /\ DeletesLeft(q)
  BY <1>1, <1>3, WalkFacts
<1>5. Owed(q) = {}
  BY <1>3, <1>4, NothingOwed DEF DeletesLeft
<1>6. CASE c \notin live
  <2>1. req' = [req EXCEPT ![r] = Idle]
    <3>1. Head(req[r].todo).card \notin live
      BY <1>1, <1>2, <1>4, <1>6
    <3>2. QED
      BY <3>1 DEF ListToDelete, Done, Goto
  <2>2. QED
    BY <1>3, <1>5, <2>1, IdlePlace, QuietFollows
<1>7. CASE c \in live
  <2>1. PICK l, b : /\ l \in Listings(c) /\ b \in Seq(Task)
                    /\ DOMAIN b = DOMAIN l
                    /\ \A i \in DOMAIN l : b[i] = DeleteCall(l[i])
                    /\ req' = [req EXCEPT ![r] = [q EXCEPT
                         !.todo = b \o <<RemoveCall(c)>> \o Tail(q.todo)]]
    <3>1. q.todo[1].card = c /\ q.todo[1].card \in live
      BY <1>1, <1>7
    <3>2. \E l, b : /\ l \in Listings(q.todo[1].card) /\ b \in Seq(Task)
                    /\ DOMAIN b = DOMAIN l
                    /\ \A i \in DOMAIN l : b[i] = DeleteCall(l[i])
                    /\ req' = [req EXCEPT ![r] = [q EXCEPT
                         !.todo = b \o <<RemoveCall(q.todo[1].card)>> \o Tail(q.todo)]]
      BY <3>1, ListToDeleteIs
    <3>3. QED
      BY <3>1, <3>2
  <2>2. PICK a : a = b \o <<RemoveCall(c)>>
    OBVIOUS
  <2>3. PICK w : w = a \o Tail(todo)
    OBVIOUS
  <2>4. PICK s : s = [q EXCEPT !.todo = w]
    OBVIOUS
  <2>5. req' = [req EXCEPT ![r] = s] /\ s.at = "walk" /\ s.todo = w
    BY <1>1, <1>2, <1>3, <2>1, <2>2, <2>3, <2>4 DEF ReqState
  <2>6. /\ DOMAIN l = 1 .. Len(l) /\ Len(l) \in Nat
        /\ \A x \in SubCards(c) : \E i \in DOMAIN l : l[i] = x
    <3>1. l \in Seq(SubCards(c))
      BY <1>2, <2>1, ListingFacts
    <3>2. QED
      BY <1>2, <2>1, <3>1, ListingFacts, LenProperties
  <2>7. /\ a \in Seq(Task) /\ Len(a) = Len(l) + 1 /\ DOMAIN a = 1 .. Len(a)
        /\ \A i \in DOMAIN l : a[i] = b[i]
        /\ a[Len(l) + 1] = RemoveCall(c)
    <3>1. RemoveCall(c) \in Task
      BY <1>4 DEF RemoveCall, Task
    <3>2. <<RemoveCall(c)>> \in Seq(Task) /\ Len(<<RemoveCall(c)>>) = 1
          /\ <<RemoveCall(c)>>[1] = RemoveCall(c)
      BY <3>1
    <3>3. Len(b) = Len(l) /\ DOMAIN b = 1 .. Len(b)
      BY <2>1, <2>6, LenProperties
    <3>4. /\ a \in Seq(Task) /\ Len(a) = Len(b) + Len(<<RemoveCall(c)>>)
          /\ \A i \in 1 .. Len(a) : a[i] = IF i <= Len(b) THEN b[i]
                                           ELSE <<RemoveCall(c)>>[i - Len(b)]
      BY <2>1, <2>2, <3>2, ConcatProperties
    <3>5. DOMAIN a = 1 .. Len(a)
      BY <3>4, LenProperties
    <3>6. QED
      BY <2>6, <3>2, <3>3, <3>4, <3>5
  <2>8. /\ \A i \in DOMAIN a : i \in DOMAIN w /\ w[i] = a[i]
        /\ \A j \in DOMAIN todo : j # 1 =>
             j + Len(a) - 1 \in DOMAIN w /\ w[j + Len(a) - 1] = todo[j]
        /\ \A i \in DOMAIN w :
             \/ i \in DOMAIN a /\ w[i] = a[i]
             \/ \E j \in DOMAIN todo : j # 1 /\ i = j + Len(a) - 1 /\ w[i] = todo[j]
    <3>1. todo \in Seq(Task) /\ todo # <<>> /\ a \in Seq(Task) /\ w = a \o Tail(todo)
      BY <1>3, <1>4, <2>3, <2>7
    <3>2. InPlace(todo, a, w)
      BY <3>1, CallsLeft
    <3>3. QED
      BY <3>2 DEF InPlace
  <2>9. /\ \A i \in DOMAIN l : a[i].do = "delete" /\ a[i].card = l[i]
        /\ a[Len(a)].do = "remove" /\ a[Len(a)].card = c
        /\ \A i \in DOMAIN a : i \in DOMAIN l \/ i = Len(a)
    BY <2>1, <2>6, <2>7 DEF DeleteCall, RemoveCall
  <2>10. /\ \A i \in DOMAIN todo : ~MoveTask(todo[i])
         /\ \A i \in DOMAIN todo : todo[i].do = "remove" =>
              \A x \in SubCards(todo[i].card) :
                 \E j \in DOMAIN todo : j < i /\ todo[j].card = x
    BY <1>1, <1>4 DEF DeletesLeft
  <2>11. \A i \in DOMAIN w : ~MoveTask(w[i])
    BY <2>8, <2>9, <2>10 DEF MoveTask
  <2>12. ASSUME NEW i \in DOMAIN w, w[i].do = "remove", NEW x \in SubCards(w[i].card)
         PROVE  \E j \in DOMAIN w : j < i /\ w[j].card = x
    <3>1. CASE i \in DOMAIN a /\ w[i] = a[i]
      <4>1. i = Len(a) /\ w[i].card = c
        BY <2>9, <2>12, <3>1
      <4>2. PICK j \in DOMAIN l : l[j] = x
        BY <2>6, <2>12, <4>1
      <4>3. j \in DOMAIN a /\ j < i
        BY <2>6, <2>7, <4>1, <4>2
      <4>4. QED
        BY <2>8, <2>9, <4>2, <4>3
    <3>2. CASE \E k \in DOMAIN todo : k # 1 /\ i = k + Len(a) - 1 /\ w[i] = todo[k]
      <4>1. PICK k \in DOMAIN todo : k # 1 /\ i = k + Len(a) - 1 /\ w[i] = todo[k]
        BY <3>2
      <4>2. PICK j \in DOMAIN todo : j < k /\ todo[j].card = x
        BY <2>10, <2>12, <4>1
      <4>3. DOMAIN todo = 1 .. Len(todo) /\ Len(todo) \in Nat
        BY <1>4, LenProperties
      <4>4. CASE j = 1
        <5>1. x = c /\ Len(a) \in DOMAIN a /\ Len(a) < i
          BY <1>4, <2>6, <2>7, <4>1, <4>2, <4>3, <4>4
        <5>2. QED
          BY <2>8, <2>9, <5>1
      <4>5. CASE j # 1
        <5>1. j + Len(a) - 1 \in DOMAIN w /\ w[j + Len(a) - 1] = todo[j]
          BY <2>8, <4>5
        <5>2. j + Len(a) - 1 < i
          BY <2>6, <2>7, <4>1, <4>2, <4>3
        <5>3. QED
          BY <4>2, <5>1, <5>2
      <4>6. QED
        BY <4>4, <4>5
    <3>3. QED
      BY <2>8, <3>1, <3>2
  <2>13. DeletesLeft(s)
    BY <2>5, <2>11, <2>12 DEF DeletesLeft
  <2>14. AtItsPlace(s)
    BY <2>5, <2>13 DEF AtItsPlace
  <2>15. Owed(s) = {}
    BY <2>5, <2>11, NothingOwed
  <2>16. QED
    BY <1>3, <1>5, <2>5, <2>14, <2>15, QuietFollows
<1>8. QED
  BY <1>6, <1>7

(* The last row of a delete call: the contract deletes one card.           *)
LEMMA SoloRemoves ==
    ASSUME NEW r \in Requests, NEW q, Solo(r, q), RemoveRow(r)
    PROVE  \E s : Follows(r, s)
<1>1. PICK c, todo, w : c = q.todo[1].card /\ todo = q.todo /\ w = Tail(q.todo)
  OBVIOUS
<1>2. PICK s : s = [q EXCEPT !.todo = w]
  OBVIOUS
<1>3. /\ q = req[r] /\ q \in ReqState /\ TypeOK /\ NoCycle
      /\ live \subseteq Cards /\ parent \in [Cards -> Cards \cup {Board}]
  BY SoloFacts
<1>4. q.at = "walk" /\ todo # <<>> /\ Head(todo).do = "remove"
  BY <1>1, <1>3 DEF RemoveRow, Next1
<1>5. /\ todo \in Seq(Task) /\ 1 \in DOMAIN todo /\ todo[1].card = c /\ todo[1].do = "remove"
      /\ Head(todo) = todo[1] /\ c \in Cards
      /\ DeletesLeft(q)
  BY <1>1, <1>4, WalkFacts
<1>6. /\ live' = IF c \in live THEN live \ ({c} \cup SubCards(c)) ELSE live
      /\ req' = [req EXCEPT ![r] = s]
      /\ known' = known /\ parent' = parent /\ depth' = depth
  BY <1>1, <1>2, <1>3, <1>5 DEF RemoveRow, Goto
<1>7. s.at = "walk" /\ s.todo = w
  BY <1>2, <1>3, <1>4 DEF ReqState
<1>8. /\ DOMAIN todo = 1 .. Len(todo) /\ Len(todo) \in Nat
      /\ \A i \in DOMAIN w : i \in Nat /\ i # 0 /\ i + 1 \in DOMAIN todo /\ w[i] = todo[i + 1]
      /\ \A j \in DOMAIN todo : j # 1 => j - 1 \in DOMAIN w /\ w[j - 1] = todo[j]
  <2>1. DOMAIN todo = 1 .. Len(todo) /\ Len(todo) \in Nat
    BY <1>5, LenProperties
  <2>2. /\ w \in Seq(Task) /\ Len(w) = Len(todo) - 1
        /\ \A i \in 1 .. Len(w) : w[i] = todo[i + 1]
    BY <1>1, <1>4, <1>5, <2>1, HeadTailProperties
  <2>3. DOMAIN w = 1 .. Len(w)
    BY <2>2, LenProperties
  <2>4. \A j \in DOMAIN todo : j # 1 => j - 1 \in 1 .. Len(w) /\ (j - 1) + 1 = j
    BY <2>1, <2>2
  <2>5. QED
    BY <2>1, <2>2, <2>3, <2>4
<1>9. /\ \A i \in DOMAIN todo : ~MoveTask(todo[i])
      /\ \A i \in DOMAIN todo : todo[i].do = "remove" =>
           \A x \in SubCards(todo[i].card) :
              \E j \in DOMAIN todo : j < i /\ todo[j].card = x
  BY <1>1, <1>5 DEF DeletesLeft
<1>10. SubCards(c) = {}
  <2>1. ASSUME NEW x \in SubCards(c) PROVE FALSE
    <3>1. PICK j \in DOMAIN todo : j < 1
      BY <1>5, <1>9, <2>1
    <3>2. QED
      BY <1>8, <3>1
  <2>2. QED
    BY <2>1
<1>11. live' = live \ {c}
  BY <1>6, <1>10
<1>12. AtItsPlace(s)'
  <2>1. \A i \in DOMAIN w : ~MoveTask(w[i])
    BY <1>8, <1>9
  <2>2. ASSUME NEW i \in DOMAIN w, w[i].do = "remove", NEW x \in SubCards(w[i].card)'
        PROVE  \E j \in DOMAIN w : j < i /\ w[j].card = x
    <3>1. x # c /\ x \in SubCards(todo[i + 1].card)
      BY <1>6, <1>8, <1>11, <2>2 DEF SubCards
    <3>2. PICK j \in DOMAIN todo : j < i + 1 /\ todo[j].card = x
      BY <1>8, <1>9, <2>2, <3>1
    <3>3. j # 1
      BY <1>5, <3>1, <3>2
    <3>4. j - 1 \in DOMAIN w /\ w[j - 1] = todo[j]
      BY <1>8, <3>3
    <3>5. j - 1 < i
      BY <1>8, <3>2
    <3>6. QED
      BY <3>2, <3>4, <3>5
  <2>3. DeletesLeft(s)'
    BY <1>7, <2>1, <2>2 DEF DeletesLeft
  <2>4. QED
    BY <1>7, <2>3 DEF AtItsPlace
<1>13. SettledDepth = depth
  <2>1. Owed(q) = {}
    BY <1>1, <1>4, <1>9, NothingOwed
  <2>2. QED
    BY <1>3, <2>1, SettledIsDepth DEF Solo
<1>14. Settled(s)' = depth
  <2>1. \A i \in DOMAIN w : ~MoveTask(w[i])
    BY <1>8, <1>9
  <2>2. OwedByAll(w)' = {}
    BY <2>1 DEF OwedByAll, OwedBy, ToSet, MoveTask
  <2>3. Owed(s)' = {}
    BY <1>7, <2>2 DEF Owed, BeforeMove
  <2>4. Settled(s)' = [x \in Cards |-> depth[x]]
    BY <1>6, <2>3 DEF Settled
  <2>5. QED
    BY <1>3, <2>4 DEF TypeOK
<1>15. ASSUME SettledDepth' = Settled(s)'
       PROVE  [Contract!Next]_(Contract!vars)
  <2>1. SettledDepth' = SettledDepth
    BY <1>13, <1>14, <1>15
  <2>2. CASE c \notin live
    BY <1>6, <2>1, <2>2 DEF Contract!vars
  <2>3. CASE c \in live
    <3>1. {c} \subseteq Subtree(c)
      BY <1>3, <1>5, SubtreeClosed
    <3>2. ClosedDownward({c})
      BY <1>10 DEF ClosedDownward, SubCards
    <3>3. ~OwnAncestor(c)
      BY <1>3, <2>3 DEF NoCycle
    <3>4. Contract!DeleteBlock(c, {c})
      BY <1>6, <1>11, <2>1, <2>3, <3>1, <3>2, <3>3, ContractWalks DEF Contract!DeleteBlock
    <3>5. {c} \in SUBSET Cards
      BY <1>5
    <3>6. QED
      BY <1>5, <3>4, <3>5 DEF Contract!Next
  <2>4. QED
    BY <2>2, <2>3
<1>16. QED
  BY <1>6, <1>12, <1>15 DEF Follows

LEMMA SoloSteps ==
    ASSUME NEW r \in Requests, NEW q, Solo(r, q), Step(r)
    PROVE  \E s : Follows(r, s)
<1>1. CASE CreateCardRequest(r) \/ InsertSubCard(r)
  BY <1>1, SoloCreates
<1>2. ASSUME NEW c \in Cards, NEW p \in Cards,
             \/ CreateSubCardRequest(r, p)
             \/ LinkRequest(r, c, p)
             \/ UnlinkRequest(r, c)
             \/ DeleteRequest(r, c)
      PROVE  \E s : Follows(r, s)
  BY <1>2, SoloStarts
<1>3. CASE LinkChecks(r) \/ ReadRow(r) \/ ReadBack(r) \/ Return(r)
  BY <1>3, SoloReads
<1>4. CASE WriteRow(r)
  BY <1>4, SoloMoves, SoloShifts
<1>5. CASE ListToPatch(r)
  BY <1>5, SoloListsToPatch
<1>6. CASE PatchSubCard(r)
  BY <1>6, SoloPatchesSubCard
<1>7. CASE ListToDelete(r)
  BY <1>7, SoloListsToDelete
<1>8. CASE RemoveRow(r)
  BY <1>8, SoloRemoves
<1>9. QED
  BY <1>1, <1>2, <1>3, <1>4, <1>5, <1>6, <1>7, <1>8 DEF Step

(* The request under way is the one that is not idle.                      *)
LEMMA TheOneUnderway ==
    ASSUME NEW f, NEW r \in Requests, \A o \in Requests \ {r} : f[o].at = "idle"
    PROVE  /\ f[r].at = "idle" => \A o \in Requests : f[o].at = "idle"
           /\ f[r].at # "idle" => /\ ~ \A o \in Requests : f[o].at = "idle"
                                  /\ (CHOOSE o \in Requests : f[o].at # "idle") = r
OBVIOUS

LEMMA SettledNow ==
    ASSUME NEW r \in Requests, NEW q, q = req[r], AtItsPlace(q),
           \A o \in Requests \ {r} : req[o].at = "idle"
    PROVE  SettledDepth = Settled(q)
<1>1. CASE q.at = "idle"
  <2>1. Underway = Idle
    BY <1>1, TheOneUnderway DEF Underway
  <2>2. Owed(Idle) = {} /\ Owed(q) = {}
    BY <1>1, IdlePlace, NoCalls DEF AtItsPlace
  <2>3. QED
    BY <2>1, <2>2 DEF SettledDepth, Settled
<1>2. CASE q.at # "idle"
  <2>1. Underway = q
    BY <1>2, TheOneUnderway DEF Underway
  <2>2. QED
    BY <2>1 DEF SettledDepth
<1>3. QED
  BY <1>1, <1>2

LEMMA UnderwayNext ==
    ASSUME NEW u, u = Underway'
    PROVE  SettledDepth' = Settled(u)'
BY DEF SettledDepth, Settled, Owed, OwedByAll, OwedBy, ToSet, BeforeMove

LEMMA SettledNext ==
    ASSUME NEW r \in Requests, NEW s, s = req'[r], AtItsPlace(s)',
           \A o \in Requests \ {r} : req'[o].at = "idle"
    PROVE  SettledDepth' = Settled(s)'
<1>1. CASE s.at = "idle"
  <2>1. Underway' = Idle
    BY <1>1, TheOneUnderway DEF Underway
  <2>2. Owed(Idle)' = {} /\ Owed(s)' = {}
    BY <1>1, IdleFacts DEF AtItsPlace, Owed, OwedByAll, ToSet, BeforeMove
  <2>3. SettledDepth' = Settled(Idle)'
    BY <2>1, UnderwayNext
  <2>4. QED
    BY <2>2, <2>3 DEF Settled
<1>2. CASE s.at # "idle"
  <2>1. Underway' = s
    BY <1>2, TheOneUnderway DEF Underway
  <2>2. QED
    BY <2>1, UnderwayNext
<1>3. QED
  BY <1>1, <1>2

LEMMA StepSolo ==
    ASSUME LoopInv, SoloInv, ReqNext, alone'
    PROVE  SoloInv' /\ [Contract!Next]_(Contract!vars)
<1>1. PICK r \in Requests : Step(r) /\ alone /\ OthersIdle(r)
  BY DEF ReqNext
<1>2. PICK q : q = req[r] /\ AtItsPlace(q)
  BY <1>1 DEF SoloInv
<1>3. Solo(r, q)
  <2>1. ReqTypeOK /\ HandInv /\ \E rank : Ranked(rank)
    BY <1>1 DEF LoopInv
  <2>2. q \in ReqState /\ InHand(q, known)
    BY <1>2, <2>1, RequestFacts
  <2>3. SettledDepth = Settled(q)
    BY <1>1, <1>2, SettledNow DEF OthersIdle
  <2>4. QED
    BY <1>2, <2>1, <2>2, <2>3 DEF Solo
<1>4. PICK s : Follows(r, s)
  BY <1>1, <1>3, SoloSteps
<1>5. req'[r] = s /\ \A o \in Requests \ {r} : req'[o] = req[o] /\ req[o].at = "idle"
  BY <1>1, <1>3, <1>4 DEF Follows, Solo, ReqTypeOK, OthersIdle
<1>6. SoloInv'
  <2>1. ASSUME NEW o \in Requests \ {r} PROVE \E p : p = req'[o] /\ AtItsPlace(p)'
    <3>1. PICK p : p = req[o] /\ AtItsPlace(p)
      BY <1>1 DEF SoloInv
    <3>2. p.at = "idle" /\ p = req'[o]
      BY <1>5, <3>1
    <3>3. AtItsPlace(p)'
      BY <3>1, <3>2 DEF AtItsPlace
    <3>4. QED
      BY <3>2, <3>3
  <2>2. AtItsPlace(s)'
    BY <1>4 DEF Follows
  <2>3. \A o \in Requests : \E p : p = req'[o] /\ AtItsPlace(p)'
    BY <1>5, <2>1, <2>2
  <2>4. QED
    BY <2>3 DEF SoloInv
<1>7. SettledDepth' = Settled(s)'
  BY <1>4, <1>5, SettledNext DEF Follows
<1>8. QED
  BY <1>4, <1>6, <1>7 DEF Follows

LEMMA InitSolo ==
    ReqInit => SoloInv /\ Contract!Init
<1>1. SUFFICES ASSUME ReqInit PROVE SoloInv /\ Contract!Init
  OBVIOUS
<1>2. Init /\ \A r \in Requests : req[r] = Idle
  BY <1>1 DEF ReqInit
<1>3. SoloInv
  BY <1>2, IdlePlace DEF SoloInv
<1>4. SettledDepth = depth
  <2>1. Underway = Idle
    BY <1>2, IdleFacts DEF Underway
  <2>2. TypeOK
    BY <1>2 DEF Init, TypeOK
  <2>3. QED
    BY <2>1, <2>2, IdlePlace, SettledIsDepth DEF SettledDepth
<1>5. Contract!Init
  BY <1>2, <1>4 DEF Contract!Init, Init
<1>6. QED
  BY <1>3, <1>5

LEMMA StutterSolo ==
    ASSUME SoloInv, UNCHANGED reqVars
    PROVE  SoloInv' /\ UNCHANGED Contract!vars
<1>1. UNCHANGED vars /\ req' = req /\ alone' = alone
  BY DEF reqVars
<1>2. SoloInv'
  <2>1. ASSUME alone, NEW r \in Requests PROVE \E p : p = req'[r] /\ AtItsPlace(p)'
    <3>1. PICK p : p = req[r] /\ AtItsPlace(p)
      BY <2>1 DEF SoloInv
    <3>2. AtItsPlace(p)'
      BY <1>1, <3>1, SamePlace
    <3>3. QED
      BY <1>1, <3>1, <3>2
  <2>2. QED
    BY <1>1, <2>1 DEF SoloInv
<1>3. SettledDepth' = SettledDepth
  <2>1. PICK u : u = Underway
    OBVIOUS
  <2>2. u = Underway'
    BY <1>1, <2>1 DEF Underway
  <2>3. Settled(u)' = Settled(u)
    BY <1>1, SamePlace
  <2>4. QED
    BY <2>1, <2>2, <2>3, UnderwayNext DEF SettledDepth
<1>4. QED
  BY <1>1, <1>2, <1>3 DEF Contract!vars, vars

(* What CardTreeRequests promises: requests that do not overlap and do not *)
(* fail do, store call by store call, what the handlers of CardTree do in  *)
(* one step each.                                                          *)
THEOREM RequestsImplementContract == ReqSpec => ImplementsContract
<1>1. ReqInit => LoopInv /\ SoloInv /\ Contract!Init
  BY InitLoopInv, InitSolo
<1>2. LoopInv /\ SoloInv /\ [ReqNext]_reqVars => LoopInv' /\ SoloInv'
  <2>1. SUFFICES ASSUME LoopInv, SoloInv, [ReqNext]_reqVars
                 PROVE  LoopInv' /\ SoloInv'
    OBVIOUS
  <2>2. LoopInv'
    BY <2>1, StepLoopInv, StutterLoopInv
  <2>3. SoloInv'
    <3>1. CASE ReqNext /\ alone'
      BY <2>1, <3>1, StepSolo
    <3>2. CASE ~alone'
      BY <3>2 DEF SoloInv
    <3>3. CASE UNCHANGED reqVars
      BY <2>1, <3>3, StutterSolo
    <3>4. QED
      BY <2>1, <3>1, <3>2, <3>3
  <2>4. QED
    BY <2>2, <2>3
<1>3. LoopInv /\ SoloInv /\ [ReqNext]_reqVars => [alone' => Contract!Next]_(Contract!vars)
  <2>1. SUFFICES ASSUME LoopInv, SoloInv, [ReqNext]_reqVars, alone'
                 PROVE  [Contract!Next]_(Contract!vars)
    OBVIOUS
  <2>2. CASE ReqNext
    BY <2>1, <2>2, StepSolo
  <2>3. CASE UNCHANGED reqVars
    BY <2>1, <2>3, StutterSolo
  <2>4. QED
    BY <2>1, <2>2, <2>3
<1>4. QED
  BY <1>1, <1>2, <1>3, PTL DEF ReqSpec, ImplementsContract
=============================================================================
