------------------------------ MODULE CardTree ------------------------------
(***************************************************************************)
(* What the sub-card handlers of server/app/cards.go and the delete        *)
(* cascade of server/app/blocks.go promise: the tree of the cards of one   *)
(* board when every request runs alone, each handler one action.           *)
(*                                                                         *)
(* CardTreeRequests is the same code one store call at a time, with        *)
(* requests that overlap; alone, its requests implement this module.       *)
(*                                                                         *)
(* A row of the blocks table is a member of live.  The newest row of       *)
(* blocks_history repeats what the last write stored, so parent and depth  *)
(* of a card that is known but not live are what a restore brings back.    *)
(* Content blocks, property values and permissions are left out: no        *)
(* property below tells them apart.                                        *)
(***************************************************************************)
EXTENDS Integers

CONSTANTS Cards,         \* the ids utils.NewID may hand out
          Board,         \* the board the cards are on
          MaxCardDepth,  \* model.MaxCardDepth
          DepthBound     \* bound: how far stored depths may drift in a run with restores

ASSUME BoardAssumption == Board \notin Cards
ASSUME DepthAssumption == MaxCardDepth \in Nat /\ DepthBound \in Nat

VARIABLES known,    \* ids with a row in blocks_history
          live,     \* ids with a row in blocks
          parent,   \* parent_id: a card, or the board for a top-level card
          depth     \* fields.depth

vars == <<known, live, parent, depth>>

TypeOK ==
    /\ known \in SUBSET Cards
    /\ live \in SUBSET known
    /\ parent \in [Cards -> Cards \cup {Board}]
    /\ depth \in [Cards -> Int]

Init ==
    /\ known = {}
    /\ live = {}
    /\ parent = [c \in Cards |-> Board]
    /\ depth = [c \in Cards |-> 0]

-----------------------------------------------------------------------------
(* The walks over the tree.  A walk up stops at a card that is not live    *)
(* (GetCardByID fails); a walk down follows GetSubCards, which lists live  *)
(* rows only.                                                              *)

ClosedUpward(S) ==
    \A x \in S : x \in live /\ parent[x] \in Cards => parent[x] \in S

ClosedDownward(S) ==
    \A x \in live : parent[x] \in S => x \in S

\* The cards checkCircularReference visits from c, c included.
AncestorsOf(c) ==
    {a \in Cards : \A S \in SUBSET Cards : c \in S /\ ClosedUpward(S) => a \in S}

\* The cards a recursion over GetSubCards visits from c, c included.
Subtree(c) ==
    {x \in Cards : \A S \in SUBSET Cards : c \in S /\ ClosedDownward(S) => x \in S}

\* c hangs, directly or not, under itself: a recursion from c never returns.
OwnAncestor(c) ==
    c \in live /\ parent[c] \in Cards /\ c \in AncestorsOf(parent[c])

-----------------------------------------------------------------------------
\* Mutant of CreateCard: the insert without its row in the history.
CreateCardNoHistory(x) ==
    /\ x \notin known
    /\ live' = live \cup {x}
    /\ parent' = [parent EXCEPT ![x] = Board]
    /\ depth' = [depth EXCEPT ![x] = 0]
    /\ UNCHANGED known

CreateCard(x) ==
    /\ x \notin known
    /\ known' = known \cup {x}
    /\ live' = live \cup {x}
    /\ parent' = [parent EXCEPT ![x] = Board]
    /\ depth' = [depth EXCEPT ![x] = 0]

CreateSubCard(x, p) ==
    /\ x \notin known
    /\ p \in live
    /\ depth[p] + 1 <= MaxCardDepth
    /\ known' = known \cup {x}
    /\ live' = live \cup {x}
    /\ parent' = [parent EXCEPT ![x] = p]
    /\ depth' = [depth EXCEPT ![x] = depth[p] + 1]

\* updateSubCardsDepth, applied to c itself and to everything below it.
ShiftSubtree(c, delta) ==
    [x \in Cards |-> IF x \in Subtree(c) THEN depth[x] + delta ELSE depth[x]]

\* Mutant of FitsBelow: the depth of the card alone, not of what hangs below it.
FitsAlone(c, newDepth) ==
    newDepth <= MaxCardDepth

\* getMaxSubCardDepth counts levels below c, whatever depths are stored there:
\* newDepth plus the deepest level stays within MaxCardDepth.
FitsBelow(c, newDepth) ==
    \E level \in [Subtree(c) -> 0 .. MaxCardDepth - newDepth] :
        /\ level[c] = 0
        /\ \A x \in live : parent[x] \in Subtree(c) => level[x] = level[parent[x]] + 1

\* Mutant of LinkCardAsSubCard: checkCircularReference looks at the new parent
\* only, not at the cards above it.
LinkUnchecked(c, p) ==
    LET newDepth == depth[p] + 1 IN
    /\ c # p
    /\ c \in live
    /\ p \in live
    /\ depth[c] <= 0
    /\ ~OwnAncestor(c)
    /\ FitsBelow(c, newDepth)
    /\ parent' = [parent EXCEPT ![c] = p]
    /\ depth' = ShiftSubtree(c, newDepth - depth[c])
    /\ UNCHANGED <<known, live>>

LinkCardAsSubCard(c, p) ==
    LET newDepth == depth[p] + 1 IN
    /\ c # p
    /\ c \in live
    /\ p \in live
    /\ depth[c] <= 0
    /\ ~OwnAncestor(c)
    /\ FitsBelow(c, newDepth)
    /\ c \notin AncestorsOf(p)
    /\ parent' = [parent EXCEPT ![c] = p]
    /\ depth' = ShiftSubtree(c, newDepth - depth[c])
    /\ UNCHANGED <<known, live>>

UnlinkSubCard(c) ==
    /\ c \in live
    /\ parent[c] # Board
    /\ depth[c] > 0 => ~OwnAncestor(c)
    /\ parent' = [parent EXCEPT ![c] = Board]
    /\ depth' = IF depth[c] > 0 THEN ShiftSubtree(c, -depth[c])
                ELSE [depth EXCEPT ![c] = 0]
    /\ UNCHANGED <<known, live>>

\* Mutant of DeleteBlock: the cascade from the top, so that a failure half way
\* leaves the lower part behind.
DeleteTopFirst(c, S) ==
    /\ c \in live
    /\ ~OwnAncestor(c)
    /\ S \subseteq Subtree(c)
    /\ c \in S
    /\ live' = live \ S
    /\ UNCHANGED <<known, parent, depth>>

\* The cascade goes deepest first and stops at the first refusal or store
\* error, so what is gone is closed under sub-cards: S is all of the
\* subtree, or the part removed before the failure.
DeleteBlock(c, S) ==
    /\ c \in live
    /\ ~OwnAncestor(c)
    /\ S \subseteq Subtree(c)
    /\ S # {}
    /\ ClosedDownward(S)
    /\ live' = live \ S
    /\ UNCHANGED <<known, parent, depth>>

\* Restores the card and the children deleted while they were under it, one
\* level deep, with the parent and the depth they were deleted with.
UndeleteBlock(c) ==
    /\ c \in known \ live
    /\ live' = live \cup {c} \cup {x \in known \ live : parent[x] = c}
    /\ UNCHANGED <<known, parent, depth>>

Next ==
    \/ \E x \in Cards : CreateCard(x)
    \/ \E x, p \in Cards : CreateSubCard(x, p)
    \/ \E c, p \in Cards : LinkCardAsSubCard(c, p)
    \/ \E c \in Cards : UnlinkSubCard(c)
    \/ \E c \in Cards : \E S \in SUBSET Cards : DeleteBlock(c, S)

Spec == Init /\ [][Next]_vars

\* A restored card keeps a depth its ancestors may have left since, and every
\* later link and unlink shifts it further: DepthBound keeps the states finite.
NextWithRestore ==
    /\ Next \/ \E c \in Cards : UndeleteBlock(c)
    /\ \A c \in Cards : depth'[c] \in -DepthBound .. DepthBound

SpecWithRestore == Init /\ [][NextWithRestore]_vars

-----------------------------------------------------------------------------
(* A card never outlives the card it hangs under: the order of the delete  *)
(* cascade (deleteSubCards, "the tree never passes through a state where a *)
(* surviving card points at a deleted parent").                            *)
NoDanglingParent ==
    \A c \in live : parent[c] \in Cards => parent[c] \in live

(* The stored depth, which every depth check reads instead of walking up,  *)
(* is the level of the card in the tree.                                   *)
DepthIsLevel ==
    \A c \in live :
        /\ parent[c] = Board => depth[c] = 0
        /\ parent[c] \in live => depth[c] = depth[parent[c]] + 1

(* No sequence of links nests cards deeper than model.MaxCardDepth.        *)
DepthWithinMax ==
    \A c \in live : depth[c] \in 0 .. MaxCardDepth

(* What the checks of a link rely on and keep: depths are right.           *)
DepthsRight == DepthIsLevel /\ DepthWithinMax

(* No card is its own ancestor, so every recursion over sub-cards ends     *)
(* (deleteSubCards, "Cycles cannot occur").                                *)
NoCycle ==
    \A c \in live : ~OwnAncestor(c)

(* Whatever was restored before, no request takes a card away from under a *)
(* card that survives it (the cascade of deleteBlockUnchecked).            *)
NeverOrphans ==
    [][\A c \in live : parent[c] \in live /\ c \in live' /\ parent'[c] = parent[c]
            => parent[c] \in live']_vars
=============================================================================
