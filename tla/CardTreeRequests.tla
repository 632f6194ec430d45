-------------------------- MODULE CardTreeRequests --------------------------
(***************************************************************************)
(* The sub-card handlers of server/app/cards.go and the delete cascade of  *)
(* server/app/blocks.go, one store call at a time, for requests that run   *)
(* at the same time on one or several nodes.                               *)
(*                                                                         *)
(* No handler holds a lock or a transaction over more than one store call. *)
(* A write of a row (Store.PatchBlock) is two steps: the transaction reads *)
(* the row, applies the patch to the copy and writes the whole copy back,  *)
(* under the database's default isolation (read committed on PostgreSQL).  *)
(* A delete of one row with the rows right under it is one step.  Restores *)
(* need no interleaving to do harm, and stay with CardTree.                *)
(* The table and the walks over it are those of CardTree, whose actions    *)
(* are what a request does when nothing disturbs it.                       *)
(* Reads that follow each other with no write of the same request between  *)
(* them are merged into one step; that hides interleavings, it invents     *)
(* none.                                                                   *)
(***************************************************************************)
EXTENDS CardTree, FiniteSets, SequencesExt

CONSTANTS Requests,   \* HTTP requests in flight at the same time
          Allowed,    \* Allowed[r]: the operations request r may carry
          MayFail,    \* whose store calls or permission gates may refuse half way
          Nothing     \* in a patch, leaves parent_id alone (CardPatch.ParentCardID = nil)

ASSUME RequestsAssumption ==
    /\ Nothing \notin Cards \cup {Board}
    /\ MayFail \subseteq Requests
    /\ Allowed \in [Requests -> SUBSET {"create", "subcard", "link", "unlink",
                                        "delete"}]

VARIABLES req,    \* where each request is
          alone   \* no request has overlapped with another so far, and none has failed

reqVars == <<vars, req, alone>>

\* What is left of a recursion: the calls still to make, innermost first.
Task == [do : {"patch", "expand", "delete", "remove"}, card : Cards, depth : Int]

PatchCall(c, d) == [do |-> "patch", card |-> c, depth |-> d]
ExpandCall(c) == [do |-> "expand", card |-> c, depth |-> 0]
DeleteCall(c) == [do |-> "delete", card |-> c, depth |-> 0]
RemoveCall(c) == [do |-> "remove", card |-> c, depth |-> 0]

\* parent and depth are those of the patch, stored the parent_id of the row read.
Idle == [at |-> "idle", card |-> Nothing, parent |-> Nothing, stored |-> Nothing,
         depth |-> 0, delta |-> 0, todo |-> <<>>]

ReqState ==
    [at : {"idle", "insert", "check", "patch", "write", "reread", "walk"},
     card : Cards \cup {Nothing},
     parent : Cards \cup {Board, Nothing},
     stored : Cards \cup {Board, Nothing},
     depth : Int, delta : Int, todo : Seq(Task)]

ReqTypeOK ==
    /\ TypeOK
    /\ req \in [Requests -> ReqState]
    /\ alone \in BOOLEAN

ReqInit ==
    /\ Init
    /\ req = [r \in Requests |-> Idle]
    /\ alone = TRUE

Goto(r, state) == req' = [req EXCEPT ![r] = state]
Done(r) == Goto(r, Idle)
Starts(r, op) == req[r].at = "idle" /\ op \in Allowed[r]

SubCards(p) == {x \in live : parent[x] = p}

\* The rows GetSubCards lists, in the order the database returns them.
Listings(p) == SetToSeqs(SubCards(p))

-----------------------------------------------------------------------------
(* CreateCard and CreateSubCard: one insert; the parent was read before.   *)

Insert(x, p, d) ==
    /\ x \notin known
    /\ known' = known \cup {x}
    /\ live' = live \cup {x}
    /\ parent' = [parent EXCEPT ![x] = p]
    /\ depth' = [depth EXCEPT ![x] = d]

CreateCardRequest(r) ==
    /\ Starts(r, "create")
    /\ \E x \in Cards : Insert(x, Board, 0)
    /\ UNCHANGED req

CreateSubCardRequest(r, p) ==
    /\ Starts(r, "subcard")
    /\ p \in live
    /\ depth[p] + 1 <= MaxCardDepth
    /\ Goto(r, [Idle EXCEPT !.at = "insert", !.parent = p, !.depth = depth[p] + 1])
    /\ UNCHANGED vars

InsertSubCard(r) ==
    /\ req[r].at = "insert"
    /\ \E x \in Cards : Insert(x, req[r].parent, req[r].depth)
    /\ Done(r)

-----------------------------------------------------------------------------
(* LinkCardAsSubCard and UnlinkSubCard: the checks, then the patch of the  *)
(* card, then one patch for every card below it.                           *)

LinkRequest(r, c, p) ==
    /\ Starts(r, "link")
    /\ c # p
    /\ {c, p} \subseteq live
    /\ ~(depth[c] > 0)
    /\ Goto(r, [Idle EXCEPT !.at = "check", !.card = c, !.parent = p,
                            !.depth = depth[p] + 1,
                            !.delta = depth[p] + 1 - depth[c]])
    /\ UNCHANGED vars

\* Mutant of LinkChecks: no checkCircularReference.
LinkDepthCheck(r) ==
    LET q == req[r]
        below == IF SubCards(q.card) # {} THEN <<ExpandCall(q.card)>> ELSE <<>>
    IN  /\ q.at = "check"
        /\ Goto(r, IF FitsBelow(q.card, q.depth)
                   THEN [q EXCEPT !.at = "patch", !.todo = below] ELSE Idle)
        /\ UNCHANGED vars

LinkChecks(r) ==
    LET q == req[r]
        accepted == FitsBelow(q.card, q.depth) /\ q.card \notin AncestorsOf(q.parent)
        below == IF SubCards(q.card) # {} THEN <<ExpandCall(q.card)>> ELSE <<>>
    IN  /\ q.at = "check"
        /\ Goto(r, IF accepted THEN [q EXCEPT !.at = "patch", !.todo = below] ELSE Idle)
        /\ UNCHANGED vars

UnlinkRequest(r, c) ==
    /\ Starts(r, "unlink")
    /\ c \in live
    /\ parent[c] # Board
    /\ Goto(r, [Idle EXCEPT !.at = "patch", !.card = c, !.parent = Board,
                            !.delta = -depth[c],
                            !.todo = IF depth[c] > 0 THEN <<ExpandCall(c)>> ELSE <<>>])
    /\ UNCHANGED vars

\* patchBlock reads the row and overlays the patch on the copy; a row that is
\* gone ends the handler with an error (for a sub-card: logged, and dropped).
ReadRow(r) ==
    LET q == req[r] IN
    /\ q.at = "patch"
    /\ Goto(r, IF q.card \in live THEN [q EXCEPT !.at = "write", !.stored = parent[q.card]]
               ELSE Idle)
    /\ UNCHANGED vars

\* The parent_id of the patched copy.
PatchedParent(q) == IF q.parent = Nothing THEN q.stored ELSE q.parent

\* insertBlock writes every column of the copy.  A row deleted in the meantime
\* is inserted again, or, deleted after insertBlock looked for it, stays away;
\* the copy goes into the history either way.
WriteRow(r) ==
    LET q == req[r] IN
    /\ q.at = "write"
    /\ live' \in {live, live \cup {q.card}}
    /\ parent' = [parent EXCEPT ![q.card] = PatchedParent(q)]
    /\ depth' = [depth EXCEPT ![q.card] = q.depth]
    /\ Goto(r, [q EXCEPT !.at = "reread", !.parent = Nothing, !.stored = Nothing, !.depth = 0])
    /\ UNCHANGED known

\* PatchBlockAndNotify loads the block it patched; when that fails the handler
\* fails, and the sub-cards keep the depths they have.
ReadBack(r) ==
    LET q == req[r] IN
    /\ q.at = "reread"
    /\ Goto(r, IF q.card \in live THEN [q EXCEPT !.at = "walk", !.card = Nothing] ELSE Idle)
    /\ UNCHANGED vars

-----------------------------------------------------------------------------
(* The recursions updateSubCardsDepth and deleteSubCards.                  *)

Next1(r, do) == req[r].at = "walk" /\ req[r].todo # <<>> /\ Head(req[r].todo).do = do

\* updateSubCardsDepth lists the sub-cards with their depths, patches each, and
\* recurses into it.
ListToPatch(r) ==
    LET q == req[r]
        patches(l) == [i \in DOMAIN l |-> PatchCall(l[i], depth[l[i]] + q.delta)]
    IN  /\ Next1(r, "expand")
        /\ \E l \in Listings(Head(q.todo).card) :
             Goto(r, [q EXCEPT !.todo = patches(l) \o Tail(@)])
        /\ UNCHANGED vars

PatchSubCard(r) ==
    LET q == req[r]
        c == Head(q.todo).card
    IN  /\ Next1(r, "patch")
        /\ Goto(r, [q EXCEPT !.at = "patch", !.card = c, !.depth = Head(q.todo).depth,
                             !.todo = <<ExpandCall(c)>> \o Tail(@)])
        /\ UNCHANGED vars

DeleteRequest(r, c) ==
    /\ Starts(r, "delete")
    /\ c \in live
    /\ Goto(r, [Idle EXCEPT !.at = "walk", !.todo = <<DeleteCall(c)>>])
    /\ UNCHANGED vars

\* Mutant of ListToDelete: the card goes before its sub-cards.
ListToDeleteLast(r) ==
    LET q == req[r]
        c == Head(q.todo).card
        calls(l) == [i \in DOMAIN l |-> DeleteCall(l[i])]
    IN  /\ Next1(r, "delete")
        /\ IF c \in live
           THEN \E l \in Listings(c) :
                  Goto(r, [q EXCEPT !.todo = <<RemoveCall(c)>> \o calls(l) \o Tail(@)])
           ELSE Done(r)
        /\ UNCHANGED vars

\* DeleteBlockAndNotify: a block that is already gone is an error, and ends
\* the whole cascade; else its sub-cards are listed and deleted first.
ListToDelete(r) ==
    LET q == req[r]
        c == Head(q.todo).card
        calls(l) == [i \in DOMAIN l |-> DeleteCall(l[i])]
    IN  /\ Next1(r, "delete")
        /\ IF c \in live
           THEN \E l \in Listings(c) :
                  Goto(r, [q EXCEPT !.todo = calls(l) \o <<RemoveCall(c)>> \o Tail(@)])
           ELSE Done(r)
        /\ UNCHANGED vars

\* Store.DeleteBlock: the row and the rows right under it, or nothing at all
\* when the row is gone.
RemoveRow(r) ==
    LET q == req[r]
        c == Head(q.todo).card
    IN  /\ Next1(r, "remove")
        /\ live' = IF c \in live THEN live \ ({c} \cup SubCards(c)) ELSE live
        /\ Goto(r, [q EXCEPT !.todo = Tail(@)])
        /\ UNCHANGED <<known, parent, depth>>

Return(r) ==
    /\ req[r].at = "walk"
    /\ req[r].todo = <<>>
    /\ Done(r)
    /\ UNCHANGED vars

\* A refusal or a store error: the handler returns (or logs and returns),
\* and what it has written stays.
Fail(r) ==
    /\ r \in MayFail
    /\ req[r].at \in {"check", "patch", "reread", "walk"}
    /\ Done(r)
    /\ UNCHANGED vars

-----------------------------------------------------------------------------
Step(r) ==
    \/ CreateCardRequest(r)
    \/ \E p \in Cards : CreateSubCardRequest(r, p)
    \/ InsertSubCard(r)
    \/ \E c, p \in Cards : LinkRequest(r, c, p)
    \/ LinkChecks(r)
    \/ \E c \in Cards : UnlinkRequest(r, c)
    \/ ReadRow(r)
    \/ WriteRow(r)
    \/ ReadBack(r)
    \/ ListToPatch(r)
    \/ PatchSubCard(r)
    \/ \E c \in Cards : DeleteRequest(r, c)
    \/ ListToDelete(r)
    \/ RemoveRow(r)
    \/ Return(r)

OthersIdle(r) == \A o \in Requests \ {r} : req[o].at = "idle"

ReqNext ==
    \E r \in Requests :
        \/ Step(r) /\ alone' = (alone /\ OthersIdle(r))
        \/ Fail(r) /\ alone' = FALSE

ReqSpec == ReqInit /\ [][ReqNext]_reqVars

-----------------------------------------------------------------------------
(* What the requests add up to, as long as they do not overlap.  A link or *)
(* an unlink takes effect when the row of the card itself is written; from *)
(* then on the cards below it count as shifted, although their rows are    *)
(* written one by one.                                                     *)

\* The request under way, if there is one.
Underway ==
    IF \A r \in Requests : req[r].at = "idle" THEN Idle
    ELSE req[CHOOSE r \in Requests : req[r].at # "idle"]

\* The first patch, the one that moves the card, has still to be written.
BeforeMove(q) == q.at \in {"patch", "write"} /\ q.parent # Nothing

\* The cards whose rows a call, a request in state q, has still to shift.
OwedBy(t) ==
    {x \in Subtree(t.card) : t.do = "patch" \/ (t.do = "expand" /\ x # t.card)}

OwedByAll(todo) == UNION {OwedBy(t) : t \in ToSet(todo)}

Owed(q) ==
    IF BeforeMove(q) THEN {}
    ELSE (IF q.at \in {"patch", "write"} THEN {q.card} ELSE {}) \cup OwedByAll(q.todo)

Settled(q) ==
    [x \in Cards |-> IF x \in Owed(q) THEN depth[x] + q.delta ELSE depth[x]]

SettledDepth == Settled(Underway)

Contract == INSTANCE CardTree WITH depth <- SettledDepth

(* Requests that run one at a time, and do not fail, keep the contract of  *)
(* CardTree at every store call: parents and depths move together, deletes *)
(* take whole subtrees.                                                    *)
ImplementsContract ==
    Contract!Init /\ [][alone' => Contract!Next]_(Contract!vars)
=============================================================================
