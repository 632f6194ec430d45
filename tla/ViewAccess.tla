----------------------------- MODULE ViewAccess -----------------------------
(***************************************************************************)
(* The views of one open board under their access modes: the gate of       *)
(* server/app/view_access.go, the block handlers of server/app/blocks.go   *)
(* as far as they write views, the rows of the store, the callbacks that   *)
(* tell the clients, and the menus of the web client.  BoardMembers says   *)
(* who edits and who manages while requests on members go on.              *)
(*                                                                         *)
(* A request is judged once, on what the store holds then, and writes      *)
(* later: Store.PatchBlock reads the row and writes all of it back, as in  *)
(* CardTreeRequests.  Every posted block gets a fresh id (GenerateBlockIDs *)
(* in handlePostBlocks), so no request reaches the gate's case of a view   *)
(* that is posted again.                                                   *)
(***************************************************************************)
EXTENDS BoardMembers, SequencesExt

CONSTANTS Views,
          FirstViews,  \* the views the board starts with
          Requests,    \* requests on views in flight at the same time
          InOrder,     \* one thread calls back; the code's pool has ten
          Budgets      \* bound: how many requests and page loads there are

Modes == {"everyone", "admin", "private"}

\* What a patch writes: a mode, the card order alone, or anything else.
Changes == Modes \cup {"order", "config"}

NoView == [live |-> FALSE, mode |-> "everyone", by |-> Nobody]

ASSUME ViewsAssumption ==
    /\ IsFiniteSet(Views)
    /\ FirstViews \subseteq Views
    /\ InOrder \in BOOLEAN
    /\ \A b \in Budgets : b.calls \in Nat /\ b.views \in Nat /\ b.loads \in Nat

VARIABLES view,     \* the rows of the views in the blocks table
          last,     \* the newest entry of each in blocks_history
          req,      \* where each request on views is
          queue,    \* blockChangeNotifier: callbacks not yet called
          client,   \* client[u][v]: the copy of v the page of u holds
          excused,  \* what has happened that the properties exempt
          left      \* bound: requests and page loads not yet made

viewVars == <<view, last, req, queue, client, excused>>
vars == <<memberVars, viewVars, left>>

Row == [live : BOOLEAN, mode : Modes, by : Users \cup {Nobody}]
Entry == [gone : BOOLEAN, mode : Modes, by : Users \cup {Nobody}]
Copies == [mode : Modes, by : Users]

\* A request on views and where it is.
Request == [at : {"idle", "read", "write", "tell", "batch", "insert", "copy", "clear",
                  "delete", "told", "restore"},
            user : Users \cup {Nobody}, ids : Seq(Views), change : Changes,
            before : Seq(Row), row : Row, crossed : BOOLEAN]

\* What a callback is called with.
News == [kind : {"changed", "deleted", "batch"}, ids : Seq(Views),
         before : Seq(Row), after : Row]

\* No copy: the page does not hold the view.
Absent == [mode |-> "everyone", by |-> Nobody]

NoReq == [at |-> "idle", user |-> Nobody, ids |-> <<>>, change |-> "config",
          before |-> <<>>, row |-> NoView, crossed |-> FALSE]

Excuses == {"stale", "crossed", "batch", "by position", "cut short", "told late",
            "untold", "half done"}

ViewsTypeOK ==
    /\ view \in [Views -> Row]
    /\ last \in [Views -> Entry]
    /\ req \in [Requests -> Request]
    /\ queue \in Seq(News)
    /\ client \in [Users -> [Views -> Copies \cup {Absent}]]
    /\ excused \subseteq Excuses

TypeOK == MembersTypeOK /\ ViewsTypeOK

Live == {v \in Views : view[v].live}

\* A private view is heard about by its creator alone (FilterBlockRecipients).
Hears(u, row) == row.mode = "private" => u = row.by

\* GetBlocks as FilterVisibleViews leaves it: no private view of another user.
PageOf(u) ==
    [v \in Views |-> IF v \in Live /\ Hears(u, view[v])
                     THEN [mode |-> view[v].mode, by |-> view[v].by]
                     ELSE Absent]

\* The board as earlier requests have left it, and every page just opened.
Init ==
    /\ MembersInit
    /\ \E mode \in [FirstViews -> Modes] :
         /\ \E v \in FirstViews : mode[v] # "private"
         /\ view = [v \in Views |-> IF v \in FirstViews
                                    THEN [live |-> TRUE, mode |-> mode[v], by |-> Creator]
                                    ELSE NoView]
    /\ last = [v \in Views |-> [gone |-> FALSE, mode |-> view[v].mode, by |-> view[v].by]]
    /\ req = [r \in Requests |-> NoReq]
    /\ queue = <<>>
    /\ client = [u \in Users |-> PageOf(u)]
    /\ excused = {}
    /\ left \in Budgets

-----------------------------------------------------------------------------
(* The gate.                                                               *)

Shared == {v \in Live : view[v].mode # "private"}

\* requireNotLastSharedView refuses.
LastShared(v) == Shared = {v}

\* Stage one: may u touch a view in the mode it has?
MayTouch(u, stored, op) ==
    /\ stored.mode = "admin" => op \in {"order", "duplicate"} \/ Manages(u)
    /\ stored.mode = "private" => stored.by = u

\* Stage two: may u move it to the mode the patch asks for?
MayMove(u, v, stored, change) ==
    change \in Modes \ {stored.mode} =>
      /\ change = "admin" => Manages(u)
      /\ change = "private" => stored.by = u /\ ~LastShared(v)

MayPatch(u, v, stored, change) ==
    MayTouch(u, stored, change) /\ MayMove(u, v, stored, change)

\* Mutant of MayDelete: no stage three.
MayDeleteAny(u, v, stored) == MayTouch(u, stored, "delete")

\* Stage three: the board keeps a view the others can see.
MayDelete(u, v, stored) ==
    /\ MayTouch(u, stored, "delete")
    /\ stored.mode # "private" => ~LastShared(v)

-----------------------------------------------------------------------------
(* The requests and what they write.                                       *)

Starts(r, u) == req[r].at = "idle" /\ CanEdit(u)

Begin(r, u, at, ids, change, before) ==
    /\ req' = [req EXCEPT ![r] = [NoReq EXCEPT !.at = at, !.user = u, !.ids = ids,
                                    !.change = change, !.before = before]]
    /\ UNCHANGED <<view, last, queue, client, excused>>

Goto(r, at) == req' = [req EXCEPT ![r].at = at]
Done(r) == req' = [req EXCEPT ![r] = NoReq]

\* A patch of the mode sets it; any other patch writes back what was read.
Overlay(row, change) == IF change \in Modes THEN [row EXCEPT !.mode = change] ELSE row

\* The rows become `after`; the other requests that were let through on the
\* strength of more shared views than remain are crossed.
Store(r, after, at) ==
    LET Left(v) == v \in Shared /\ ~(after[v].live /\ after[v].mode # "private")
        takes == \E v \in Views : Left(v)
    IN  /\ view' = after
        /\ req' = [x \in Requests |->
                     IF x = r THEN (IF at = "idle" THEN NoReq ELSE [req[r] EXCEPT !.at = at])
                     ELSE IF req[x].at = "idle" THEN req[x]
                     ELSE [req[x] EXCEPT !.crossed = @ \/ takes]]

Loses(after) == \E v \in Shared : ~after[v].live \/ after[v].mode = "private"

Excuse(what) == excused' = excused \cup what
When(condition, name) == IF condition THEN {name} ELSE {}

Entered(v, gone, row, u) ==
    last' = [last EXCEPT ![v] = [gone |-> gone, mode |-> row.mode, by |-> u]]

-----------------------------------------------------------------------------
(* PatchBlockAndNotify.                                                    *)

PatchView(r, u, v, change) ==
    /\ Starts(r, u)
    /\ v \in Live
    /\ MayPatch(u, v, view[v], change)
    /\ Begin(r, u, "read", <<v>>, change, <<view[v]>>)

ReadRow(r) ==
    LET q == req[r]
        v == q.ids[1]
    IN  /\ q.at = "read"
        /\ IF v \in Live
           THEN req' = [req EXCEPT ![r].at = "write", ![r].row = view[v]]
           ELSE Done(r)
        /\ UNCHANGED <<view, last, queue, client, excused>>

\* insertBlock updates the row, all but its creator.  A row deleted since it
\* was read is inserted as the patching user's own, or, deleted after
\* insertBlock looked for it, stays away.
WriteRow(r) ==
    LET q == req[r]
        v == q.ids[1]
        new == Overlay(q.row, q.change)
        Write(row) ==
            LET after == [view EXCEPT ![v] = row] IN
            /\ Store(r, after, "tell")
            /\ Excuse(When(view[v] # q.row \/ view[v] # q.before[1], "stale")
                      \cup When(q.crossed /\ Loses(after), "crossed"))
    IN  /\ q.at = "write"
        /\ \/ v \in Live /\ Write([view[v] EXCEPT !.mode = new.mode])
           \/ v \notin Live /\ Write([new EXCEPT !.by = q.user])
           \/ v \notin Live /\ Write(view[v])
        /\ Entered(v, FALSE, new, q.user)
        /\ UNCHANGED <<queue, client>>

\* PatchBlockAndNotify and UndeleteBlock load the row again and queue its news.
TellChange(r) ==
    LET q == req[r]
        v == q.ids[1]
        news == [kind |-> "changed", ids |-> <<v>>, before |-> q.before,
                 after |-> view[v]]
    IN  /\ q.at = "tell"
        /\ queue' = IF v \in Live THEN Append(queue, news) ELSE queue
        /\ Excuse(When(v \notin Live, "untold"))
        /\ Done(r)
        /\ UNCHANGED <<view, last, client>>

-----------------------------------------------------------------------------
(* PatchBlocksAndNotify: one transaction; every view is judged on what is  *)
(* stored.  The rows come in the order the database returns them.  The     *)
(* patches of a batch are alike here.                                      *)

PatchViews(r, u, ids, change) ==
    /\ Starts(r, u)
    /\ ToSet(ids) \subseteq Live
    /\ \A v \in ToSet(ids) : MayPatch(u, v, view[v], change)
    /\ \E order \in {ids, Reverse(ids)} :
         Begin(r, u, "batch", ids, change, [i \in DOMAIN order |-> view[order[i]]])

WriteBatch(r) ==
    LET q == req[r]
        named == ToSet(q.ids)
        after == [v \in Views |->
                    IF v \in named THEN Overlay(view[v], q.change) ELSE view[v]]
        taken == {v \in Shared : after[v].mode = "private"}
        asked == [i \in DOMAIN q.ids |-> view[q.ids[i]]]
        news == [kind |-> "batch", ids |-> q.ids, before |-> q.before, after |-> NoView]
    IN  /\ q.at = "batch"
        /\ IF named \subseteq Live
           THEN /\ Store(r, after, "idle")
                /\ last' = [v \in Views |->
                              IF v \in named
                              THEN [gone |-> FALSE, mode |-> after[v].mode, by |-> q.user]
                              ELSE last[v]]
                /\ queue' = Append(queue, news)
                /\ Excuse(When(q.before \notin {asked, Reverse(asked)}, "stale")
                          \cup When(q.before # asked, "by position")
                          \cup When(q.crossed /\ Loses(after), "crossed")
                          \cup When(Cardinality(taken) > 1, "batch"))
           ELSE Done(r) /\ UNCHANGED <<view, last, queue, excused>>
        /\ UNCHANGED client

-----------------------------------------------------------------------------
(* What the clients are told.                                              *)

\* BroadcastBlockChange of a view that lives; updateViews of the client.
Told(pages, v, row) ==
    [u \in Users |-> IF Hears(u, row)
                     THEN [pages[u] EXCEPT ![v] = [mode |-> row.mode, by |-> row.by]]
                     ELSE pages[u]]

Forgot(pages, v, users) ==
    [u \in Users |-> IF u \in users THEN [pages[u] EXCEPT ![v] = Absent] ELSE pages[u]]

\* Mutant of AnnouncedPrivate: no tombstone.
NotAnnounced(pages, v, before, after) == Told(pages, v, after)

\* The change, and a tombstone for everyone but the creator when the view has
\* turned private (announceViewTurnedPrivate).
AnnouncedPrivate(pages, v, before, after) ==
    IF before.mode # "private" /\ after.mode = "private"
    THEN Forgot(Told(pages, v, after), v, Users \ {after.by})
    ELSE Told(pages, v, after)

\* The callback of a batch loads each view when it runs, and stops at the
\* first that is gone; the rows it compares with are taken by position.
AfterBatch(news) ==
    LET reached == {i \in DOMAIN news.ids : \A j \in 1..i : news.ids[j] \in Live}
        place(v) == CHOOSE i \in reached : news.ids[i] = v
        pages(v) == AnnouncedPrivate(client, v, news.before[place(v)], view[v])
    IN  [u \in Users |-> [v \in Views |->
            IF \E i \in reached : news.ids[i] = v THEN pages(v)[u][v] ELSE client[u][v]]]

Callback(i) ==
    LET news == queue[i]
        v == news.ids[1]
    IN  /\ i \in DOMAIN queue
        /\ InOrder => i = 1
        /\ client' = CASE news.kind = "changed" ->
                            AnnouncedPrivate(client, v, news.before[1], news.after)
                       [] news.kind = "deleted" ->
                            Forgot(client, v, {u \in Users : Hears(u, news.before[1])})
                       [] news.kind = "batch" -> AfterBatch(news)
        /\ Excuse(When(news.kind = "batch" /\ ~(ToSet(news.ids) \subseteq Live), "cut short"))
        /\ queue' = RemoveAt(queue, i)
        /\ UNCHANGED <<view, last, req>>

\* A page is opened or opened again.
Reload(u) ==
    /\ client' = [client EXCEPT ![u] = PageOf(u)]
    /\ UNCHANGED <<view, last, req, queue, excused>>

-----------------------------------------------------------------------------
(* InsertBlocksAndNotify for a view that is new: "add view" and "duplicate *)
(* view" of the client post one that is everyone's, other callers of the   *)
(* API any mode.  The news goes out at once, not through the queue.        *)

\* No view has had this id yet.
Fresh(v) == v \notin Live /\ last[v].by = Nobody

PostView(r, u, mode) ==
    /\ Starts(r, u)
    /\ mode = "admin" => Manages(u)
    /\ Begin(r, u, "insert", <<>>, mode, <<>>)

InsertView(r) ==
    LET q == req[r] IN
    /\ q.at = "insert"
    /\ \E v \in Views :
         LET row == [live |-> TRUE, mode |-> q.change, by |-> q.user] IN
         /\ Fresh(v)
         /\ Store(r, [view EXCEPT ![v] = row], "idle")
         /\ Entered(v, FALSE, row, q.user)
         /\ client' = Told(client, v, row)
    /\ UNCHANGED <<queue, excused>>

-----------------------------------------------------------------------------
(* DuplicateBlock: the copy is made with the mode its source has by then,  *)
(* and cleared by a patch of its own; only then it is announced.           *)

DuplicateView(r, u, v) ==
    /\ Starts(r, u)
    /\ v \in Live
    /\ MayTouch(u, view[v], "duplicate")
    /\ Begin(r, u, "copy", <<v>>, "everyone", <<view[v]>>)

NewsOfCopy(v, row) ==
    [kind |-> "changed", ids |-> <<v>>, before |-> <<row>>, after |-> row]

CopyView(r) ==
    LET q == req[r]
        source == view[q.ids[1]]
    IN  /\ q.at = "copy"
        /\ IF q.ids[1] \in Live
           THEN \E v \in Views :
                  LET row == [source EXCEPT !.by = q.user]
                      after == [view EXCEPT ![v] = row]
                  IN  /\ Fresh(v)
                      /\ Entered(v, FALSE, row, q.user)
                      /\ view' = after
                      /\ IF row.mode = "everyone"
                         THEN queue' = Append(queue, NewsOfCopy(v, row)) /\ Done(r)
                         ELSE /\ req' = [req EXCEPT ![r].at = "clear", ![r].ids = <<v>>]
                              /\ UNCHANGED queue
           ELSE Done(r) /\ UNCHANGED <<view, last, queue>>
        /\ UNCHANGED <<client, excused>>

ClearMode(r) ==
    LET q == req[r]
        v == q.ids[1]
        row == [view[v] EXCEPT !.mode = "everyone"]
    IN  /\ q.at = "clear"
        /\ IF v \in Live
           THEN /\ Store(r, [view EXCEPT ![v] = row], "idle")
                /\ Entered(v, FALSE, row, q.user)
                /\ queue' = Append(queue, NewsOfCopy(v, row))
           ELSE Done(r) /\ UNCHANGED <<view, last, queue>>
        /\ UNCHANGED <<client, excused>>

\* The patch fails: the copy keeps the mode, and nobody is told of it.
FailToClear(r) ==
    /\ req[r].at = "clear"
    /\ Done(r)
    /\ Excuse({"half done"})
    /\ UNCHANGED <<view, last, queue, client>>

-----------------------------------------------------------------------------
(* DeleteBlockAndNotify; DeletePrivateViewAsAdmin, the managers' own way   *)
(* to a private view, which asks no gate; UndeleteBlock.                   *)

DeleteView(r, u, v) ==
    /\ Starts(r, u)
    /\ v \in Live
    /\ MayDelete(u, v, view[v])
    /\ Begin(r, u, "delete", <<v>>, "config", <<view[v]>>)

DeletePrivateViewAsAdmin(r, u, v) ==
    /\ req[r].at = "idle"
    /\ Manages(u)
    /\ v \in Live
    /\ view[v].mode = "private"
    /\ Begin(r, u, "delete", <<v>>, "config", <<view[v]>>)

\* Deleting what is gone is no error, and is announced all the same.
DeleteRow(r) ==
    LET q == req[r]
        v == q.ids[1]
        after == [view EXCEPT ![v] = NoView]
    IN  /\ q.at = "delete"
        /\ Store(r, after, "told")
        /\ IF v \in Live THEN Entered(v, TRUE, view[v], view[v].by) ELSE UNCHANGED last
        /\ Excuse(When(v \in Live /\ view[v] # q.before[1], "stale")
                  \cup When(q.crossed /\ Loses(after), "crossed"))
        /\ UNCHANGED <<queue, client>>

\* The news carries the view as the gate saw it, and judges who hears it.
TellDeletion(r) ==
    LET q == req[r]
        news == [kind |-> "deleted", ids |-> q.ids, before |-> q.before, after |-> NoView]
    IN  /\ q.at = "told"
        /\ queue' = Append(queue, news)
        /\ Excuse(When(q.ids[1] \in Live, "told late"))
        /\ Done(r)
        /\ UNCHANGED <<view, last, client>>

UndeleteView(r, u, v) ==
    LET stored == [live |-> TRUE, mode |-> last[v].mode, by |-> last[v].by] IN
    /\ Starts(r, u)
    /\ last[v].by # Nobody
    /\ MayTouch(u, stored, "undelete")
    /\ Begin(r, u, "restore", <<v>>, "config", <<stored>>)

RestoreRow(r) ==
    LET q == req[r]
        v == q.ids[1]
        row == [live |-> TRUE, mode |-> last[v].mode, by |-> last[v].by]
    IN  /\ q.at = "restore"
        /\ IF last[v].gone
           THEN /\ Store(r, [view EXCEPT ![v] = row], "tell")
                /\ Entered(v, FALSE, row, row.by)
                /\ Excuse(When(row # q.before[1], "stale"))
           ELSE Goto(r, "tell") /\ UNCHANGED <<view, last, excused>>
        /\ UNCHANGED <<queue, client>>

-----------------------------------------------------------------------------
Start(r) ==
    \E u \in Users :
      \/ \E v \in Views, change \in Changes : PatchView(r, u, v, change)
      \/ \E v, w \in Views, change \in Changes :
           v # w /\ PatchViews(r, u, <<v, w>>, change)
      \/ \E mode \in Modes : PostView(r, u, mode)
      \/ \E v \in Views : DuplicateView(r, u, v)
      \/ \E v \in Views : DeleteView(r, u, v)
      \/ \E v \in Views : DeletePrivateViewAsAdmin(r, u, v)
      \/ \E v \in Views : UndeleteView(r, u, v)

Step(r) ==
    \/ ReadRow(r)
    \/ WriteRow(r)
    \/ TellChange(r)
    \/ WriteBatch(r)
    \/ InsertView(r)
    \/ CopyView(r)
    \/ ClearMode(r)
    \/ FailToClear(r)
    \/ DeleteRow(r)
    \/ TellDeletion(r)
    \/ RestoreRow(r)

\* A membership request starts, goes on or ends.
MemberStep ==
    LET running(c) == call[c].at # "idle"
        started == \E c \in Calls : ~running(c) /\ running(c)'
    IN  /\ MembersNext
        /\ started => left.calls > 0
        /\ left' = IF started THEN [left EXCEPT !.calls = @ - 1] ELSE left
        /\ UNCHANGED viewVars

ViewStep ==
    /\ \/ left.views > 0 /\ (\E r \in Requests : Start(r)) /\ left' = [left EXCEPT !.views = @ - 1]
       \/ (\E r \in Requests : Step(r)) /\ UNCHANGED left
       \/ (\E i \in DOMAIN queue : Callback(i)) /\ UNCHANGED left
       \/ left.loads > 0 /\ (\E u \in Users : Reload(u)) /\ left' = [left EXCEPT !.loads = @ - 1]
    /\ UNCHANGED memberVars

Next == MemberStep \/ ViewStep

Spec == Init /\ [][Next]_vars

-----------------------------------------------------------------------------
(* The menus of the client: accessModeTargets (viewAccess.ts), the delete  *)
(* item of viewTabs.tsx and viewConfigLocked, on what the page of u holds. *)

Seen(u) == {v \in Views : client[u][v] # Absent /\ Hears(u, client[u][v])}
SharedViewCount(u) == Cardinality({v \in Seen(u) : client[u][v].mode # "private"})

ViewConfigLocked(u, v) == client[u][v].mode = "admin" /\ ~Manages(u)

AccessModeTargets(u, v) ==
    LET copy == client[u][v]
        isCreator == copy.by = u
        canTouch == \/ copy.mode = "everyone"
                    \/ copy.mode = "admin" /\ Manages(u)
                    \/ copy.mode = "private" /\ isCreator
    IN  {m \in Modes : /\ canTouch
                       /\ m = "admin" => Manages(u)
                       /\ m = "private" => isCreator /\ SharedViewCount(u) > 1}

CanDeleteView(u, v) ==
    /\ ~ViewConfigLocked(u, v)
    /\ client[u][v].mode = "private" \/ SharedViewCount(u) > 1

-----------------------------------------------------------------------------
(* Every request has returned and every callback has run.                  *)
Settled == queue = <<>> /\ \A r \in Requests : req[r].at = "idle"

(* "The board keeps at least one view the others can see" (view_access.go: *)
(* 94): no order of requests takes the last shared view, but for two that  *)
(* were each let through on the strength of the other's view, a batch, and *)
(* a patch that writes back a row it read before.                          *)
SharedViewRemains ==
    excused \cap {"crossed", "batch"} = {} => Shared # {}

(* When all is settled every page holds the views its user may see, in the *)
(* mode they have, and nobody holds another one's private view ("tells     *)
(* everyone but the creator to forget a view that just became private",    *)
(* blocks.go:648): but for what is named.                                  *)
PagesAgree ==
    Settled /\ excused \cap {"stale", "by position", "cut short", "told late",
                             "untold", "half done"} = {}
      => \A u \in Users : client[u] = PageOf(u)

(* The rules are written twice, in Go and in TypeScript ("the screen must  *)
(* give the same answer", viewAccess.ts:6): on a page that is in step the  *)
(* menus offer just what the gate lets through.                            *)
MenusMatchGate ==
    \A u \in Users, v \in Live :
      LET row == view[v] IN
      client[u] = PageOf(u) /\ Hears(u, row) =>
        /\ \A m \in Modes \ {row.mode} :
             m \in AccessModeTargets(u, v) <=> MayPatch(u, v, row, m)
        /\ CanDeleteView(u, v) <=> MayDelete(u, v, row)
        /\ ViewConfigLocked(u, v) <=> ~MayPatch(u, v, row, "config")

=============================================================================
