----------------------------- MODULE ClientSync -----------------------------
(***************************************************************************)
(* How a browser keeps up with the server: the websocket client            *)
(* (wsclient.ts), the board page that loads what it shows and listens for  *)
(* changes (boardPage.tsx), and the slices of the store they fill          *)
(* (store/boards.ts, cards.ts, views.ts, comments.ts, attachments.ts).     *)
(*                                                                         *)
(* The server is a table of versions: every change of a board or block     *)
(* adds one to its version, and is broadcast to a connection that is       *)
(* subscribed.  A request is served at some time and answered at a later   *)
(* one, in any order with other answers and with the messages.  An answer  *)
(* and the synchronous code up to the next await are one step.             *)
(***************************************************************************)
EXTENDS Lists

CONSTANTS Boards, Blocks,
          Type,          \* block -> "card", "view", "comment", "attachment"
          Home,          \* block -> its board
          Parent,        \* comment or attachment -> its card
          Existing,      \* what is there at the start
          Opened,        \* the boards a user may open first
          Modes,         \* "standalone": the client reopens its own socket; "plugin"
          MaxRetries,    \* reopenMaxRetries
          MaxChanges,    \* bound: changes on the server
          MaxRuns        \* bound: runs of the page, reconnects among them

\* Nothing is loaded, or is the current board, yet.
NoBoard == "none"

ASSUME SyncAssumption ==
    /\ IsFiniteSet(Blocks) /\ Boards \cap Blocks = {} /\ NoBoard \notin Boards
    /\ Type \in [Blocks -> {"card", "view", "comment", "attachment"}]
    /\ Home \in [Blocks -> Boards]
    /\ Existing \subseteq Boards \cup Blocks /\ Opened \subseteq Boards
    /\ Modes \subseteq {"standalone", "plugin"}
    /\ {MaxRetries, MaxChanges, MaxRuns} \subseteq Nat

VARIABLES server,       \* board or block -> [v : version, alive]
          wire,         \* messages on their way to the client
          subscribed,   \* the server knows the subscription of the connection
          \* WSClient:
          mode,         \* whether there is a client of Mattermost's
          state,        \* "init", "open" or "close"
          socket,       \* "none", "connecting", "open"
          retries,      \* reopenRetryCount
          queue,        \* updatedData
          timer,        \* updateTimeout is set
          \* the page:
          url, current, me,
          runs,         \* the effects and reconnect loads under way
          started,      \* how many there were
          \* the store:
          boards, cards, views, comments, attachments,
          \* What the properties compare with:
          seen,         \* id -> the version the store was last given
          lost,         \* <<id, version>> that did not stay in the store
          loaded,       \* the board whose blocks were loaded last
          crossed       \* a navigation came while a run was under way

page == <<url, current, me>>
store == <<boards, cards, views, comments, attachments>>
client == <<mode, state, socket, retries, subscribed>>
watched == <<seen, lost, loaded, crossed>>
vars == <<server, wire, client, queue, timer, page, runs, started, store, watched>>

Items == Boards \cup Blocks
NoSnapshot == <<>>

Of(type) == {id \in Blocks : Type[id] = type}

\* The blocks a message or an answer carries.
Item(id) == [id |-> id, v |-> server[id].v, alive |-> server[id].alive]

-----------------------------------------------------------------------------
(* The reducers of the store.  A slice maps ids to versions.               *)

\* The object with x in the field k.
With(f, k, x) == [y \in DOMAIN f \cup {k} |-> IF y = k THEN x ELSE f[y]]

Put(slice, item) ==
    IF item.alive THEN With(slice, item.id, item.v)
    ELSE [id \in DOMAIN slice \ {item.id} |-> slice[id]]

updateBoards(slice, items) == FoldLeft(Put, slice, items)
updateCards(slice, items) == FoldLeft(Put, slice, items)
updateViews(slice, items) == FoldLeft(Put, slice, items)

\* Comments and attachments are kept by id, and by card in lists: what is shown.
Empty == [byId |-> <<>>, byCard |-> <<>>]

Entry(item) == [id |-> item.id, v |-> item.v]

InList(byCard, card, id) ==
    card \in DOMAIN byCard /\ \E i \in DOMAIN byCard[card] : byCard[card][i].id = id

List(byCard, card) == IF card \in DOMAIN byCard THEN byCard[card] ELSE <<>>

\* Mutant of Delist: the comment stays in the list of its card.
DelistNothing(byCard, id) == byCard

Delist(byCard, id) ==
    [c \in DOMAIN byCard |-> Filtered(byCard[c], {e \in ToSet(byCard[c]) : e.id # id})]

PutComment(slice, item) ==
    LET card == Parent[item.id]
        Replaced(list) == [i \in DOMAIN list |-> IF list[i].id = item.id THEN Entry(item) ELSE list[i]]
    IN  [byId   |-> Put(slice.byId, item),
         byCard |->
           IF ~item.alive THEN Delist(slice.byCard, item.id)
           ELSE IF InList(slice.byCard, card, item.id)
           THEN [slice.byCard EXCEPT ![card] = Replaced(@)]
           ELSE With(slice.byCard, card, Append(List(slice.byCard, card), Entry(item)))]

\* The loop returns, and leaves the rest of the batch, at a comment whose card
\* has no list yet, at one that its card lists already, and at a deleted block
\* that is no comment the store knows.
CommentReturns(slice, item) ==
    IF item.alive
    THEN \/ Parent[item.id] \notin DOMAIN slice.byCard
         \/ InList(slice.byCard, Parent[item.id], item.id)
    ELSE item.id \notin DOMAIN slice.byId

\* An attachment that its card lists already is replaced by id only.
PutAttachment(slice, item) ==
    IF item.alive /\ InList(slice.byCard, Parent[item.id], item.id)
    THEN [slice EXCEPT !.byId = Put(@, item)]
    ELSE PutComment(slice, item)

AttachmentReturns(slice, item) ==
    IF item.alive THEN Parent[item.id] \notin DOMAIN slice.byCard
    ELSE item.id \notin DOMAIN slice.byId

\* The slice after the loop, and what the loop did not come to.
Loop(slice, items, PutOne(_, _), Returns(_, _)) ==
    LET Step(acc, item) ==
          IF acc.returned THEN [acc EXCEPT !.left = @ \cup {<<item.id, item.v>>}]
          ELSE [acc EXCEPT !.slice = PutOne(@, item), !.returned = Returns(acc.slice, item)]
    IN  FoldLeft(Step, [slice |-> slice, returned |-> FALSE, left |-> {}], items)

updateComments(slice, items) == Loop(slice, items, PutComment, CommentReturns)
updateAttachments(slice, items) == Loop(slice, items, PutAttachment, AttachmentReturns)

\* The fulfilled cases of loadBoardData: a slice is made anew.
LoadedById(snapshot, type) ==
    [id \in {id \in DOMAIN snapshot \cap Blocks : Type[id] = type /\ snapshot[id].alive}
       |-> snapshot[id].v]

LoadedByCard(snapshot, type) ==
    LET byId == LoadedById(snapshot, type)
        On(card) == SetToSeq({[id |-> id, v |-> byId[id]] : id \in {id \in DOMAIN byId : Parent[id] = card}})
    IN  [byId   |-> byId,
         byCard |-> [card \in {Parent[id] : id \in DOMAIN byId} |-> On(card)]]

Run(n, board, user, step) ==
    [n |-> n, board |-> board, me |-> user, step |-> step, snapshot |-> NoSnapshot]

-----------------------------------------------------------------------------

Init ==
    /\ server = [id \in Items |-> [v |-> IF id \in Existing THEN 1 ELSE 0, alive |-> id \in Existing]]
    /\ wire = <<>>
    /\ subscribed = FALSE
    /\ mode \in Modes
    /\ state = "init"
    /\ socket = "connecting"
    /\ retries = 0
    /\ queue = <<>>
    /\ timer = FALSE
    /\ url \in Opened
    /\ current = NoBoard
    /\ me = FALSE
    /\ runs = {Run(1, url, FALSE, "boards")}
    /\ started = 1
    /\ boards = <<>> /\ cards = <<>> /\ views = <<>>
    /\ comments = Empty /\ attachments = Empty
    /\ seen = [id \in Items |-> 0]
    /\ lost = {}
    /\ loaded = NoBoard
    /\ crossed = FALSE

TypeOK ==
    /\ \A id \in Items : server[id].v \in Nat /\ server[id].alive \in BOOLEAN
    /\ subscribed => socket = "open"
    /\ mode \in Modes /\ state \in {"init", "open", "close"}
    /\ socket \in {"none", "connecting", "open"}
    /\ retries \in 0 .. MaxRetries
    /\ \A i \in DOMAIN queue : queue[i].id \in Items
    /\ timer = (queue # <<>>)
    /\ url \in Boards /\ current \in Boards \cup {NoBoard} /\ me \in BOOLEAN
    /\ DOMAIN boards \subseteq Boards
    /\ DOMAIN cards \subseteq Of("card") /\ DOMAIN views \subseteq Of("view")
    /\ DOMAIN comments.byId \subseteq Of("comment")
    /\ DOMAIN attachments.byId \subseteq Of("attachment")

-----------------------------------------------------------------------------
(* The server: a change, its broadcast, and the subscription.              *)

Changes == LET Add(id, n) == n + server[id].v
           IN  FoldSet(Add, 0, Items) - Cardinality(Existing)

\* A board is changed; a block is made, changed or deleted.
Change(id, alive) ==
    /\ Changes < MaxChanges
    /\ server[id].v = 0 => alive
    /\ id \in Boards => alive
    /\ server' = [server EXCEPT ![id] = [v |-> @.v + 1, alive |-> alive]]
    /\ IF subscribed
       THEN wire' = Append(wire, [id |-> id, v |-> server[id].v + 1, alive |-> alive])
            /\ UNCHANGED lost
       ELSE lost' = lost \cup {<<id, server[id].v + 1>>} /\ UNCHANGED wire
    /\ UNCHANGED <<client, queue, timer, page, runs, started, store, seen, loaded, crossed>>

\* The commands that subscribe() sent reach the server.
Subscribes ==
    /\ socket = "open" /\ ~subscribed
    /\ subscribed' = TRUE
    /\ UNCHANGED <<server, wire, mode, state, socket, retries, queue, timer, page, runs, started, store, watched>>

-----------------------------------------------------------------------------
(* WSClient: the connection.                                               *)

\* onopen, and onConnect in the plugin.
Opens ==
    /\ socket = "connecting"
    /\ socket' = "open" /\ state' = "open" /\ retries' = 0
    /\ UNCHANGED <<server, wire, mode, subscribed, queue, timer, page, runs, started, store, watched>>

\* The connection is lost, and what was on its way with it.  What the client
\* has queued stays.
Closes ==
    /\ started < MaxRuns
    /\ socket # "none"
    /\ socket' = "none" /\ state' = "close" /\ subscribed' = FALSE
    /\ wire' = <<>>
    /\ lost' = lost \cup {<<wire[i].id, wire[i].v>> : i \in DOMAIN wire}
    /\ UNCHANGED <<server, mode, retries, queue, timer, page, runs, started, store, seen, loaded, crossed>>

\* The socket is opened again after reopenDelay, as long as retries are left,
\* and the handlers of onReconnect load at once, before it is open: boards and
\* memberships, no blocks.  In the plugin Mattermost reopens the socket, and the
\* handlers run once it is open.
Reopens ==
    /\ state = "close" /\ socket = "none"
    /\ started < MaxRuns
    /\ IF mode = "standalone"
       THEN retries < MaxRetries /\ retries' = retries + 1 /\ socket' = "connecting" /\ UNCHANGED state
       ELSE socket' = "open" /\ state' = "open" /\ UNCHANGED retries
    /\ started' = started + 1
    /\ runs' = runs \cup {Run(started + 1, url, me, "reconnect")}
    /\ UNCHANGED <<server, wire, mode, subscribed, queue, timer, page, store, watched>>

-----------------------------------------------------------------------------
(* WSClient: messages.                                                     *)

\* Mutant of queueUpdateNotification: what is queued already is kept.
QueueFirst(q, item) ==
    IF \E i \in DOMAIN q : q[i].id = item.id THEN q ELSE Append(q, item)

\* A newer update of the same thing takes the place of the queued one.
queueUpdateNotification(q, item) == Append(Filtered(q, {o \in ToSet(q) : o.id # item.id}), item)

\* onmessage: the timer starts anew with every message.
Message ==
    /\ wire # <<>>
    /\ queue' = queueUpdateNotification(queue, Head(wire))
    /\ timer' = TRUE
    /\ wire' = Tail(wire)
    /\ UNCHANGED <<server, client, page, runs, started, store, watched>>

Batch(type) ==
    Filtered(queue, {m \in ToSet(queue) : m.id \in Blocks /\ (Type[m.id] = type \/ ~m.alive)})

Flushed == <<>>

\* flushUpdateNotifications and the handlers of the board page.  Deleted
\* blocks go to the reducers of every type.
Flush ==
    LET c == updateComments(comments, Batch("comment"))
        a == updateAttachments(attachments, Batch("attachment"))
    IN  /\ timer
        /\ timer' = FALSE
        /\ queue' = Flushed
        /\ boards' = updateBoards(boards, Filtered(queue, {m \in ToSet(queue) : m.id \in Boards}))
        /\ views' = updateViews(views, Batch("view"))
        /\ cards' = updateCards(cards, Batch("card"))
        /\ comments' = c.slice
        /\ attachments' = a.slice
        /\ seen' = [id \in Items |->
                      IF \E i \in DOMAIN queue : queue[i].id = id
                      THEN (CHOOSE m \in ToSet(queue) : m.id = id).v ELSE seen[id]]
        /\ lost' = lost \cup {x \in c.left : Type[x[1]] = "comment"}
                        \cup {x \in a.left : Type[x[1]] = "attachment"}
        /\ UNCHANGED <<server, wire, client, page, runs, started, loaded, crossed>>

-----------------------------------------------------------------------------
(* The board page.                                                         *)

\* The effect of the page starts a run for the board of the address.  An
\* earlier run goes on.
Navigate(b) ==
    /\ b # url
    /\ started < MaxRuns
    /\ url' = b
    /\ started' = started + 1
    /\ runs' = runs \cup {Run(started + 1, b, me, "boards")}
    /\ crossed' = (crossed \/ runs # {})
    /\ UNCHANGED <<server, wire, client, queue, timer, current, me, store, seen, lost, loaded>>

Asked(r) ==
    CASE r.step \in {"boards", "reconnect"} -> Boards
      [] r.step = "board" -> {r.board}
      [] r.step \in {"blocks", "again"} -> {id \in Blocks : Home[id] = r.board}
      [] OTHER -> {}

\* The request of a run reaches the server.
Serve(r) ==
    /\ r.snapshot = NoSnapshot
    /\ runs' = (runs \ {r}) \cup
                 {[r EXCEPT !.snapshot = <<[id \in Asked(r) |-> [v |-> server[id].v, alive |-> server[id].alive]]>>]}
    /\ UNCHANGED <<server, wire, client, queue, timer, page, started, store, watched>>

\* What the store holds and an older answer overwrites.
Overwritten(answer) == {<<id, seen[id]>> : id \in {id \in DOMAIN answer : seen[id] > answer[id].v}}

Follow(r, step) == (runs \ {r}) \cup {[r EXCEPT !.step = step, !.snapshot = NoSnapshot]}
End(r) == runs \ {r}

Given(answer) ==
    /\ seen' = [id \in Items |-> IF id \in DOMAIN answer THEN answer[id].v ELSE seen[id]]
    /\ lost' = lost \cup Overwritten(answer)

\* Mutant of EffectOfMe: the effect does not depend on the user.
NoEffectOfMe == {}

\* The effect depends on me?.id: it runs again when the user is known.
EffectOfMe == {Run(0, url, TRUE, "boards")}

\* initialLoad: the boards are made anew.  The first answer tells who the user
\* is, and the effect runs once more with the user; a run without goes no
\* further than the current board.
InitialLoaded(r, answer) ==
    /\ boards' = [b \in {b \in Boards : answer[b].alive} |-> answer[b].v]
    /\ Given(answer)
    /\ me' = TRUE
    /\ current' = IF r.step = "boards" THEN r.board ELSE current
    /\ runs' = IF r.step = "boards" /\ r.me THEN Follow(r, "board")
               ELSE IF ~me
               THEN End(r) \cup EffectOfMe
               ELSE End(r)
    /\ UNCHANGED <<url, cards, views, comments, attachments, loaded>>

\* loadOrJoinBoard: the board by itself is put into the store, then its blocks
\* are loaded.
BoardLoaded(r, answer) ==
    /\ boards' = updateBoards(boards, <<[id |-> r.board, v |-> answer[r.board].v, alive |-> TRUE]>>)
    /\ Given(answer)
    /\ runs' = Follow(r, "blocks")
    /\ UNCHANGED <<page, cards, views, comments, attachments, loaded>>

\* loadBoardData: blocks of every type are replaced, whatever the current
\* board is.  A board without blocks is joined first, and loaded again.
BlocksLoaded(r, answer) ==
    /\ cards' = LoadedById(answer, "card")
    /\ views' = LoadedById(answer, "view")
    /\ comments' = LoadedByCard(answer, "comment")
    /\ attachments' = LoadedByCard(answer, "attachment")
    /\ Given(answer)
    /\ loaded' = r.board
    /\ runs' = IF r.step = "blocks" /\ \A id \in DOMAIN answer : ~answer[id].alive
               THEN Follow(r, "join") ELSE End(r)
    /\ UNCHANGED <<page, boards>>

Joined(r) ==
    /\ runs' = Follow(r, "again")
    /\ UNCHANGED <<page, store, seen, lost, loaded>>

\* The answer to the request of a run.
Answer(r) ==
    /\ r.snapshot # NoSnapshot
    /\ CASE r.step \in {"boards", "reconnect"} -> InitialLoaded(r, r.snapshot[1])
         [] r.step = "board" -> BoardLoaded(r, r.snapshot[1])
         [] r.step \in {"blocks", "again"} -> BlocksLoaded(r, r.snapshot[1])
         [] r.step = "join" -> Joined(r)
    /\ UNCHANGED <<server, wire, client, queue, timer, started, crossed>>

-----------------------------------------------------------------------------

Next ==
    \/ \E id \in Items, alive \in BOOLEAN : Change(id, alive)
    \/ Subscribes
    \/ Opens
    \/ Closes
    \/ Reopens
    \/ Message
    \/ Flush
    \/ \E b \in Boards : Navigate(b)
    \/ \E r \in runs : Serve(r) \/ Answer(r)

Spec == Init /\ [][Next]_vars

-----------------------------------------------------------------------------
(* Properties.                                                             *)

\* Nothing is on its way any more.
Settled == /\ wire = <<>> /\ queue = <<>> /\ runs = {}
           /\ subscribed

Current(id) == IF server[id].alive THEN server[id].v ELSE 0

InSlice(slice, id) == IF id \in DOMAIN slice THEN slice[id] ELSE 0

\* The newest version of the id did not get to stay in the store: it was not
\* sent, was overwritten by an older answer, or was left by a reducer.
Excused(id) == <<id, server[id].v>> \in lost

Held(id) ==
    CASE Type[id] = "card" -> InSlice(cards, id)
      [] Type[id] = "view" -> InSlice(views, id)
      [] Type[id] = "comment" -> InSlice(comments.byId, id)
      [] Type[id] = "attachment" -> InSlice(attachments.byId, id)

\* The blocks of the board on screen are those of the server, with nothing
\* else to excuse them: messages that replace each other in the queue, that
\* come before, between and after the answers of a load, or with deletions in
\* one batch (wsclient.ts:735, store/cards.ts:106, 213, store/comments.ts:25).
BlocksInStep ==
    Settled /\ loaded = current =>
      \A id \in Blocks : Home[id] = current => Held(id) = Current(id) \/ Excused(id)

\* So are the boards (store/boards.ts:125, 175).
BoardsInStep ==
    Settled => \A b \in Boards : InSlice(boards, b) = Current(b) \/ Excused(b)

\* When nothing is on its way, the stores of a client are in step with the server.
InStep == BlocksInStep /\ BoardsInStep

ShownVersions(slice, id) ==
    {v \in 1 .. server[id].v :
       Parent[id] \in DOMAIN slice.byCard /\ [id |-> id, v |-> v] \in ToSet(slice.byCard[Parent[id]])}

\* What is listed for a card is what the store holds by id, once, in whatever
\* way batches, early returns and loads follow each other; a comment is listed
\* in the form it is held (store/comments.ts:25, 72).
ListsAgree ==
    \A slice \in {comments, attachments} :
      /\ \A card \in DOMAIN slice.byCard :
           IsInjective([i \in DOMAIN slice.byCard[card] |-> slice.byCard[card][i].id])
      /\ {id \in Of("comment") \cup Of("attachment") : InList(slice.byCard, Parent[id], id)}
           = DOMAIN slice.byId
      /\ slice = comments =>
           \A id \in DOMAIN slice.byId : ShownVersions(slice, id) = {slice.byId[id]}

\* A user who does not navigate while a page is loading ends on the board of
\* the address, with its blocks (boardPage.tsx:286).
PageIsUrl == Settled /\ ~crossed => current = url /\ loaded = url

=============================================================================
