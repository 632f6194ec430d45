# Boards: TLA+ models, checks and proofs

Mattermost Boards is a Go server (a plugin of the Mattermost server) and a
TypeScript client. Boards hold cards, cards hold content blocks; all of them are
rows of one table, `blocks`, with every version kept in `blocks_history`. The
models here are of both sides. On the server: the parts whose correctness depends
on the order of steps of several requests, background goroutines and cluster
nodes. In the client: the parts where what a user does, what others do and what
the server answers come in an order nobody chose, and the algorithms that decide
what a user sees and what an undo brings back.

- [The parts of the system](#the-parts-of-the-system)
- [The models](#the-models)
- [What the runs check](#what-the-runs-check)
- [Bounds](#bounds)
- [Fairness](#fairness)
- [What is proved](#what-is-proved)
- [What the models showed](#what-the-models-showed)
- [Variants](#variants)
- [What is not modelled](#what-is-not-modelled)
- [Plan](#plan)

To check a model: `tlc -config CardTree.cfg MCCardTree`. To check proofs:
`tlapm CardTreeProofs.tla`, and likewise `CallbackQueueProofs`,
`UndoManagerProofs` (with the patches and the commands), `ScheduledCommentsProofs`,
`SubscriptionNotifierProofs`, `ViewAccessProofs` (with the members),
`ClientSyncProofs` and `PluginAdapterProofs`. `PROJECT.json` lists the runs with the module and the configuration of each, the source lines of
every definition, the hazards with the properties that watch them, and the theorems.

## The parts of the system

| Part | State it keeps | Operations | What is hard | What makes it correct |
|---|---|---|---|---|
| Sub-card tree, `server/app/cards.go` | `parent_id` and `fields.depth` of card rows | CreateCard, CreateSubCard, LinkCardAsSubCard, UnlinkSubCard, GetSubCards | checks on several rows, then writes to several rows, no lock or transaction over both | no cycle, no dangling parent, stored depth = level, level within the limit |
| Block handlers, `server/app/blocks.go` | none of their own | insert, patch, batch patch, delete with cascade, undelete, duplicate | cascades that fail half way; permission gates on reads of their own | a cascade leaves whole subtrees; a restore brings back what the delete took |
| Block rows, `sqlstore/blocks.go` | `blocks`, `blocks_history` | insertBlock, patchBlock (read, overlay, write all columns), one-level delete and restore | read committed: concurrent patches overwrite each other; a write after a delete inserts again | no committed patch is lost; history repeats what was stored |
| Scheduled comments, `app/scheduled_comments.go`, `services/scheduler` | `scheduledStatus`, `scheduledAt` of comment rows; one ticker per node | the minute task; create, update, cancel, send now | several nodes, stale status, crash between mark and announcement | announced at most once, canceled is final, every due comment goes out, limit per user |
| Subscription notifier, `services/notify/notifysubscriptions` | `notification_hints`, `subscriptions.notified_at`; one loop per node, a channel of 20 wake-ups | BlockChanged, OnMention, ForceNotifyBlock, the loop, subscribe and unsubscribe | time stamps as cursors, pops by several nodes, several queries per diff | every change told to every subscriber, once |
| Callback queue, `utils/callbackqueue.go` | a Go channel (1000), a pool (10), `idone`, `done`, `alive` | Enqueue, Shutdown | check then send, blocked senders, timeout of the shutdown (10 s) | drained when Shutdown says so; nobody blocked for ever; order |
| Websocket adapter, `ws/plugin_adapter*.go` | listeners by id, user, team, block under two locks | connect, disconnect, subscribe, broadcast, cluster messages | read under one lock, write under another; double registration | a live subscriber is in the lists, a dead one is not |
| Boards and members, `app/boards.go`, `api/members.go` | `board_members` | add, join, update, remove, leave; delete boards | last manager: count, then write | a board keeps a manager |
| View access, `app/view_access.go`, `viewAccess.ts` | the mode and the creator of view rows; the copies of the pages | patch, batch, post, duplicate, delete, delete as administrator, undelete; the menus | last shared view: count, then write; batches; news that comes late or in another order | a board keeps a shared view; pages hold what their users may see; the menus agree with the gate |
| Property access, permissions | rules in the board row, roles | evaluation at each handler | who may read which property after a patch | a handler never shows or changes what the rule hides |
| BlockSuite documents, `app/blocksuite.go` | one document row per card | upsert, delete with the card | last writer wins; delete against upsert; not restored with the card | a card has its document |
| Categories, files, import and export, onboarding, templates, statistics | rows and files | one query each | little | - |
| Schema migrations, `sqlstore/migrate.go` | schema versions | run at start under a cluster mutex | two nodes at once, crash while held | each migration once |

The client (`webapp/src`):

| Part | State it keeps | Operations | What is hard | What makes it correct |
|---|---|---|---|---|
| Undo manager, `undomanager.ts` | the stack of commands, its index, `isExecuting` | perform, registerUndo, undo, redo, groups | calls that overlap or fail between request and answer | undo goes back to what was there; the stack tells what is in force |
| Mutator, `mutator.ts` | the open undo group | some hundred commands, each a redo and an undo closure | an undo has to restore what several blocks and the board held | undo is the inverse; board, views and cards still agree |
| Patches, `blocks/block.ts`, `blocks/board.ts` | - | a patch and its reverse from two forms of a block or board | keys that one side lacks, order of templates | each patch undoes the other |
| Websocket client, `wsclient.ts` | socket, subscriptions, a queue of updates, a timer | open, close, reopen, message, flush | reconnects; batches that hold an old and a new version | the newest update wins |
| Board page and store slices, `boardPage.tsx`, `store/*.ts` | boards, cards, views, comments, attachments by id and by card | page loads, reducers for the updates | answers that come late and out of order, early returns in reducers | the store ends equal to the server |
| What a view draws, `store/cards.ts`, `cardFilter.ts`, `boardUtils.ts` | - | filter, order, group, nest | orphans, deleted options, several values, "me" | every card drawn once |
| Centre panel, table, kanban, gallery | the view's `cardOrder` and column lists; drag and selection | add, drop, move groups | order lists computed from what was drawn, several requests per drop | the dragged card lands where it was dropped, no other moves |
| Document editor, `components/blockSuite` | timers, a waiting snapshot, file ids of images | load, edit, save, upload | saves delayed and merged while edits go on, unmounts, failures | every edit reaches the server, every image its file id |
| Organisation scope, `store/orgScope.ts` | look-up tables | which departments a division allows | a change of division | a card names departments of its divisions |
| Card dialog, menus, sidebar, calendar, archives, telemetry, i18n | forms and per-user settings | - | little | - |

How they interact: an API handler calls the app; the app reads and writes the
store, then enqueues a callback on the callback queue; the callback broadcasts
over the websocket adapter and calls the notification backends, among them the
subscription notifier, which writes a hint that a loop of any node takes up
minutes later. Nodes share the database and nothing else, but for cluster
messages of the websocket adapter. On shutdown the notification backends are
stopped first, then the callback queue is drained, then the store is closed
(`server/server/server.go`, `Shutdown`). A client sends every change through the
mutator, which hands it to the undo manager; the server broadcasts what changed,
also to the client that asked, and the websocket client queues it for the store
slices. The views draw from the slices and turn a drop back into commands of the
mutator. The document editor goes round all of this: it reads and writes its
document by calls of its own.

## The models

### CardTree, CardTreeRequests (`server/app/cards.go`, `server/app/blocks.go`)

`CardTree` is the abstract specification of the sub-card handlers: the tree when
every request runs alone, one action per handler. `live` is the `blocks` table,
`known` the ids with a history row, `parent` and `depth` the two columns the
handlers read. The walks over the tree are closed sets, not recursions, so that
the proofs can use them: `Subtree(c)` is what a recursion over `GetSubCards`
visits from `c`, `AncestorsOf(c)` what `checkCircularReference` visits.
`OwnAncestor(c)` stands for the recursion that does not return: a handler that
would walk round a cycle has no step. A delete removes any part of the subtree
that is closed downward, because the cascade goes deepest first and may stop at
any refusal. `SpecWithRestore` adds `UndeleteBlock`.

`CardTreeRequests` is the same code store call by store call, for requests that
overlap. `req[r]` is where request `r` is: the values its handler read, and
`todo`, what is left of its recursion. `Store.PatchBlock` is two steps, `ReadRow`
and `WriteRow`: the transaction reads the row, overlays the patch on the copy and
writes all of the copy back, under the database's default isolation, so another
commit fits in between. Reads with no write of the same request between them are
one step (the checks of a link in `LinkRequest` and `LinkChecks`, the two reads of
an unlink). It extends `CardTree`: the table and the walks (`FitsBelow`,
`AncestorsOf`) are the same, and an action `CreateCardRequest`, `LinkRequest` and so on
is the part of a handler before its first write. The ghost `alone` is true until two
requests overlap or one fails.

`Contract` is the refinement mapping: `depth` of a card that a link or unlink
still has to shift counts as shifted from the write of the card's own row on
(`SettledDepth` reads it off the request under way and its `todo`); everything
else maps to itself. `ImplementsContract` asks for a step of `CardTree`, or none, of
every step after which `alone` still holds.

### ScheduledComments (`server/app/scheduled_comments.go`, `services/scheduler`)

`row` is a comment's block (status and time), `announced` how often it went out,
`job[w]` where a worker is. A worker is the scheduler goroutine of a node
(`tick`) or a request; `Allowed` says which. `ProcessScheduledComments` lists
what is due, ordered by time, once; then each comment is read, written and
announced in turn (`ReadRow`, `WriteRow`, `Announce`), a comment that fails being
skipped. `CreateScheduledComment` counts, then `InsertComment` inserts. `Refused`
are comments whose creator may not edit the card any more. `failures` counts the
crashes and failed store calls, up to `MaxFailures`. The clock ticks in minutes,
the least lead of a schedule.

### SubscriptionNotifier (`services/notify/notifysubscriptions`)

One card and its children. `log` is the history by time stamp; a change is
stamped by `Change` and there for others after `Commit`. `BlockChanged` is the
callback that writes the hint, `HintDue` the passing of the update interval.
`Look` and `Pop` are the two reads of `loop` and `notify`. The body of
`notifySubscribers` is `GetSubscribersForBlock`, `DiffCard`, `DiffChildren`,
`Deliver`, `UpdateSubscribersNotifiedAt`, each one store call or the delivery;
the card is read before its children, so a diff is of two moments.
`CreateSubscription` is both a request of a new subscriber (`Subscribing`) and
the subscription of somebody who is mentioned and has one (`Mentioned`).
`MaxRuns` bounds how many runs of `notifySubscribers` may overlap. `owed` and
`told` are history variables: what others changed while a user was subscribed,
and what reached the user.

### CallbackQueue (`server/utils/callbackqueue.go`)

`queue` is the Go channel and, beyond `QueueSize`, the senders blocked on it, in
the order Go serves them. `Enqueue` is the read of `idone`, `Send` the send.
`Take`, `Begin` and `Finish` are the receive and the call of a callback, by a
thread or by `Drain`, the goroutine in `Shutdown`. `Init` makes a pool of any
size out of `Threads`; the rest of them stay `"off"`. `sent`, `early` and
`started` are history variables.

### UndoManager, Mutator, BoardPatches (`undomanager.ts`, `mutator.ts`, `blocks/*.ts`)

`UndoManager` is the stack and its callers (`perform`, the hot keys, the groups of
`mutator.ts`), with the commands left to operators that are constants: what a
redo and an undo make of a content, what a user can see of it, whether a redo
can be repeated. A call is sent, reaches the server and is answered in three
steps (`Perform`, `PerformReaches`, `PerformEnds`; `Execute`, `RunReaches`,
`RunEnds`) and may fail before or after it reached the server. `shots`,
`inEffect` and `alone` are history variables: what was visible at each height of
the stack, which commands reached the server last by their redo, and that no two
calls have overlapped.

`BoardPatches` has the pairs of patches and what `BlockPatch.Patch` and
`BoardPatch.Patch` make of them on the server. `Mutator` has an operator for each
method of `mutator.ts`; it takes what the server stores and yields the command,
that is two effects: a board patch, block patches, inserts, deletes, undeletes,
members, follows. `Sessions` puts the commands under the undo manager and says what
a session of them keeps true of properties, texts and departments; `MCMutator` gives it
six small boards. `Lists` has the one thing all of them do with arrays, `filter`, as a
fold.

### ClientSync (`wsclient.ts`, `boardPage.tsx`, `store/*.ts`)

`server` gives every board and block a version; `wire` is the socket in order;
`queue` is `updatedData`. `runs` are the effects of the page under way: each asks
(`Serve` takes the snapshot on the server) and is answered later (`Answer`), as
the thunks of `initialLoad.ts` do. `Message` and `Flush` are `onmessage` and
`flushUpdateNotifications` with the reducers they reach. Both modes are there:
the client that reopens its own socket up to `reopenMaxRetries` times, and the
plugin, whose socket is reopened by Mattermost. `lost` is a history variable of
the versions that did not get to stay in the store, with the place in the code
that let them go: not subscribed, overwritten by an older answer, left behind by
an early return of a reducer, not the board that is open.

### CardLists, CardViews (`store/cards.ts`, `cardFilter.ts`, `boardUtils.ts`, the views)

`CardLists` is a module of pure operators: the cards of a view in the order they
are drawn (`getCurrentBoardParentCards`, the comparators, `isFilterGroupMet`), the groups of
a kanban or table, the rows with nested sub-cards, and the order list a drop
writes (`moveInCardOrder`). `CardViews` has one user at work: `addCard`,
`addSubCard`, selection, the drag of a table row (`startDrag`, `computeDropIntent`,
`applyTableDrop` one request at a time, `DropStep`), the drops of the kanban and
the gallery, and the moves of groups. `Other...` are changes of somebody else;
they come between any two requests. `landed` is the change that has just ended with
nothing else in between (`quiet`).

### CardEditor (`components/blockSuite`)

An editor is a mounted `BlockSuiteEditor` with its hook. `timer`, `pending` and
`handed` are `saveTimeoutRef`, `pendingSnapshotRef` and the snapshots handed to a
timer of 100 ms; `saving` is the document on its way (`SaveReaches`) or at the
server with its answer to come (`SaveAnswers`). `Rerender` is the cleanup of the
effect that loads: it runs once, at the first new `contents` array
(`cardDetail.tsx:268` makes one at every render), and clears the save timer.
`Turn` is a change of the user's rights, which builds the editor again from the
snapshot it once loaded. Images get their file id when their upload is answered
(`UploadEnds`); the ids the client knows go out with each save. `lost` is a
history variable: what a step gives up, by name (see
[What the models showed](#what-the-models-showed)).

### PluginAdapter (`server/ws/plugin_adapter.go`, `plugin_adapter_client.go`)

`calls` are the hooks that run, each a record with its place (`pc`); one action
is one lock section of a hook. `listeners`, `byUser` and `byTeam` are the three
indexes, `pacs` the records they point at, by number, so that a record outlives
its place in the map, as in Go. The lists are sets: their order, and a record that
is in one twice, make no difference to who hears what. `locked` says that a hook holds `listenersMU`
over several steps: only `removeListener` does, while it goes through the teams of
the record (`TakeOut` to `Forget`). `removeListenerFromTeam` is `ReadTeam`, `WriteTeam`
and `DropTeam`. `removeExpiredForUserID` reads the time of a record's closing twice: `isActive` is
`Stale`, `hasExpired` is `Expiry`.
`Open`, `Close`, `Watch` and `Post` are the host server and the web client, whose
`wsclient.ts` sends its subscriptions again on every connect; `Restart` empties
the plugin under open connections. `unheard` and `harmed` are history variables:
what was said before a restart and not again, and the pairs of record and team
that a hook of another connection has undone: taken out of a list or put back into one by a
stale copy, or removed from the map while the record was active or in place of an older one.

### BoardMembers, ViewAccess (`app/boards.go`, `app/view_access.go`, `viewAccess.ts`)

`BoardMembers` is one open board and its rows in `board_members`. A request is two
steps: it is judged, by what the rows say then (`AddMember`, `JoinBoard`,
`UpdateMember`, `DeleteMember`, `LeaveBoard`), and writes later (`WriteMember`) or
fails. `HasRank` is `GetBoardPermissions`. There are two guards of the last manager: the one of the API counts the
rows as listed, with team managers promoted (`CanDowngradeLastBoardManager`), the one of the app
the rows alone (`IsLastAdmin`). `overrun` is a history
variable: some write has landed on members its request had not judged.

`ViewAccess` extends it by the views of the board. `MayTouch`, `MayMove` and
`MayDelete` are the three stages of `requireViewWritePermission`. `req[r]` is a
request: judged when it starts, with `before` the row as the gate saw it; a patch
then reads the row and writes all of it back (`ReadRow`, `WriteRow`), as in
`CardTreeRequests`, loads it once more and queues its news (`TellChange`). Other
handlers have the steps their store calls make. `queue` are the callbacks of
`blockChangeNotifier`, `client[u]` the copies of the views on the page of `u`.
`excused` is a history variable, of what the properties exempt:

| Name | What has happened |
|---|---|
| `crossed` | a request took a shared view away that was judged before another one took a shared view |
| `batch` | a batch made two views private, each judged with the other still shared |
| `stale` | a patch, a delete or a restore met a row that is not the one it was judged on |
| `by position` | a batch compared rows with those of other views, for the database returned them in another order |
| `cut short` | the callback of a batch met a view that is gone |
| `told late` | a view that was deleted was restored before its deletion was queued |
| `untold` | a view was gone when the patch of it came to tell |
| `half done` | the copy of a view was made, and clearing its mode failed |

The last part of `ViewAccess` are the menus of the client, in the words of
`viewAccess.ts` and `viewTabs.tsx`.

## What the runs check

Runs that pass:

| Run | Properties | Shows |
|---|---|---|
| `card_tree` | `NoDanglingParent`, `DepthsRight`, `NoCycle` | no order of requests that run one after the other breaks the tree, also when cascades fail half way |
| `card_tree_requests` | `NoCycle`, `ImplementsContract` | a request that runs alone, store call by store call, implements `CardTree`; one request at a time that links, with creates, deletes and failures overlapping it, closes no cycle |
| `scheduled_comments` | `AnnouncedAtMostOnce`, `WithinLimit`, `CanceledIsFinal`, `EveryCommentIsSettled` | one node, its ticks overlapping a user's cancellations and deletions, with a crash or a failed store call anywhere: nothing goes out twice, the limit holds, a canceled comment nobody has in hand is never taken up again, and every pending comment is sent, canceled or deleted in the end, also behind one that is refused each time |
| `notifier_told` | `EveryChangeIsTold` | changes of the card, committed in stamp order: two nodes, two subscribers who edit too, and no change falls between hints |
| `notifier_once` | `NoRepeat` | while runs for the card do not overlap nothing is delivered twice, by hints and forced notifications in any order, while users come, go and are mentioned |
| `mutator` | `BackWhereItWas`, `StackTellsEffect`, `GroupsWhole`, `PropertiesExist`, `ConversionKeepsTexts`, `DepartmentsInRange` | the real commands on six boards, any two of them with undos, redos, a group and failing calls: undo goes back to what was there, and properties and departments stay consistent through it |
| `client_sync` | `InStep`, `ListsAgree`, `PageIsUrl` | two boards and their blocks, two changes, late, lost and batched messages against page loads: when nothing is on its way, the store holds the newest version of everything but what was given up at a named place, lists and maps agree, and the page shows the board of the address |
| `card_views` | `CardsOnce`, `OrderListsOnce`, `DropLands`, `OthersKeepPlace`, `NewCardIsShown` | fifteen views, two moves and a change of somebody else: every card is drawn once, a drop lands where it was drawn and moves nothing else, a new card is not hidden by the filter it was made under |
| `card_editor` | `EditsReachServer`, `ImagesHaveFiles` | two editors of one card, by one client or two: whatever is not given up by name is on the server in the end and stays there, edits and file ids of images |
| `plugin_adapter` | `AudienceWatches`, `IndexesAgree`, `HooksReturn` | three connections of two users and restarts of the plugin: when no hook runs, the audience of a team is its open watchers, but for what was undone in a named way; the indexes agree, a connection has one record, every hook returns |
| `view_access` | `ManagerRemains`, `SharedViewRemains`, `PagesAgree`, `MenusMatchGate` | requests on members and views, judged and then written, two at a time: a manager and a shared view remain, and when all is settled every page holds what its user may see, but for what is excused by name; on a page that is in step the menus offer what the gate lets through |
| `callback_queue` | `DrainedWhenTrue`, `StartedInOrder`, `EnqueueReturns` | when `Shutdown` returns true, what was sent before it has run to its end; one thread keeps the order, through the hand-over to the drain; a sender that waits when `Shutdown` is called gets through |

Each property of these runs is also checked against a mutant: an operator named
in `PROJECT.json`, marked "Mutant of" or "Variant" in its module, that changes one
handler the way a slip in the code would. None of them is used by a specification.

## Bounds

| Bound | Where | Why it is enough |
|---|---|---|
| 5 cards, depth limit 3 | `CardTree.cfg` | a card with two levels below it can be linked under a card with a parent; the limit is met from both sides. The proofs hold for any number |
| `DepthBound` 3 | `CardTree.cfg` | binds only where restores let stored depths drift |
| 5 cards, limit 3, one request alone; 4 cards for two that overlap | `CardTreeRequests.cfg` | a linked card has sub-cards that have some of their own: both recursions branch and nest. The shortest races need two requests; four cards let a walk pass over one in the middle while another is made |
| 3 comments, limit 2, clock to 2, 1 failure | `ScheduledComments.cfg` | more comments than the limit, two due at once, one rescheduled past the other, one that is refused each time. The 30 days of the upper limit are beyond the clock and left out |
| `announced` up to 2 | `ScheduledComments` | 2 stands for "again" |
| `MaxChanges` 3, `MaxStamp` 4 to 6, `Writers` 1, `MaxRuns` 1 or 2 | `Notifier*.cfg` | one change that is being notified, one that comes in during that, one after; `Writers` bounds the changes between stamp and commit |
| six boards, 2 commands, 1 in flight, 1 group, `Room` | `Mutator.cfg` | a command is undone, another takes its place, or both are of a group; each board has the cards, properties and view its commands need. Two calls in flight, more commands and groups are for the proofs, for which `Contents` and `Commands` are there (empty in the runs: nothing they check uses them) |
| 2 boards, 4 blocks, 2 changes, 2 runs, 1 retry | `ClientSync.cfg` | a change before and one after an answer; two comments of a card, one of them new; a load that is overtaken by the next one or by a reconnect; the last retry |
| 3 cards, 2 new, depth limit 2, 15 starts, 2 moves, 1 change of others | `CardViews.cfg` | a drop after an add, on a table, kanban, gallery, flat, nested, orphaned, sorted, filtered and grouped; one drop and one add under way. A third move repeats what two can do but for longer order lists |
| 2 editors, 2 clients, 3 edits, 1 image, 1 failure, 1 turn | `CardEditor.cfg` | an edit on its way, one that waits and one after the hand-over; an editor closed with its save still out while the next one loads. Also checked once with two failures (1,037,350 states) |
| 3 connections, 2 users, 1 team, 6 events | `PluginAdapter.cfg` | one user with two connections, so that a new one removes the stale record of the other; a third connection of another user whose subscription crosses that. Teams meet only in the loop of `removeListener`. Events are openings, closings, changes of page and restarts |
| queue of 1, pools of 1 and 2, 2 producers, 2 callbacks each | `CallbackQueue.cfg` | the queue fills, both producers block, threads and drain race for what is left |
| 3 users (manager, editor by the board, team manager), 2 views in any modes and room for one more, 2 requests on views and 1 page load; or 4 on members; or 1 of each | `ViewAccess.cfg` | two requests that each count on the other's view, a batch of two, a patch that a second one overtakes, a copy; on members two overlaps, one after the other. Three requests on views, as far as they were searched (786,000 states), broke nothing more. One thread calls back (`InOrder`) |

Symmetry is used for cards, views and requests, in runs without a liveness property. Deadlock checking is off
where a system may rest: all ids handed out, the clock at its bound, the pool
gone.

## Fairness

- `ScheduledComments`: weak fairness of the clock and of the steps of a job that
  has started, strong fairness of a tick that finds something due. A ticker has a
  goroutine of its own; in the run the worker of the node also carries requests,
  so that they fall between its ticks, and strong fairness says that they do not
  put the ticks off for ever. Crashes and failures are at most `MaxFailures`: a
  node that keeps crashing sends nothing. Requests are never owed.
- `SubscriptionNotifier`: weak fairness of `Commit`, of the callback, of the
  interval (`HintDue`), of each node's loop and of a forced run that has started.
  The loop always waits with a timer, so it comes back without a wake-up.
- `CardEditor`: weak fairness of what an editor has under way (timers fire, calls
  reach the server and are answered, or fail, at most `MaxFails` times) and of
  uploads. Users owe nothing: they need not edit, close or come back.
- `PluginAdapter`: weak fairness of the steps of hooks, taken together: goroutines
  run, and a mutex that is free is taken by somebody. Users and the host owe
  nothing.
- `CallbackQueue`: weak fairness of a send that has room or waits for it, of the
  threads and of `Shutdown` once it was called. Callbacks are taken to end.

`Mutator`, `ClientSync`, `CardViews` and `ViewAccess` are checked for safety only; what should
hold when everything has arrived is stated of the states in which nothing is on
its way (`Settled`, `Idle`).

## What is proved

`CardTreeProofs` proves, for every set of cards, every board and every depth
limit, by the assumptions `BoardAssumption` (the board is not a card) and
`DepthAssumption` (the limit is a natural number):

- `TypeCorrect`: `Spec => []TypeOK`;
- `TreeInvariant`: `Spec => []TreeInv`, with `TreeInv == TypeOK /\
  NoDanglingParent /\ DepthIsLevel /\ DepthWithinMax`;
- `NoDanglingParentHolds`, `DepthsHold`, `NoCycleHolds`: the three safety
  properties of the tree, from `TreeInv`;
- `NeverOrphansHolds`: `SpecWithRestore => NeverOrphans`, an action property that
  needs no invariant but the shape of the cascade and of the writes. No run
  checks it.

`NoDanglingParent`, the depths and the limit are only inductive together. A link
keeps `DepthIsLevel` because it shifts the whole subtree by the same amount
(`ShiftKeepsLevels`), which needs that the new parent is not in that subtree
(`NotAboveNotBelow`: the walk up of `checkCircularReference` and the walk down of
`updateSubCardsDepth` see the same edges). It keeps `DepthWithinMax` because the
levels `getMaxSubCardDepth` counts are differences of stored depths
(`LevelsAreDepths`), true only while depths are levels. `NoCycle` need not be part of the
invariant: a cycle would need depths that grow for ever (`DepthGrowsDownward`).

About `CardTreeRequests` it proves, for any number of requests, whatever each may carry
and wherever it may fail (`RequestsAssumption`, and the two assumptions above):

- `RequestsTypeCorrect`: `ReqSpec => []ReqTypeOK`;
- `NoCycleWithOneLinker`: `OneLinker` implies `ReqSpec => []NoCycle`. `OneLinker` says
  that at most one request may link and unlink, as `Allowed` says in the run; two of
  them do close a cycle (see the variants), so the hypothesis cannot be dropped;
- `NoCycleWhileAlone`: `ReqSpec => [](alone => NoCycle)`, without that hypothesis;
- `RequestsImplementContract`: `ReqSpec => ImplementsContract`.

Stored depths are of no use against cycles here: a delete or a failure that overlaps
leaves them wrong. `LoopInv` asks only that *some* ranking of the cards in `Nat` falls
along `Hangs`: from a card to the parent in its row, and to the parent a patch under
way is going to write. `ReadRow` and `WriteRow` then move an edge from one kind to the
other. When a link passes its check, everything that hangs under the card, at any
distance, is lifted above the new parent (`AcceptedIsRanked`): possible because the
card is not above that parent, and because nobody else has an edge in hand, which
is what one linker, or none beside it, gives. A new card is ranked above its
parent (`InsertedIsRanked`); a row that a late write brings back was an edge in hand already.

For the refinement, `SoloInv` states for each place of a request that runs alone what
its record means: before the move, the checks as the table has them now; after
it, that the calls left in `todo` are about disjoint subtrees, with the depths the
patches are going to write (`ShiftsLeft`); in a cascade, that the sub-cards of a card whose
row is to go go before it (`DeletesLeft`). Each step then leaves `SettledDepth` as it
is (a row that is patched leaves what is owed and gains the shift, `SoloShifts`), or
is the one step of the contract: an insert, the write of the moved row (`SoloMoves`),
the removal of one row that no row is under any more (`SoloRemoves`).

`CallbackQueueProofs` proves, for every finite set of producers and threads,
every pool made of them, every positive size of the queue and any number of
callbacks (`QueueAssumption`):

- `QueueInvariant`: `Spec => []QueueInv`, the inductive invariant;
- `TypeCorrect`: `Spec => []TypeOK`;
- `DrainedHolds`: `Spec => []DrainedWhenTrue`;
- `OrderHolds`: `Spec => []StartedInOrder`.

`DrainedWhenTrue` speaks of one state of the shutdown and is not inductive.
`QueueInv` follows each callback that was sent in time: it is queued, in the
hands of an executor, or called (`NoneLost`), and the drain has nobody beside it
(`Phases`), so an empty queue at the end of the drain leaves only "called". The
bound on the length of the queue in `TypeOK` counts the blocked senders: each
stands in line once (`OneInLine`), so the tail of the queue maps one to one into
the producers (`LineBounded`). For the order, `OrderInv` says that what was
called, what is in hand and the queue, one after the other, are what was sent;
that there is at most one in hand is `OneAtWork`, which is where the pool of one
and `Phases` come in.

`UndoManagerProofs` proves of the undo manager, for any set of commands and contents that are
closed (`Closed`: what a command on the stack or its undo makes of a content is a
content), any number of commands and groups, any number of calls in flight and
any failures:

- `TypeCorrect`: `Spec => []TypeOK`;
- `UndoInvariant`: `Spec => []UndoInv`, the inductive invariant;
- `StackHolds`: `Spec => []StackTellsEffect`;
- `GroupsHold`: `Spec => []GroupsWhole`.

`StackTellsEffect` alone is not inductive: an answer that comes while a run is
under way changes nothing (`PerformEnds`), so it has to be known that ids are not
used twice (`IdsInv`), that a call in flight is in effect from the moment it
reached the server (`CallsInv`), and which side of the call the run is on
(`WorkInv`). For the groups, `GroupInv` says that while calls do not overlap the
commands of a group stand together, and that a run that ended has not ended
between two of them.

The second part of the module goes on from there: `BackHolds` is `Spec => []BackWhereItWas`,
under `Reverting(leads, behind)`, which speaks of single commands only: a recorded command
leads from one content to another, its undo leads back from there and a repeatable redo
leads there again; and both do the same to a content that is `behind` another, of which a
user sees the same. The inductive `BackInv` says that there is a past, a content for each
place of the stack, such that each command on the stack leads from one to the next and a
shot is what was visible of it, and where the content stands while a call is under way.

The third part proves of `BoardPatches`, with no bound on keys and values, of blocks and
boards that are functions (`IsMap`): `BlockPatchLeads` and `BlockPatchesRevert`
(the two patches of a block are inverse to each other, whatever the client
believes to be a copy), `BoardFieldsRevert` (the same for the own keys and the
properties of a board, if both forms have the same own keys) and
`TemplateListsRevert` (when the list of template ids changes, the whole list
comes back, if the templates have both flags: `Whole`). The case of an unchanged
list is left to TLC: there the code sends single templates, and flags that one
form lacks are lost (see below).

The fourth part puts the two together for the commands of `Mutator`. `SessionsGoBack` is
`Spec => []BackWhereItWas` for a session of them (`MutatorSession`), of which each is
`Undoable` on the content it was given for: it inserts nothing and its undo, right after it,
restores that content (`Plain`), or it inserts blocks for which the server has ids
(`Insertion`). What has to be proved is that an undo also works later, on a content that
came about in another way: an insert that was undone leaves its blocks behind, deleted, and
what the server makes of a command does not depend on them (`Behind`, `ApplyBehind`,
`InsertionBack`). That commands are undoable is then proved one kind at a time:

- `FieldCommandsUndoable`, `ViewCommandsUndoable`: what a patch of given fields sets, also the
  five fields of a regrouped view and the two lists of columns;
- `BoardCommandsUndoable`: title, icon, description and whether it is shown;
- `ValueCommandUndoable`: a property value, with the departments it drops;
- `NewPropertyUndoable`, `MovedPropertyUndoable`: a property added, copied or moved, with the
  column of the table, on a board whose templates are `Whole`;
- `MemberCommandsUndoable`, `FollowCommandsUndoable`, `BlockCommandsUndoable`: members, followers,
  deletes and everything that inserts.

- `DeletePropertyUndoable`: the deletion of a property, with what the view and the cards say of it.

Not among them are the commands that send single templates (the options, the types): there flags
can be lost, and the run `mutator` stands.

The fifth part is about what a session keeps true of its content, one call at a time. `SessionsKeep`
is the frame: take any set `Good` of contents that does not hang on what cannot be seen, in which
sessions begin, and out of which no command leads that was given on a good content (`Keeps`);
then the content is good whenever no two calls have overlapped, also after any undo and redo.
`Good` alone is not inductive: the next undo could lead anywhere. `GoodInv` adds that each shot on the
stack is what could be seen of some good content, and `BackInv` that undo and redo arrive
where such a shot was taken. Two properties of the contents follow, for boards and cards of any
number:

- `PropertiesExistHolds`: `Spec => []PropertiesExist`, if each command on offer deletes a property of
  the board (`Deletes`) or can be undone and `Adds`: it takes no property off the board and refers to no
  other than those referred to before or on the board. That `deleteProperty` finds every reference is
  `DeleteKeepsThere`; that the patches leave the board with exactly the ids of the new list, sent whole or
  one by one, is `BoardIds`. `ReferencesAdd` (values, columns, sorting, filter, grouping), `TemplatesAdd`
  (insert, copy, move), `FieldsLeave` and `OthersLeave` (other fields, the board's own,
  members, followers, deletes) prove of the commands that they are such.
- `DepartmentsInRangeHolds`: `Spec => []DepartmentsInRange`, if each command on offer gives a card
  a value (`GivesValue`; departments are offered of the divisions the card has) or leaves the values
  alone (`LeavesValues`, again `FieldsLeave` and `OthersLeave`). It needs that no property is a division and
  a department at once, which follows from `OneOfEach`.

`ConversionTextsHold` is `Spec => []ConversionKeepsTexts`: in every state, with calls overlapping or not,
a text turned into a select shows the same on each card. It needs a board with one property of each
id and as many fresh ids as there are cards (`Convertible`); the argument is that the options made are
one for each text (`OptionsMade`, from the cardinalities of finite sets) and that the server, which is sent
the one template that differs, has it as it was sent (`SameIdsPatched`, `TemplateConverted`).

What a `filter` leaves is proved once, for any list and set (`FilteredSet`), from the fold
by the least index at which it could go wrong; the same holds for inserts into a list, removals and
joins (`InsertedSet`, `RemovedSet`, `JoinedSet`).

`ScheduledCommentsProofs` proves, for any set of comments, workers and refusals,
any clock and any number of failures (`ScheduledAssumption`):

- `JobInvariant`: `Spec => []JobInv`, what a job has in hand and has copied;
- `TypeCorrect`: `Spec => []TypeOK`;
- `AnnouncedOnceHolds`: `Spec => []AnnouncedAtMostOnce`, if `OneSender`: at most one
  worker carries ticks, send-nows or updates. Cancellations, creates and crashes
  may come from anybody at any time;
- `CanceledFinalHolds`: `Spec => CanceledIsFinal`, with no such assumption;
- `LimitHolds`: `Spec => []WithinLimit`, if `OneCreator`: at most one worker creates
  and reschedules.

Both assumptions are about what the code leaves out: nothing locks a comment
between the read of a job and its write, or the count and the insert, and
[Variants](#variants) has the counterexamples with two of them. `OnceInv` needs that
whatever was announced is decided, and so not in any list a tick takes up; that
the rest of a list names each comment once (`Fresh`); and that nobody else can
write a copy back that is older. A cancellation can, but it only ever writes
"canceled". `LimitInv` keeps room for the comment that is counted but not
inserted, and for the one an update is about to set back to pending.

`SubscriptionNotifierProofs` proves, for any nodes, users, writers and number of
changes:

- `TypeInvariant`: `Spec => []Inv`, `TypeOK` with `Called`: `BlockChanged` runs at
  most once for each stored change;
- `TypeCorrect`: `Spec => []TypeOK`;
- `NoRepeatHolds`: `Spec => []NoRepeat`, if `OneRun`: runs do not overlap and the
  changes are of the card itself. Changes may be committed in any order.

The argument is that of a cursor: nothing later than every subscriber's
`notified_at` has been told, but for what the run in hand is telling, and a run
moves all of them to the newest change it has read. The least and greatest
stamps that the code gets from its queries exist because the sets are not empty
and bounded (`LeastExists`, `GreatestExists`).

`ViewAccessProofs` proves of the members, for any users, team managers, roles and
number of requests in flight:

- `TypeCorrect`: `Spec`, here `MembersSpec`, keeps `MembersTypeOK`;
- `ManagerRemainsHolds`: `MembersSpec => []ManagerRemains`.

The invariant, `Inv`, is `ManagerRemains` with `Judged`: a request that waits to take a
manager away and has not been crossed still leaves another one, if its row is the
one it judged. `ManagerRemains` alone says nothing of what waits to be written. A
write that gives a manager keeps all others judged; one that takes a manager marks
the others as crossed.

Of the views it proves, for any users, any finite set of views (a board has
finitely many; the batches list them) and any number of requests in flight:

- `ViewsTypeCorrect`: `Spec => []TypeOK`;
- `BoardKeepsManager`: `Spec => []ManagerRemains`. `ViewAccess` takes the steps of
  `BoardMembers` and leaves the members alone otherwise (`SpecRefines`), so what
  was proved of `MembersSpec` holds here;
- `SharedViewRemainsHolds`: `Spec => []SharedViewRemains`;
- `PagesAgreeHolds`: `Spec => []PagesAgree`, if callbacks run in the order of their
  calls (`InOrder`). The pool of the server has ten threads, which do not keep it:
  the counterexample without `InOrder` is in [Variants](#variants);
- `MenusMatchGateHolds`: `Spec => []MenusMatchGate`, with or without `InOrder`.

`Base` is the types with what a request has in hand at each of its steps.
`SharedInv` does for the last shared view what `Judged` does for the last manager:
a request that was let through with another shared view beside the one it takes
still has one, as long as no other write that takes one has crossed it.

`PagesAgree` and `MenusMatchGate` speak of the states where every request has
returned and every callback has run, and an invariant about those says nothing of the steps
up to them. `PagesInv` says of every user and view where the truth is: in the copy,
or in a piece of news in the queue, with nothing behind it that would make the
copy untrue again (`Settles`); or a request that has written has yet to send that
news (`Announces`). Queues are sequences of any length, so `Settles` is not a fold but
names a place in the queue, and the lemmas about it say what a send, a callback
and a reload make of it.

`ClientSyncProofs` proves, for any boards, any finite set of blocks, any connections and retries
and any order of answers, messages, reconnects and navigations:

- `PageIsUrlHolds`: `Spec => []PageIsUrl`;
- `SyncInvariant`: `Spec => []SyncInv`;
- `InStepHolds`: `Spec => []InStep`;
- `ListsAgreeHolds`: `Spec => []ListsAgree`.

`PageIsUrl` speaks of the states where no load is under way. The inductive `PageInv`
adds what is under way until then: every run of the effect is for the board of
the address (`RunsOfUrl`), and one of them will load its blocks (`Leading`), or, as long
as the user is not known, will start the one that does.

`InStep` speaks of the states where nothing is under way either. `SyncInv` accounts for
the newest version of every board and block at any time (`Accounted`): it was given
up, at one of the places `Excused` names; or it is on the wire and the last of its id
there; or it is in the queue and there is none on the wire; or the store was given it last; or nobody has
changed the id since the start. `SeenInv` and `StoreInv` say that what the store was given
last it holds: all boards once the user is known, all blocks of a board once it is
loaded. `MessagesInv` has the one thing the queue is built for, that it holds no two
messages of an id, so that the order within a batch does not matter, and `AnswersInv`
that an answer, however late, tells a version there has been. `SliceOK` is `ListsAgree` as the reducers
keep it item by item: what is held of a card is in its list, once, and nothing else is.
A flush folds the reducers over a batch of any length. `...Unfolds` name the values of
the fold between two items, and the induction over them is `UpTo`: of the places where a
claim fails there would be a first one (`WellFoundedInduction`), and there it does not fail.

`SyncAssumption` asks what the code has: finitely many blocks, and no id that is a
board's and a block's at once, or the `NoBoard` of a page that shows none.

`PluginAdapterProofs` proves, for any connections and users, any finite set of teams and
any number of hooks in any order, if the hooks of one connection run in turn
(`Overtakes = {}`, as in the run):

- `TypeCorrect`: `Spec => []TypeOK`;
- `IndexesAgreeHolds`: `Spec => []IndexesAgree`;
- `AudienceWatchesHolds`: `Spec => []AudienceWatches`.

The assumption is needed: with `Overtakes = {"connect"}` a connection gets two
records ([Variants](#variants)). Hooks of different connections overlap as they like, also when they
are connections of one user, which look through the same list of records and remove from it.
The two properties speak of the states where no hook runs; the inductive `WatchInv`
is built up in four layers, each of which says what holds while hooks run:

- `HooksInv`: one hook of a connection at a time, what it has in hand at each of its
  places, and that the lock is held by the one removal under way;
- `MapsInv`: a list by user is what the map says of its connections at any moment, for both change under one
  lock (`UsersInv`); a hook that comes back to the record it has found under its
  connection finds it there, or nothing, but no other (`OwnInv`); a
  record is active when its connection is open or a hook of it has still to say otherwise (`ActiveInv`);
- `ListsInv`: a list by team and the teams of a record agree, but for the hook that has
  changed one and not yet the other (`ListedInv`); a record that is not in the map is in
  no list by team but where it was put back (`UnlistedInv`), since a removal has in hand every team the
  record still has (`RemovalInv`), unless what it removes will count as harmed at its end (`Doomed`);
- `WatchInv`: the last message on its way about a team says what the page wants, and a connection
  that has just opened says all of it again (`SaidInv`, `AgainInv`); what a record has, its page watches, or a
  message about it is on its way (`HasInv`); what an open page watches, its record has, or
  such a message is, or it is unheard or harmed, or the record is being removed (`WatchedInv`).

Each layer is kept by every step of a hook, of the host and of the client, and the lemmas are named so:
`...KeepsHooks`, `...KeepsMaps`, `...KeepsLists`, `...Talks`.

Only model-checked, with the reason:

- everything under fairness (`EnqueueReturns`, `EveryCommentIsSettled`,
  `EveryChangeIsTold`, `EditsReachServer`, `ImagesHaveFiles`, `HooksReturn`): liveness is
  out of the prover's reach;
- `CardsOnce`, `DropLands`, `OthersKeepPlace`, `NewCardIsShown`, `OrderListsOnce`
  of the views: nesting is recursive.

## What the models showed

What the code does, and the passing runs step round by a named condition or a
constant:

- Undo. On a board whose stored templates have no `required` key, making a property
  required cannot be undone: `isPropertyEqual` (`blocks/board.ts:354`) walks the
  keys of its first argument only, and in the direction of the undo the first one
  is the stored form, without the key. A call of undo or redo that throws leaves `isExecuting` set: undo is dead
  until the page is loaded again, and nothing is registered any more
  (`undomanager.ts:49`). The redo of an insert makes a block with a new id, so
  commands above it speak of one that is gone (`Repeatable`). A patch the server
  refuses with 403 is registered as done, for the answer is not looked at. A
  command given by somebody while a group is open and its call is out joins the
  group (`GroupsWhole` asks for `alone`). On a board without cards a change from
  select to multiSelect loses the options (`changePropertyTypeAndName`). On the
  server, as soon as one template of a patch has an index, those without
  one are dropped (`model/board.go:373`); the client sends all or none.
- Keeping in step. A page load that was served before a change, and answered after its message, puts
  the old version back. A reconnect loads the boards, not the blocks, so blocks
  that changed while the socket was closed stay old. `updateComments` returns,
  instead of going on, at the first comment whose card has no list yet; the rest
  of the batch is left out. After the last retry nothing reopens the socket. A
  user who navigates while a page loads may end with the blocks of the earlier
  board.
- Views. An order list is written from what the client holds: the order `addCard`
  sends after its insert replaces one that a drop has written in between, and a
  drop and somebody else's change of the list lose one of the two. A card dropped
  on a column whose last card is dragged as well lands at the front of the list,
  for the place is measured after the cards were taken out
  (`kanban.tsx:165`). With a list that does not hold every card the comparator
  of `store/cards.ts:356` is not transitive. A new card under a filter "me" gets
  the literal `me` as its value. Of several sort options the last one wins. A
  drop in a table is several requests: after an unlink a refused link leaves the
  card at the top.
- Websocket adapter. `removeListenerFromTeam` reads the list of a team under the
  read lock, and stores the shortened copy under the lock in a section of its own
  (`ws/plugin_adapter.go:161`). A user who subscribes to the team in between is
  not in the copy: no broadcast of the team reaches them on this node, and as
  their record names the team, subscribing again returns early; leaving the team
  and coming back, or a new connection, repairs it. The comment at line 394 of the same
  file calls this a stranded client, and gives it as the reason not to drop a
  message. A stale record that is revived while another connection of
  the user removes it leaves an open connection that no broadcast reaches; its
  next message registers it anew, without the teams it had. The window is
  wider than the check suggests: `isActive` and `hasExpired` each load `inactiveAt` (line 155),
  and a record that is revived between the two has 0 there, which counts as expired. And two
  connections of a user may both find the same record stale: after the first removal its own
  connection registers again, and the second removal deletes that new record from the map, as
  it goes by the id of the connection (line 150). If that connection closes before its record is marked, the
  record stays in the list of its team, active for good. The same goes for the
  teams said before a restart of the plugin: the message that is adopted brings
  its own team only. A page that stops watching while its connection is away
  sends nothing, and the record that is revived still has the team.
- Members and views. Two managers who demote each other at the same time leave a
  board without any: each is judged with the other still there
  (`app/boards.go:751`); so does a demotion on its way while the one who should
  remain leaves. Likewise two views become private, or are deleted, by requests
  that overlap, or by one batch, and no shared view is left. A patch that
  overlaps a change of the mode writes the old mode back. A view deleted
  between the read and the write of a patch is there again, with whoever patched for its
  creator. A view that turns private and is deleted before its news is queued
  stays on the pages of the others: the patch ends in an error at
  `app/blocks.go:621`, and the deletion of a private view is told to its creator
  alone. The batch compares `oldBlocks[i]` by position (`app/blocks.go:730`),
  though the comment at line 679 says that the order is not promised. With the ten threads of the pool, news of one view may be
  called back in the other order. When a copy is made of an admin-only view and
  clearing its mode fails, the copy stays, admin-only, and nobody hears of it.
  In the menu of a private view the current mode is missing when one shared
  view is left, though `viewAccess.ts:50` says that it stays in the list: `isLastShared` is
  asked of the board, not of the view.
- Editor. What `CardEditor` counts as given up: the timer cleared by the first
  rerender or by closing before it (`useBlockSuiteEditor.ts:240`); a save that
  fails, which is not tried again, together with the snapshot that waits for it
  and is later saved in its place after a newer one (`:135`); the 100 ms in which a newer
  save may overtake; a change of rights, after which the editor starts again from
  what it loaded first; two editors of one card, of which the later save wins
  whole, without a look at the version; an upload that takes longer than the last
  save, after which the stored document has no id for the image. Also seen, and
  not in the model: empty badges are never sent to the server (`:83`); a closed
  card sends its notification before its pending save (`cardDialog.tsx:86`);
  "Saved" may show while a newer edit waits.

## Variants

The passing runs leave out, by their constants or a condition, what the code does
not promise in so many words. The models have the steps; with the changes below
TLC ends in a counterexample. These are not runs of the project, but they bound
what the passing runs say.

| What goes wrong | Start from | Change | Check |
|---|---|---|---|
| delete a sub-card, unlink and link its former parent below the card's own former child, restore: a cycle, for `undeleteBlock` checks nothing | `CardTree.cfg` | `SPECIFICATION SpecWithRestore`, 3 cards | `NoCycle` |
| two links that overlap close a cycle (so can an unlink that overlaps a link, by the row it writes back; that is why the listed run has one linker) | `CardTreeRequests.cfg` | `Allowed <- TwoLinkers` | `NoCycle` |
| a sub-card inserted while the cascade runs survives its parent | `CardTreeRequests.cfg` | `Allowed <- CreateAndDelete` | `NoDanglingParent` |
| a sub-card inserted while its parent is being linked ends up too deep | `CardTreeRequests.cfg` | `Allowed <- LinkAndCreate` | `DepthWithinMax` |
| two nodes announce the same comment | `ScheduledComments.cfg` | `Workers = {n1, n2}`, `Allowed <- TwoNodes`, no failures | `AnnouncedAtMostOnce` |
| a send-now, or an update, that overlaps a tick: the comment goes out twice | `ScheduledComments.cfg` | `Allowed`: `u1` carries `sendnow` or `update` | `AnnouncedAtMostOnce` |
| an update overlaps a cancellation and a create: one comment too many | `ScheduledComments.cfg` | `n1` carries `create`, `cancel`, `u1` carries `update` | `WithinLimit` |
| a tick that has the comment in hand sends it after its cancellation was answered | `ScheduledComments.cfg` | `CanceledIsFinal` without `~InHand(c)` | the same |
| changes of a child are told again whenever a run finds nothing new | `NotifierOnce.cfg` | `Kinds = {"child"}`, nobody subscribes, is mentioned or forces | `NoRepeat` |
| a user who subscribes again, or is mentioned, loses what was waiting | `NotifierTold.cfg` | `Nodes = {n1}`, `Subscribed = {u1}`, `Mentioned = {u1}` | `EveryChangeIsTold` |
| a change of the card that is stored after the card was read, and before a newer change of a child that the same run still reads, is never told | `NotifierTold.cfg` | `Nodes = {n1}`, `Subscribed = {u1}`, `Kinds = {"card", "child"}` | `EveryChangeIsTold` |
| a change that is committed after a newer one has been told is never told | `NotifierTold.cfg` | `Nodes = {n1}`, `Subscribed = {u1}`, `Writers = 2` | `EveryChangeIsTold` |
| a forced notification deletes the hint of a change it did not read | `NotifierTold.cfg` | `Nodes = {n1}`, `Linked = TRUE`, `Forces = {f1}`, `Subscribed = {u1}` | `EveryChangeIsTold` |
| a user who subscribes during a run gets the `notified_at` of the run, and misses or repeats changes | `NotifierTold.cfg` | `Nodes = {n1}`, `Subscribed = {u1}`, `Subscribing = {u2}` | `EveryChangeIsTold` |
| two runs that overlap deliver the same change | `NotifierTold.cfg`, or `NotifierOnce.cfg` with `MaxRuns = 2` | - | `NoRepeat` |
| two threads start callbacks out of order | `CallbackQueue.cfg` | `StartedInOrder` without the condition on the pool | the same |
| a callback is sent to a queue whose pool is gone: it never runs, and a full queue keeps its sender | `CallbackQueue.cfg` | `EnqueueReturns` without the condition on `early` | the same |
| an undo pressed while a command is in flight, or the redo of an insert: what is visible is not what was | `Mutator.cfg` | `BackWhereItWas` without `alone` | the same |
| a foreign command joins a group that is open, and undo leaves the group half done | `Mutator.cfg` | `MaxOpen = 2`, `MaxCommands = 3`, `Boards = {"organisation"}`, `GroupsWhole` without `alone` | the same |
| a late answer, a closed socket or an early return leaves an old version in the store | `ClientSync.cfg` | `BlocksInStep` or `BoardsInStep` without `Excused` | the same |
| a user who navigates while a page loads ends on another board than the address says | `ClientSync.cfg` | `PageIsUrl` without `~crossed` | the same |
| a drop or a new card that another change came across lands elsewhere, moves others, or is hidden | `CardViews.cfg` | `End` without `quiet` | `DropLands`, `OthersKeepPlace`, `NewCardIsShown` |
| a new card under a filter "me" is hidden by it | `CardViews.cfg` | `Fillable` without `~Contains(f.values, Me)` | `NewCardIsShown` |
| an edit, or the file id of an image, is lost in one of the ways named above | `CardEditor.cfg` | the property without `lost` | `EditsReachServer`, `ImagesHaveFiles` |
| the connect hook is overtaken by a message of its connection: both find no record, and there are two | `PluginAdapter.cfg` | `Overtakes = {"connect"}` | `IndexesAgree` |
| a user who subscribes while another unsubscribes is in no audience | `PluginAdapter.cfg` | 2 connections, `MaxEvents = 5` | `NobodyStranded` |
| a revived record is removed, or a restart is not followed by a new subscription | `PluginAdapter.cfg` | `AudienceWatches` without `Harmed`, or without `unheard` | the same |
| two connections of a user clean up the same stale record: the second removal takes out the record its connection has made since | `PluginAdapter.cfg` | `UserOf <- OneUser`, `Users = {u1}`, `MaxEvents = 7`; in `Unlisted`, without the condition on `p # k.pac` | `AudienceWatches` |
| two demotions that overlap leave no manager | `ViewAccess.cfg` | `ManagerRemains` without `~overrun` | the same |
| two requests that overlap, or one batch, take the last shared views | `ViewAccess.cfg` | `SharedViewRemains` without `"crossed"`, or without `"batch"` | the same |
| a page is left behind in one of the ways named above | `ViewAccess.cfg` | `PagesAgree` without one of the names | the same |
| two threads call back in the other order | `ViewAccess.cfg` | `InOrder = FALSE` | `PagesAgree` |
| "required" cannot be undone on a board whose templates lack the key | `Mutator.cfg` | `MissingFlags = TRUE`, `Boards = {"table"}` | `BackWhereItWas` |

## What is not modelled

- Raw writes of `parentId` and `depth` through the generic paths (the body of
  CreateCard, PatchCard, a block patch, import, duplicate): nothing checks them,
  so no property of the tree holds of them.
- In `CardTree` and `CardTreeRequests`: content blocks, property values,
  permissions (a refusal is a failure half way), the channel messages.
- In `ScheduledComments`: raw patches of the status through the block API,
  restores of deleted comments, the title of the comment, two creating requests
  of one user at the same time.
- In `SubscriptionNotifier`: equal time stamps, delivery errors (`notified_at`
  moves all the same), a crash of the loop after the pop, the wake-up channel,
  the 10 s timeout of `onNotifyHint`, hints of boards (no diff) and of content
  blocks (no subscribers).
- In `CallbackQueue`: what callbacks do, panics and errors (both only logged).
- In `UndoManager`: discardable commands and checkpoints (no caller), the
  listeners of the redo button.
- In `Mutator`: the optimistic writes into the store (`updateBlock` and the like
  before the request), imports, templates of boards, files, the texts of the
  undo descriptions. In `BoardPatches`: constructors of other block types.
- In `ClientSync`: categories, follows, the card limit, templates, teams, the
  authentication of the socket, error messages.
- In `CardLists` and `CardViews`: collapsed groups, row metrics that are stale when a drop is computed,
  conditions on dates and texts, the text search, orders by other types than
  names, default values of the OKR ladder, the calendar.
- In `CardEditor`: badges, the cache of blobs (`get`, in-flight requests), copying,
  the editor itself. Whole files of this part have no caller (`editor/editor.ts`,
  `blobEngine.ts`).
- In `PluginAdapter`: messages to the listeners of a board (members, minimum role,
  card filter), payloads, cluster messages, subscriptions to blocks (no caller),
  access to the team. The hooks of one connection run in the order in which the
  host started them.
- In `BoardMembers` and `ViewAccess`: boards linked to a channel and their members
  from it, guests, private boards, changes of the board's own minimum role, deleted boards; patches of a batch that differ; the
  optimistic change of the mode in `mutator.changeViewAccessMode`; the recipients
  by card rules; several nodes' news.
- Server components without a module: property access, categories, document rows, schema
  migrations, files, import and export, onboarding, statistics. They are one
  query each, or are next in the plan.
- Most of the client's lines are React components that draw, forms over one
  command each, styles of third-party widgets, and translations: markup without
  state of its own. The models cover the stateful part of it, about a tenth of
  its lines.

## Plan

Done: the server's card tree, scheduled comments, notifier, callback queue,
members, views and the listeners of its websocket;
the client's undo manager with its commands, the stores, the views and the
document editor; proofs of the tree and its requests, the queue, the undo manager, the patches, the
commands and what a session of them keeps, the scheduled comments, the notifier, the members, the views'
access, the page's board and stores and the listeners of the websocket.

To come, in this order:

1. `Mutator` over `ClientSync`: commands computed from a store that lags behind,
   with the optimistic writes; then `BackWhereItWas` with two users.
2. Boards linked to a channel, guests and private boards in `BoardMembers`;
   property access as operators.
3. `BlockStore`: rows and history under `insertBlock`, `patchBlock`, delete and
   restore; an abstract store with atomic patches.
4. `PluginAdapter` as the server side of `ClientSync`; the cluster messages.
5. The sidebar's categories and their order by drag and drop.

Theorems to come: `OrderListsOnce` of the views with nesting as closed sets.
