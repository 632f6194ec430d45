--------------------------- MODULE ClientSyncProofs ---------------------------
(***************************************************************************)
(* Proofs about ClientSync, for any boards, blocks and retries and any     *)
(* order of answers, messages, reconnects and navigations: where a user    *)
(* who does not navigate while a page is loading ends, and what the stores *)
(* hold.                                                                   *)
(*                                                                         *)
(* That the page shows the board of its address when nothing is on its way *)
(* is not inductive.  PageInv adds what is on its way until then: a run    *)
(* that will load the blocks of the address, and, as long as nobody knows  *)
(* the user, a run whose answer starts that one.                           *)
(*                                                                         *)
(* That the stores hold what the server does is not inductive either.      *)
(* SyncInv accounts for the newest version of every id: it was given up,   *)
(* is the last of its id on the wire, is in the queue with none on the     *)
(* wire, or was given to the store last (or nobody has changed the id).    *)
(* And what the store was given last it holds, unless a reducer left it.   *)
(*                                                                         *)
(* A batch is a fold over its items.  LEMMAs ...Unfolds name the values    *)
(* between two items, and UpTo is the induction over them.                 *)
(***************************************************************************)
EXTENDS ClientSync, FiniteSetTheorems, SequenceTheorems, WellFoundedInduction, TLAPS

-----------------------------------------------------------------------------
(* What is on its way to the page.                                         *)

\* What a run may wait for.
Steps == {"boards", "reconnect", "board", "blocks", "join", "again"}

\* A run has the fields of one, whatever answer it carries.
RunShape(r) ==
    /\ {"board", "me", "step", "snapshot"} \subseteq DOMAIN r
    /\ r.me \in BOOLEAN
    /\ r.step \in Steps

\* The run goes on until the blocks of its board are there.
Loads(r) ==
    \/ r.step \in {"board", "blocks", "join", "again"}
    \/ r.step = "boards" /\ r.me

\* A run that knows the user was made when the page did.
RunsInv ==
    /\ me \in BOOLEAN
    /\ \A r \in runs : RunShape(r) /\ (r.me => me)

\* Every run of the effect is for the address, and past its first answer the
\* address is the current board.
RunsOfUrl ==
    \A r \in runs :
      /\ r.step # "reconnect" => r.board = url
      /\ r.step \in {"board", "blocks", "join", "again"} => current = url

\* Something leads to the blocks of the address, or they are there.
Leading ==
    IF me THEN (\E r \in runs : Loads(r)) \/ (current = url /\ loaded = url)
          ELSE \E r \in runs : r.step = "boards"

\* What makes PageIsUrl inductive.
PageInv == RunsInv /\ (~crossed => RunsOfUrl /\ Leading)

-----------------------------------------------------------------------------
(* Runs, one after the other.                                              *)

\* A run is made as it is asked for.
LEMMA RunMade ==
    ASSUME NEW n, NEW board, NEW user \in BOOLEAN, NEW step \in Steps
    PROVE  LET r == Run(n, board, user, step)
           IN  RunShape(r) /\ r.board = board /\ (r.me <=> user) /\ r.step = step
BY DEF Run, RunShape

\* At the start the first load is on its way.
LEMMA InitPage == Init => PageInv
<1> SUFFICES ASSUME Init PROVE PageInv
    OBVIOUS
<1> DEFINE first == Run(1, url, FALSE, "boards")
<1>1. runs = {first} /\ me = FALSE
  BY DEF Init
<1>2. RunShape(first) /\ first.board = url /\ ~first.me /\ first.step = "boards"
  BY DEF Run, RunShape, Steps
<1> HIDE DEF first
<1> QED BY <1>1, <1>2 DEF PageInv, RunsInv, RunsOfUrl, Leading

\* The server, the messages and the connection are nothing to the runs.
LEMMA RunsStay ==
    ASSUME PageInv, UNCHANGED <<page, runs, loaded, crossed>>
    PROVE  PageInv'
BY DEF PageInv, RunsInv, RunsOfUrl, Leading, page

\* The server answers: what leads to the blocks still does.
LEMMA ServeKeepsPage ==
    ASSUME PageInv, NEW r \in runs, Serve(r)
    PROVE  PageInv'
<1>1. PICK answer : runs' = (runs \ {r}) \cup {[r EXCEPT !.snapshot = answer]}
  BY DEF Serve
<1> DEFINE s == [r EXCEPT !.snapshot = answer]
<1>2. RunShape(s) /\ s.board = r.board /\ (s.me <=> r.me) /\ s.step = r.step
  <2>1. RunShape(r) /\ r.step \in Steps
    BY DEF PageInv, RunsInv, RunShape
  <2> QED BY <2>1 DEF RunShape
<1>3. UNCHANGED <<url, current, me, loaded, crossed>>
  BY DEF Serve, page, watched
<1>4. runs' = (runs \ {r}) \cup {s}
  BY <1>1
<1> HIDE DEF s
<1>5. RunsInv'
  BY <1>2, <1>3, <1>4 DEF PageInv, RunsInv
<1>6. RunsOfUrl => RunsOfUrl'
  BY <1>2, <1>3, <1>4 DEF RunsOfUrl
<1>7. Leading => Leading'
  BY <1>2, <1>3, <1>4 DEF Leading, Loads
<1> QED BY <1>3, <1>5, <1>6, <1>7 DEF PageInv

\* A reconnect adds a run that leads nowhere and takes none away.
LEMMA ReopensKeepsPage ==
    ASSUME PageInv, Reopens
    PROVE  PageInv'
<1> DEFINE s == Run(started + 1, url, me, "reconnect")
<1>1. runs' = runs \cup {s} /\ UNCHANGED <<url, current, me, loaded, crossed>>
  BY DEF Reopens, page, watched
<1>2. RunShape(s) /\ (s.me <=> me) /\ s.step = "reconnect"
  BY RunMade DEF Steps, PageInv, RunsInv
<1> HIDE DEF s
<1> QED BY <1>1, <1>2 DEF PageInv, RunsInv, RunsOfUrl, Leading

\* Whoever navigates while nothing is under way starts the run that leads on.
LEMMA NavigateKeepsPage ==
    ASSUME PageInv, NEW b \in Boards, Navigate(b)
    PROVE  PageInv'
<1> DEFINE s == Run(started + 1, b, me, "boards")
<1>1. /\ runs' = runs \cup {s} /\ url' = b /\ crossed' = (crossed \/ runs # {})
      /\ UNCHANGED <<current, me, loaded>>
  BY DEF Navigate
<1>2. RunShape(s) /\ s.board = b /\ (s.me <=> me) /\ s.step = "boards"
  BY RunMade DEF Steps, PageInv, RunsInv
<1> HIDE DEF s
<1>3. RunsInv'
  BY <1>1, <1>2 DEF PageInv, RunsInv
<1>4. ASSUME ~crossed' PROVE RunsOfUrl' /\ Leading'
  BY <1>1, <1>2, <1>4 DEF RunsOfUrl, Leading, Loads
<1> QED BY <1>3, <1>4 DEF PageInv

\* The answer to initialLoad leads on with the user, starts the run that will,
\* or is one answer more.
LEMMA InitialLoadedKeepsPage ==
    ASSUME PageInv, NEW r \in runs, NEW answer,
           r.step \in {"boards", "reconnect"}, InitialLoaded(r, answer),
           UNCHANGED crossed
    PROVE  PageInv'
<1> DEFINE next == [r EXCEPT !.step = "board", !.snapshot = NoSnapshot]
           effect == Run(0, url, TRUE, "boards")
<1>1. /\ me' = TRUE /\ UNCHANGED <<url, loaded, crossed>>
      /\ current' = IF r.step = "boards" THEN r.board ELSE current
  BY DEF InitialLoaded
<1>2. \/ r.step = "boards" /\ r.me /\ runs' = (runs \ {r}) \cup {next}
      \/ ~me /\ runs' = (runs \ {r}) \cup {effect}
      \/ me /\ ~(r.step = "boards" /\ r.me) /\ runs' = runs \ {r}
  BY DEF InitialLoaded, Follow, End, EffectOfMe
<1>3. RunShape(next) /\ next.board = r.board /\ (next.me <=> r.me) /\ next.step = "board"
  <2>1. RunShape(r) /\ "board" \in Steps
    BY DEF PageInv, RunsInv, Steps
  <2> QED BY <2>1 DEF RunShape
<1>4. RunShape(effect) /\ effect.board = url /\ effect.me /\ effect.step = "boards"
  BY DEF Run, RunShape, Steps
<1> HIDE DEF next, effect
<1>5. RunsInv'
  BY <1>1, <1>2, <1>3, <1>4 DEF PageInv, RunsInv
<1>6. ASSUME ~crossed PROVE RunsOfUrl' /\ Leading'
  <2>1. RunsOfUrl /\ Leading
    BY <1>6 DEF PageInv
  <2>2. \A x \in runs : x.step \in {"board", "blocks", "join", "again"} => current' = url
    BY <1>1, <2>1 DEF RunsOfUrl
  <2>3. r.step = "boards" => current' = url
    BY <1>1, <2>1 DEF RunsOfUrl
  <2>4. RunsOfUrl'
    BY <1>1, <1>2, <1>3, <1>4, <2>1, <2>2, <2>3 DEF RunsOfUrl
  <2>5. ASSUME r.step = "boards" /\ r.me /\ runs' = (runs \ {r}) \cup {next}
        PROVE  Leading'
    BY <1>1, <1>3, <2>5 DEF Leading, Loads
  <2>6. ASSUME ~me /\ runs' = (runs \ {r}) \cup {effect}
        PROVE  Leading'
    BY <1>1, <1>4, <2>6 DEF Leading, Loads
  <2>7. ASSUME me /\ ~(r.step = "boards" /\ r.me) /\ runs' = runs \ {r}
        PROVE  Leading'
    <3>1. ~Loads(r)
      BY <2>7 DEF Loads
    <3>2. current = url => current' = url
      BY <1>1, <2>3
    <3> QED BY <1>1, <2>1, <2>7, <3>1, <3>2 DEF Leading
  <2> QED BY <1>2, <2>4, <2>5, <2>6, <2>7
<1> QED BY <1>1, <1>5, <1>6 DEF PageInv

\* A run that loads goes on to its next request, or has given the page the
\* blocks of its board.
LEMMA LoadingKeepsPage ==
    ASSUME PageInv, NEW r \in runs, r.step \in {"board", "blocks", "join", "again"},
           NEW step \in {"blocks", "join", "again"},
           \/ runs' = Follow(r, step) /\ loaded' \in {loaded, r.board}
           \/ runs' = End(r) /\ loaded' = r.board,
           UNCHANGED <<url, current, me, crossed>>
    PROVE  PageInv'
<1> DEFINE next == [r EXCEPT !.step = step, !.snapshot = NoSnapshot]
<1>1. RunShape(next) /\ next.board = r.board /\ (next.me <=> r.me) /\ next.step = step
  <2>1. RunShape(r) /\ step \in Steps
    BY DEF PageInv, RunsInv, Steps
  <2> QED BY <2>1 DEF RunShape
<1>2. \/ runs' = (runs \ {r}) \cup {next}
      \/ runs' = runs \ {r} /\ loaded' = r.board
  BY DEF Follow, End
<1> HIDE DEF next
<1>3. RunsInv'
  BY <1>1, <1>2 DEF PageInv, RunsInv
<1>4. ASSUME ~crossed PROVE RunsOfUrl' /\ Leading'
  <2>1. RunsOfUrl /\ Leading
    BY <1>4 DEF PageInv
  <2>2. r.board = url /\ current = url
    BY <2>1 DEF RunsOfUrl
  <2>3. RunsOfUrl'
    BY <1>1, <1>2, <2>1, <2>2 DEF RunsOfUrl
  <2>4. ASSUME ~me PROVE Leading'
    <3>1. PICK x \in runs : x.step = "boards"
      BY <2>1, <2>4 DEF Leading
    <3>2. x \in runs'
      BY <1>2, <3>1
    <3> QED BY <2>4, <3>1, <3>2 DEF Leading
  <2>5. ASSUME me PROVE Leading'
    BY <1>1, <1>2, <2>2, <2>5 DEF Leading, Loads
  <2> QED BY <2>3, <2>4, <2>5
<1> QED BY <1>3, <1>4 DEF PageInv

\* An answer of any step is taken.
LEMMA AnswerKeepsPage ==
    ASSUME PageInv, NEW r \in runs, Answer(r)
    PROVE  PageInv'
<1>1. r.step \in Steps /\ UNCHANGED crossed
  BY DEF PageInv, RunsInv, RunShape, Answer
<1>2. CASE r.step \in {"boards", "reconnect"}
  <2>1. InitialLoaded(r, r.snapshot[1])
    BY <1>2 DEF Answer
  <2> QED BY <1>1, <1>2, <2>1, InitialLoadedKeepsPage
<1>3. CASE r.step = "board"
  <2>1. BoardLoaded(r, r.snapshot[1])
    BY <1>3 DEF Answer
  <2>2. runs' = Follow(r, "blocks") /\ UNCHANGED <<url, current, me, loaded>>
    BY <2>1 DEF BoardLoaded, page
  <2> QED BY <1>1, <1>3, <2>2, LoadingKeepsPage
<1>4. CASE r.step \in {"blocks", "again"}
  <2>1. BlocksLoaded(r, r.snapshot[1])
    BY <1>4 DEF Answer
  <2>2. /\ runs' = Follow(r, "join") \/ runs' = End(r)
        /\ loaded' = r.board /\ UNCHANGED <<url, current, me>>
    BY <2>1 DEF BlocksLoaded, page
  <2> QED BY <1>1, <1>4, <2>2, LoadingKeepsPage
<1>5. CASE r.step = "join"
  <2>1. Joined(r)
    BY <1>5 DEF Answer
  <2>2. runs' = Follow(r, "again") /\ UNCHANGED <<url, current, me, loaded>>
    BY <2>1 DEF Joined, page
  <2> QED BY <1>1, <1>5, <2>2, LoadingKeepsPage
<1> QED BY <1>1, <1>2, <1>3, <1>4, <1>5 DEF Steps

\* Every step keeps PageInv.
LEMMA StepKeepsPage == PageInv /\ [Next]_vars => PageInv'
<1> SUFFICES ASSUME PageInv, [Next]_vars
             PROVE  PageInv'
    OBVIOUS
<1>1. ASSUME NEW id \in Items, NEW alive \in BOOLEAN, Change(id, alive)
      PROVE  UNCHANGED <<page, runs, loaded, crossed>>
  BY <1>1 DEF Change
<1>2. CASE Subscribes \/ Opens
  <2>1. UNCHANGED <<page, runs, loaded, crossed>>
    BY <1>2 DEF Subscribes, Opens, watched
  <2> QED BY <2>1, RunsStay DEF page
<1>3. CASE Closes \/ Message \/ Flush
  <2>1. UNCHANGED <<page, runs, loaded, crossed>>
    BY <1>3 DEF Closes, Message, Flush, watched
  <2> QED BY <2>1, RunsStay DEF page
<1>4. CASE Reopens
  BY <1>4, ReopensKeepsPage DEF Reopens, page
<1>5. ASSUME NEW b \in Boards, Navigate(b) PROVE PageInv'
  BY <1>5, NavigateKeepsPage DEF Navigate
<1>6. ASSUME NEW r \in runs, Serve(r) PROVE PageInv'
  BY <1>6, ServeKeepsPage DEF Serve, page
<1>7. ASSUME NEW r \in runs, Answer(r) PROVE PageInv'
  BY <1>7, AnswerKeepsPage
<1>8. CASE UNCHANGED vars
  BY <1>8, RunsStay DEF vars, page, watched
<1> QED BY <1>1, <1>2, <1>3, <1>4, <1>5, <1>6, <1>7, <1>8, RunsStay DEF Next, page

(* A user who does not navigate while a page is loading ends on the board  *)
(* of the address with its blocks, whatever reconnects, changes and late   *)
(* answers come in between (boardPage.tsx:286).                            *)
THEOREM PageIsUrlHolds == Spec => []PageIsUrl
<1>1. PageInv => PageIsUrl
  BY DEF PageInv, Leading, PageIsUrl, Settled
<1> QED BY <1>1, InitPage, StepKeepsPage, PTL DEF Spec

-----------------------------------------------------------------------------
(* Where the newest versions are.                                          *)

\* The version an id has at the start.
Initial(id) == IF id \in Existing THEN 1 ELSE 0

\* A version the id has had: told by a message or an answer.
Had(id, x) ==
    /\ Initial(id) <= x.v /\ x.v <= server[id].v
    /\ x.alive => 1 <= x.v
    /\ x.v = server[id].v => x.alive = server[id].alive

\* What the server holds is a version there is; a board is never deleted.
ServerInv ==
    /\ server \in [Items -> [v : Nat, alive : BOOLEAN]]
    /\ \A id \in Items : Had(id, server[id])
    /\ \A b \in Boards : server[b].alive \/ server[b].v = 0

\* What a message tells.
Messages == [id : Items, v : Nat, alive : BOOLEAN]

\* A message tells a version there has been; the queue has one of an id.
MessagesInv ==
    /\ wire \in Seq(Messages) /\ queue \in Seq(Messages)
    /\ \A i \in DOMAIN wire : Had(wire[i].id, wire[i])
    /\ \A i \in DOMAIN queue : Had(queue[i].id, queue[i])
    /\ \A i, j \in DOMAIN queue : queue[i].id = queue[j].id => i = j

\* What an answer holds.
IsAnswer(answer, ids) ==
    /\ answer \in [ids -> [v : Nat, alive : BOOLEAN]]
    /\ \A id \in ids : Had(id, answer[id])

\* An answer holds versions there have been of all that was asked; until the user
\* is known the first load is on its way.
AnswersInv ==
    /\ url \in Boards
    /\ \A r \in runs :
         /\ r.board \in Boards
         /\ r.snapshot # NoSnapshot => IsAnswer(r.snapshot[1], Asked(r))
    /\ ~me => \E r \in runs : r.step = "boards"

\* The store is given versions there have been: all boards once the user is known,
\* all blocks of a board once it is loaded.
SeenInv ==
    /\ seen \in [Items -> Nat]
    /\ \A id \in Items : seen[id] <= server[id].v
    /\ me => \A b \in Boards : Initial(b) <= seen[b]
    /\ \A id \in Blocks : Home[id] = loaded => Initial(id) <= seen[id]
    /\ loaded \in Boards \cup {NoBoard}

\* A message about an id is on its way, or waits for the flush.
InWire(id) == \E i \in DOMAIN wire : wire[i].id = id
InQueue(id) == \E i \in DOMAIN queue : queue[i].id = id

\* Where the newest version of an id is: given up, the last message on the
\* wire, in the queue, or in the store, unless nobody has changed it yet.
Accounted(id) ==
    \/ Excused(id)
    \/ \E i \in DOMAIN wire : wire[i] = Item(id) /\ \A j \in DOMAIN wire : wire[j].id = id => j <= i
    \/ ~InWire(id) /\ \E i \in DOMAIN queue : queue[i] = Item(id)
    \/ ~InWire(id) /\ ~InQueue(id) /\ (seen[id] = server[id].v \/ server[id].v = Initial(id))

\* What the store was last given, if it is the newest version, it holds.
StoreInv ==
    /\ \A b \in Boards : seen[b] = server[b].v => InSlice(boards, b) = Current(b) \/ Excused(b)
    /\ \A id \in Blocks : Home[id] = loaded /\ seen[id] = server[id].v =>
         Held(id) = Current(id) \/ Excused(id)

\* What a list may hold.
Entries(byId) == [id : DOMAIN byId, v : Nat]

\* A list of a card has what is held of the card, once, and a comment as it is held.
ListOK(list, byId, card, type) ==
    /\ list \in Seq(Entries(byId))
    /\ \A i \in DOMAIN list :
         /\ Parent[list[i].id] = card
         /\ type = "comment" => list[i].v = byId[list[i].id]
    /\ \A i, j \in DOMAIN list : list[i].id = list[j].id => i = j

\* Ids and lists of a slice agree.
SliceOK(slice, type) ==
    /\ slice = [byId |-> slice.byId, byCard |-> slice.byCard]
    /\ slice.byId = [id \in DOMAIN slice.byId |-> slice.byId[id]]
    /\ DOMAIN slice.byId \subseteq Of(type)
    /\ \A id \in DOMAIN slice.byId :
         slice.byId[id] \in 1 .. server[id].v /\ InList(slice.byCard, Parent[id], id)
    /\ slice.byCard = [card \in DOMAIN slice.byCard |-> slice.byCard[card]]
    /\ \A card \in DOMAIN slice.byCard : ListOK(slice.byCard[card], slice.byId, card, type)

\* What makes InStep and ListsAgree inductive.
SyncInv ==
    /\ ServerInv /\ MessagesInv /\ AnswersInv /\ SeenInv
    /\ \A id \in Items : Accounted(id)
    /\ StoreInv
    /\ SliceOK(comments, "comment") /\ SliceOK(attachments, "attachment")

-----------------------------------------------------------------------------
(* Induction over a batch.                                                 *)

\* Every set of numbers has a least one.
LEMMA LeastExists ==
    ASSUME NEW T, T \subseteq Nat, T # {}
    PROVE  \E x \in T : \A y \in T : x <= y
<1> DEFINE R == OpToRel(<, Nat)
<1>1. IsWellFoundedOn(R, Nat)
  BY NatLessThanWellFounded
<1>2. \A x, y \in Nat : x < y => <<x, y>> \in R
  BY DEF OpToRel
<1> HIDE DEF R
<1>3. PICK x \in T : \A y \in T : <<y, x>> \notin R
  BY <1>1, WFMin
<1>4. ASSUME NEW y \in T PROVE x <= y
  <2>1. x \in Nat /\ y \in Nat
    OBVIOUS
  <2>2. ~ (y < x)
    BY <1>2, <1>3, <2>1
  <2> QED BY ONLY <2>1, <2>2
<1> QED BY <1>4

\* Induction, over the numbers that are good.
LEMMA UpTo ==
    ASSUME NEW n \in Nat, NEW G, 0 \in G, \A k \in 1 .. n : k - 1 \in G => k \in G
    PROVE  n \in G
<1> DEFINE Bad == {k \in 0 .. n : k \notin G}
<1>1. SUFFICES ASSUME Bad # {} PROVE FALSE
  OBVIOUS
<1>2. PICK k \in Bad : \A j \in Bad : k <= j
  <2>1. Bad \subseteq Nat
    OBVIOUS
  <2> HIDE DEF Bad
  <2> QED BY <1>1, <2>1, LeastExists
<1>3. k \in 1 .. n /\ k \notin G
  BY <1>2
<1>4. k - 1 \in 0 .. n /\ ~(k <= k - 1)
  BY <1>3
<1>5. k - 1 \in G
  BY <1>2, <1>4
<1> QED BY <1>3, <1>5

\* The last of a set of indices.
LEMMA MaxOfIndices ==
    ASSUME NEW k \in Nat, NEW d, d \subseteq 1 .. k, k \in d
    PROVE  Max(d) = k
<1>1. \A y \in d : k >= y
  OBVIOUS
<1>2. \A x \in d : (\A y \in d : x >= y) => x = k
  OBVIOUS
<1>3. Max(d) = CHOOSE x \in d : \A y \in d : x >= y
  BY DEF Max
<1> QED BY <1>1, <1>2, <1>3

\* One turn of filter().
Kept(t, x, S) == IF x \in S THEN Append(t, x) ELSE t

\* What filter() makes of a list, element by element.
LEMMA FilteredUnfolds ==
    ASSUME NEW S, NEW s, Len(s) \in Nat, DOMAIN s = 1 .. Len(s)
    PROVE  \E f : /\ f[0] = <<>>
                  /\ f[Len(s)] = Filtered(s, S)
                  /\ \A k \in 1 .. Len(s) : f[k] = Kept(f[k - 1], s[k], S)
<1> DEFINE start == <<>>
           Op(t, x) == Kept(t, x, S)
           Folds(g, D) == g = [d \in SUBSET D |->
                                 IF d = {} THEN start ELSE LET x == Max(d) IN Op(g[d \ {x}], s[x])]
           G == {k \in 0 .. Len(s) : \E g : Folds(g, 1 .. k)}
<1>1. \E g : Folds(g, 1 .. Len(s))
  <2>1. 0 \in G
    <3> DEFINE g == [d \in SUBSET (1 .. 0) |-> start]
    <3>1. \A d \in SUBSET (1 .. 0) : d = {}
      OBVIOUS
    <3>2. Folds(g, 1 .. 0)
      BY <3>1
    <3> HIDE DEF Folds
    <3> QED BY <3>2
  <2>2. ASSUME NEW k \in 1 .. Len(s), k - 1 \in G PROVE k \in G
    <3>1. PICK h : Folds(h, 1 .. (k - 1))
      <4> HIDE DEF Folds
      <4> QED BY <2>2
    <3> DEFINE g == [d \in SUBSET (1 .. k) |->
                       IF k \in d THEN Op(h[d \ {k}], s[k]) ELSE h[d]]
    <3> HIDE DEF Op
    <3>2. ASSUME NEW d \in SUBSET (1 .. k)
          PROVE  g[d] = IF d = {} THEN start ELSE LET x == Max(d) IN Op(g[d \ {x}], s[x])
      <4>1. CASE k \in d
        <5>1. Max(d) = k /\ d \ {k} \in SUBSET (1 .. k) /\ k \notin d \ {k}
          <6>1. k \in Nat /\ d \subseteq 1 .. k
            BY <2>2
          <6> QED BY <4>1, <6>1, MaxOfIndices
        <5>2. g[d \ {k}] = h[d \ {k}]
          BY <5>1
        <5> QED BY <4>1, <5>1, <5>2
      <4>2. CASE k \notin d
        <5>1. d \in SUBSET (1 .. (k - 1))
          BY <4>2
        <5>2. h[d] = IF d = {} THEN start ELSE LET x == Max(d) IN Op(h[d \ {x}], s[x])
          BY <3>1, <5>1
        <5>3. \A x : d \ {x} \in SUBSET (1 .. k) /\ k \notin d \ {x}
          BY <4>2
        <5>4. g[d] = h[d] /\ \A x : g[d \ {x}] = h[d \ {x}]
          BY <4>2, <5>3
        <5> QED BY <5>2, <5>4
      <4> QED BY <4>1, <4>2
    <3>3. Folds(g, 1 .. k)
      BY <3>2
    <3> HIDE DEF Folds
    <3> QED BY <2>2, <3>3
  <2> HIDE DEF G
  <2>3. Len(s) \in G
    BY <2>1, <2>2, UpTo
  <2> QED BY <2>3 DEF G
<1> DEFINE n == Len(s)
           iter == CHOOSE g : Folds(g, DOMAIN s)
           f == [k \in 0 .. n |-> iter[1 .. k]]
<1>2. Folds(iter, 1 .. n)
  <2> HIDE DEF Folds
  <2> QED BY <1>1
<1>3. Filtered(s, S) = iter[DOMAIN s]
  BY DEF Filtered, Kept, FoldLeft, MapThenFoldSet
<1> HIDE DEF iter
<1>4. f[0] = start
  <2>1. 1 .. 0 = {} /\ {} \in SUBSET (1 .. n) /\ 0 \in 0 .. n
    OBVIOUS
  <2> QED BY <1>2, <2>1
<1>5. ASSUME NEW k \in 1 .. n PROVE f[k] = Op(f[k - 1], s[k])
  <2>1. 1 .. k \in SUBSET (1 .. n) /\ k \in 1 .. k /\ k \in Nat
    OBVIOUS
  <2>2. Max(1 .. k) = k
    BY <2>1, MaxOfIndices
  <2>3. (1 .. k) \ {k} = 1 .. (k - 1)
    OBVIOUS
  <2> HIDE DEF Op
  <2>4. iter[1 .. k] = Op(iter[1 .. (k - 1)], s[k])
    BY <1>2, <2>1, <2>2, <2>3
  <2> QED BY <2>4
<1>6. f[n] = Filtered(s, S)
  BY <1>3
<1> HIDE DEF n, f
<1> QED BY <1>4, <1>5, <1>6 DEF n

\* The reducers of boards, cards and views put one item after the other.
LEMMA PutsUnfold ==
    ASSUME NEW slice, NEW items, Len(items) \in Nat, DOMAIN items = 1 .. Len(items)
    PROVE  \E f : /\ f[0] = slice
                  /\ f[Len(items)] = updateBoards(slice, items)
                  /\ \A k \in 1 .. Len(items) : f[k] = Put(f[k - 1], items[k])
<1> DEFINE start == slice
           Op(t, x) == Put(t, x)
           Folds(g, D) == g = [d \in SUBSET D |->
                                 IF d = {} THEN start ELSE LET x == Max(d) IN Op(g[d \ {x}], items[x])]
           G == {k \in 0 .. Len(items) : \E g : Folds(g, 1 .. k)}
<1>1. \E g : Folds(g, 1 .. Len(items))
  <2>1. 0 \in G
    <3> DEFINE g == [d \in SUBSET (1 .. 0) |-> start]
    <3>1. \A d \in SUBSET (1 .. 0) : d = {}
      OBVIOUS
    <3>2. Folds(g, 1 .. 0)
      BY <3>1
    <3> HIDE DEF Folds
    <3> QED BY <3>2
  <2>2. ASSUME NEW k \in 1 .. Len(items), k - 1 \in G PROVE k \in G
    <3>1. PICK h : Folds(h, 1 .. (k - 1))
      <4> HIDE DEF Folds
      <4> QED BY <2>2
    <3> DEFINE g == [d \in SUBSET (1 .. k) |->
                       IF k \in d THEN Op(h[d \ {k}], items[k]) ELSE h[d]]
    <3> HIDE DEF Op
    <3>2. ASSUME NEW d \in SUBSET (1 .. k)
          PROVE  g[d] = IF d = {} THEN start ELSE LET x == Max(d) IN Op(g[d \ {x}], items[x])
      <4>1. CASE k \in d
        <5>1. Max(d) = k /\ d \ {k} \in SUBSET (1 .. k) /\ k \notin d \ {k}
          <6>1. k \in Nat /\ d \subseteq 1 .. k
            BY <2>2
          <6> QED BY <4>1, <6>1, MaxOfIndices
        <5>2. g[d \ {k}] = h[d \ {k}]
          BY <5>1
        <5> QED BY <4>1, <5>1, <5>2
      <4>2. CASE k \notin d
        <5>1. d \in SUBSET (1 .. (k - 1))
          BY <4>2
        <5>2. h[d] = IF d = {} THEN start ELSE LET x == Max(d) IN Op(h[d \ {x}], items[x])
          BY <3>1, <5>1
        <5>3. \A x : d \ {x} \in SUBSET (1 .. k) /\ k \notin d \ {x}
          BY <4>2
        <5>4. g[d] = h[d] /\ \A x : g[d \ {x}] = h[d \ {x}]
          BY <4>2, <5>3
        <5> QED BY <5>2, <5>4
      <4> QED BY <4>1, <4>2
    <3>3. Folds(g, 1 .. k)
      BY <3>2
    <3> HIDE DEF Folds
    <3> QED BY <2>2, <3>3
  <2> HIDE DEF G
  <2>3. Len(items) \in G
    BY <2>1, <2>2, UpTo
  <2> QED BY <2>3 DEF G
<1> DEFINE n == Len(items)
           iter == CHOOSE g : Folds(g, DOMAIN items)
           f == [k \in 0 .. n |-> iter[1 .. k]]
<1>2. Folds(iter, 1 .. n)
  <2> HIDE DEF Folds
  <2> QED BY <1>1
<1>3. updateBoards(slice, items) = iter[DOMAIN items]
  BY DEF updateBoards, FoldLeft, MapThenFoldSet
<1> HIDE DEF iter
<1>4. f[0] = start
  <2>1. 1 .. 0 = {} /\ {} \in SUBSET (1 .. n) /\ 0 \in 0 .. n
    OBVIOUS
  <2> QED BY <1>2, <2>1
<1>5. ASSUME NEW k \in 1 .. n PROVE f[k] = Op(f[k - 1], items[k])
  <2>1. 1 .. k \in SUBSET (1 .. n) /\ k \in 1 .. k /\ k \in Nat
    OBVIOUS
  <2>2. Max(1 .. k) = k
    BY <2>1, MaxOfIndices
  <2>3. (1 .. k) \ {k} = 1 .. (k - 1)
    OBVIOUS
  <2> HIDE DEF Op
  <2>4. iter[1 .. k] = Op(iter[1 .. (k - 1)], items[k])
    BY <1>2, <2>1, <2>2, <2>3
  <2> QED BY <2>4
<1>6. f[n] = updateBoards(slice, items)
  BY <1>3
<1> HIDE DEF n, f
<1> QED BY <1>4, <1>5, <1>6 DEF n

\* One turn of a loop, as Loop takes it.
CommentStep(acc, item) ==
    IF acc.returned THEN [acc EXCEPT !.left = @ \cup {<<item.id, item.v>>}]
    ELSE [acc EXCEPT !.slice = PutComment(@, item), !.returned = CommentReturns(acc.slice, item)]

\* One turn of the loop of the attachments.
AttachmentStep(acc, item) ==
    IF acc.returned THEN [acc EXCEPT !.left = @ \cup {<<item.id, item.v>>}]
    ELSE [acc EXCEPT !.slice = PutAttachment(@, item),
                     !.returned = AttachmentReturns(acc.slice, item)]

\* So does the loop of the comments, until it returns.
LEMMA CommentsUnfold ==
    ASSUME NEW slice, NEW items, Len(items) \in Nat, DOMAIN items = 1 .. Len(items)
    PROVE  \E f : /\ f[0] = [slice |-> slice, returned |-> FALSE, left |-> {}]
                  /\ f[Len(items)] = updateComments(slice, items)
                  /\ \A k \in 1 .. Len(items) : f[k] = CommentStep(f[k - 1], items[k])
<1> DEFINE start == [slice |-> slice, returned |-> FALSE, left |-> {}]
           Op(t, x) == CommentStep(t, x)
           Folds(g, D) == g = [d \in SUBSET D |->
                                 IF d = {} THEN start ELSE LET x == Max(d) IN Op(g[d \ {x}], items[x])]
           G == {k \in 0 .. Len(items) : \E g : Folds(g, 1 .. k)}
<1>1. \E g : Folds(g, 1 .. Len(items))
  <2>1. 0 \in G
    <3> DEFINE g == [d \in SUBSET (1 .. 0) |-> start]
    <3>1. \A d \in SUBSET (1 .. 0) : d = {}
      OBVIOUS
    <3>2. Folds(g, 1 .. 0)
      BY <3>1
    <3> HIDE DEF Folds
    <3> QED BY <3>2
  <2>2. ASSUME NEW k \in 1 .. Len(items), k - 1 \in G PROVE k \in G
    <3>1. PICK h : Folds(h, 1 .. (k - 1))
      <4> HIDE DEF Folds
      <4> QED BY <2>2
    <3> DEFINE g == [d \in SUBSET (1 .. k) |->
                       IF k \in d THEN Op(h[d \ {k}], items[k]) ELSE h[d]]
    <3> HIDE DEF Op
    <3>2. ASSUME NEW d \in SUBSET (1 .. k)
          PROVE  g[d] = IF d = {} THEN start ELSE LET x == Max(d) IN Op(g[d \ {x}], items[x])
      <4>1. CASE k \in d
        <5>1. Max(d) = k /\ d \ {k} \in SUBSET (1 .. k) /\ k \notin d \ {k}
          <6>1. k \in Nat /\ d \subseteq 1 .. k
            BY <2>2
          <6> QED BY <4>1, <6>1, MaxOfIndices
        <5>2. g[d \ {k}] = h[d \ {k}]
          BY <5>1
        <5> QED BY <4>1, <5>1, <5>2
      <4>2. CASE k \notin d
        <5>1. d \in SUBSET (1 .. (k - 1))
          BY <4>2
        <5>2. h[d] = IF d = {} THEN start ELSE LET x == Max(d) IN Op(h[d \ {x}], items[x])
          BY <3>1, <5>1
        <5>3. \A x : d \ {x} \in SUBSET (1 .. k) /\ k \notin d \ {x}
          BY <4>2
        <5>4. g[d] = h[d] /\ \A x : g[d \ {x}] = h[d \ {x}]
          BY <4>2, <5>3
        <5> QED BY <5>2, <5>4
      <4> QED BY <4>1, <4>2
    <3>3. Folds(g, 1 .. k)
      BY <3>2
    <3> HIDE DEF Folds
    <3> QED BY <2>2, <3>3
  <2> HIDE DEF G
  <2>3. Len(items) \in G
    BY <2>1, <2>2, UpTo
  <2> QED BY <2>3 DEF G
<1> DEFINE n == Len(items)
           iter == CHOOSE g : Folds(g, DOMAIN items)
           f == [k \in 0 .. n |-> iter[1 .. k]]
<1>2. Folds(iter, 1 .. n)
  <2> HIDE DEF Folds
  <2> QED BY <1>1
<1>3. updateComments(slice, items) = iter[DOMAIN items]
  BY DEF updateComments, Loop, CommentStep, FoldLeft, MapThenFoldSet
<1> HIDE DEF iter
<1>4. f[0] = start
  <2>1. 1 .. 0 = {} /\ {} \in SUBSET (1 .. n) /\ 0 \in 0 .. n
    OBVIOUS
  <2> QED BY <1>2, <2>1
<1>5. ASSUME NEW k \in 1 .. n PROVE f[k] = Op(f[k - 1], items[k])
  <2>1. 1 .. k \in SUBSET (1 .. n) /\ k \in 1 .. k /\ k \in Nat
    OBVIOUS
  <2>2. Max(1 .. k) = k
    BY <2>1, MaxOfIndices
  <2>3. (1 .. k) \ {k} = 1 .. (k - 1)
    OBVIOUS
  <2> HIDE DEF Op
  <2>4. iter[1 .. k] = Op(iter[1 .. (k - 1)], items[k])
    BY <1>2, <2>1, <2>2, <2>3
  <2> QED BY <2>4
<1>6. f[n] = updateComments(slice, items)
  BY <1>3
<1> HIDE DEF n, f
<1> QED BY <1>4, <1>5, <1>6 DEF n

\* So does the loop of the attachments, until it returns.
LEMMA AttachmentsUnfold ==
    ASSUME NEW slice, NEW items, Len(items) \in Nat, DOMAIN items = 1 .. Len(items)
    PROVE  \E f : /\ f[0] = [slice |-> slice, returned |-> FALSE, left |-> {}]
                  /\ f[Len(items)] = updateAttachments(slice, items)
                  /\ \A k \in 1 .. Len(items) : f[k] = AttachmentStep(f[k - 1], items[k])
<1> DEFINE start == [slice |-> slice, returned |-> FALSE, left |-> {}]
           Op(t, x) == AttachmentStep(t, x)
           Folds(g, D) == g = [d \in SUBSET D |->
                                 IF d = {} THEN start ELSE LET x == Max(d) IN Op(g[d \ {x}], items[x])]
           G == {k \in 0 .. Len(items) : \E g : Folds(g, 1 .. k)}
<1>1. \E g : Folds(g, 1 .. Len(items))
  <2>1. 0 \in G
    <3> DEFINE g == [d \in SUBSET (1 .. 0) |-> start]
    <3>1. \A d \in SUBSET (1 .. 0) : d = {}
      OBVIOUS
    <3>2. Folds(g, 1 .. 0)
      BY <3>1
    <3> HIDE DEF Folds
    <3> QED BY <3>2
  <2>2. ASSUME NEW k \in 1 .. Len(items), k - 1 \in G PROVE k \in G
    <3>1. PICK h : Folds(h, 1 .. (k - 1))
      <4> HIDE DEF Folds
      <4> QED BY <2>2
    <3> DEFINE g == [d \in SUBSET (1 .. k) |->
                       IF k \in d THEN Op(h[d \ {k}], items[k]) ELSE h[d]]
    <3> HIDE DEF Op
    <3>2. ASSUME NEW d \in SUBSET (1 .. k)
          PROVE  g[d] = IF d = {} THEN start ELSE LET x == Max(d) IN Op(g[d \ {x}], items[x])
      <4>1. CASE k \in d
        <5>1. Max(d) = k /\ d \ {k} \in SUBSET (1 .. k) /\ k \notin d \ {k}
          <6>1. k \in Nat /\ d \subseteq 1 .. k
            BY <2>2
          <6> QED BY <4>1, <6>1, MaxOfIndices
        <5>2. g[d \ {k}] = h[d \ {k}]
          BY <5>1
        <5> QED BY <4>1, <5>1, <5>2
      <4>2. CASE k \notin d
        <5>1. d \in SUBSET (1 .. (k - 1))
          BY <4>2
        <5>2. h[d] = IF d = {} THEN start ELSE LET x == Max(d) IN Op(h[d \ {x}], items[x])
          BY <3>1, <5>1
        <5>3. \A x : d \ {x} \in SUBSET (1 .. k) /\ k \notin d \ {x}
          BY <4>2
        <5>4. g[d] = h[d] /\ \A x : g[d \ {x}] = h[d \ {x}]
          BY <4>2, <5>3
        <5> QED BY <5>2, <5>4
      <4> QED BY <4>1, <4>2
    <3>3. Folds(g, 1 .. k)
      BY <3>2
    <3> HIDE DEF Folds
    <3> QED BY <2>2, <3>3
  <2> HIDE DEF G
  <2>3. Len(items) \in G
    BY <2>1, <2>2, UpTo
  <2> QED BY <2>3 DEF G
<1> DEFINE n == Len(items)
           iter == CHOOSE g : Folds(g, DOMAIN items)
           f == [k \in 0 .. n |-> iter[1 .. k]]
<1>2. Folds(iter, 1 .. n)
  <2> HIDE DEF Folds
  <2> QED BY <1>1
<1>3. updateAttachments(slice, items) = iter[DOMAIN items]
  BY DEF updateAttachments, Loop, AttachmentStep, FoldLeft, MapThenFoldSet
<1> HIDE DEF iter
<1>4. f[0] = start
  <2>1. 1 .. 0 = {} /\ {} \in SUBSET (1 .. n) /\ 0 \in 0 .. n
    OBVIOUS
  <2> QED BY <1>2, <2>1
<1>5. ASSUME NEW k \in 1 .. n PROVE f[k] = Op(f[k - 1], items[k])
  <2>1. 1 .. k \in SUBSET (1 .. n) /\ k \in 1 .. k /\ k \in Nat
    OBVIOUS
  <2>2. Max(1 .. k) = k
    BY <2>1, MaxOfIndices
  <2>3. (1 .. k) \ {k} = 1 .. (k - 1)
    OBVIOUS
  <2> HIDE DEF Op
  <2>4. iter[1 .. k] = Op(iter[1 .. (k - 1)], items[k])
    BY <1>2, <2>1, <2>2, <2>3
  <2> QED BY <2>4
<1>6. f[n] = updateAttachments(slice, items)
  BY <1>3
<1> HIDE DEF n, f
<1> QED BY <1>4, <1>5, <1>6 DEF n
-----------------------------------------------------------------------------
(* What the lists and slices are after a batch.                            *)

\* Where the elements of t come from, the first n of s that are in S.
Places(at, t, n, s, S) ==
    /\ at \in [DOMAIN t -> 1 .. n]
    /\ \A j \in DOMAIN at : t[j] = s[at[j]] /\ s[at[j]] \in S
    /\ \A i, j \in DOMAIN at : at[i] = at[j] => i = j
    /\ \A i \in 1 .. n : s[i] \in S => \E j \in DOMAIN at : at[j] = i

\* Each element that filter() leaves has a place in the list.
LEMMA FilteredPlaces ==
    ASSUME NEW E, NEW s \in Seq(E), NEW S
    PROVE  Filtered(s, S) \in Seq(E) /\ \E at : Places(at, Filtered(s, S), Len(s), s, S)
<1>1. Len(s) \in Nat /\ DOMAIN s = 1 .. Len(s) /\ \A i \in 1 .. Len(s) : s[i] \in E
  OBVIOUS
<1>2. PICK f : /\ f[0] = <<>> /\ f[Len(s)] = Filtered(s, S)
               /\ \A k \in 1 .. Len(s) : f[k] = Kept(f[k - 1], s[k], S)
  BY <1>1, FilteredUnfolds
<1> DEFINE At(k, at) == Places(at, f[k], k, s, S)
           G == {k \in 0 .. Len(s) : f[k] \in Seq(E) /\ \E at : At(k, at)}
<1>3. 0 \in G
  <2>1. At(0, [j \in {} |-> 0])
    BY <1>2 DEF Places
  <2>2. f[0] \in Seq(E)
    BY <1>2
  <2> QED BY <1>1, <2>1, <2>2
<1>4. ASSUME NEW k \in 1 .. Len(s), k - 1 \in G PROVE k \in G
  <2>1. f[k - 1] \in Seq(E) /\ s[k] \in E
    BY <1>1, <1>4
  <2>2. PICK at : At(k - 1, at)
    BY <1>4
  <2>3. CASE s[k] \notin S
    <3>1. f[k] = f[k - 1]
      BY <1>2, <2>3 DEF Kept
    <3>2. At(k, at)
      <4>1. \A i \in 1 .. k : i \in 1 .. (k - 1) \/ i = k
        OBVIOUS
      <4> QED BY <2>2, <2>3, <3>1, <4>1 DEF Places
    <3> QED BY <2>1, <3>1, <3>2
  <2>4. CASE s[k] \in S
    <3> DEFINE m == Len(f[k - 1])
               new == [j \in 1 .. (m + 1) |-> IF j = m + 1 THEN k ELSE at[j]]
    <3>1. /\ f[k] = Append(f[k - 1], s[k]) /\ f[k] \in Seq(E)
          /\ m \in Nat /\ DOMAIN f[k - 1] = 1 .. m /\ DOMAIN f[k] = 1 .. (m + 1)
          /\ f[k][m + 1] = s[k] /\ \A j \in 1 .. m : f[k][j] = f[k - 1][j]
      <4>1. f[k] = Append(f[k - 1], s[k])
        BY <1>2, <2>4 DEF Kept
      <4> QED BY <4>1, <2>1, AppendProperties
    <3>2. DOMAIN at = 1 .. m /\ \A j \in 1 .. m : at[j] \in 1 .. (k - 1)
      <4>1. at \in [DOMAIN f[k - 1] -> 1 .. (k - 1)]
        BY <2>2 DEF Places
      <4> QED BY <3>1, <4>1
    <3> HIDE DEF m
    <3>3. new \in [DOMAIN f[k] -> 1 .. k]
      BY <3>1, <3>2
    <3>4. \A j \in DOMAIN new : f[k][j] = s[new[j]] /\ s[new[j]] \in S
      <4>1. ASSUME NEW j \in 1 .. (m + 1) PROVE f[k][j] = s[new[j]] /\ s[new[j]] \in S
        <5>1. CASE j = m + 1
          BY <5>1, <3>1, <2>4
        <5>2. CASE j # m + 1
          <6>1. j \in 1 .. m /\ new[j] = at[j]
            BY <5>2, <3>1
          <6> QED BY <6>1, <3>1, <3>2, <2>2 DEF Places
        <5> QED BY <5>1, <5>2
      <4> QED BY <4>1
    <3>5. \A i, j \in DOMAIN new : new[i] = new[j] => i = j
      <4>1. ASSUME NEW i \in 1 .. (m + 1), NEW j \in 1 .. (m + 1), new[i] = new[j] PROVE i = j
        <5>1. \A x \in 1 .. (m + 1) : x # m + 1 => x \in 1 .. m
          BY <3>1
        <5>2. CASE i = m + 1 \/ j = m + 1
          BY <5>1, <5>2, <4>1, <3>2
        <5>3. CASE i # m + 1 /\ j # m + 1
          BY <5>1, <5>3, <4>1, <3>2, <2>2 DEF Places
        <5> QED BY <5>2, <5>3
      <4> QED BY <4>1
    <3>6. \A i \in 1 .. k : s[i] \in S => \E j \in DOMAIN new : new[j] = i
      <4>1. ASSUME NEW i \in 1 .. k, s[i] \in S PROVE \E j \in 1 .. (m + 1) : new[j] = i
        <5>1. CASE i = k
          BY <5>1, <3>1
        <5>2. CASE i # k
          <6>1. i \in 1 .. (k - 1)
            BY <5>2
          <6>2. PICK j \in 1 .. m : at[j] = i
            BY <6>1, <4>1, <2>2, <3>2 DEF Places
          <6>3. j \in 1 .. (m + 1) /\ j # m + 1
            BY <3>1
          <6> QED BY <6>2, <6>3
        <5> QED BY <5>1, <5>2
      <4> QED BY <4>1
    <3> HIDE DEF new
    <3>7. At(k, new)
      BY <3>3, <3>4, <3>5, <3>6 DEF Places
    <3>8. k \in 0 .. Len(s)
      BY <1>1
    <3> HIDE DEF At
    <3> QED BY <3>1, <3>7, <3>8
  <2> QED BY <2>3, <2>4
<1>5. Len(s) \in G
  <2> HIDE DEF G
  <2> QED BY <1>1, <1>3, <1>4, UpTo
<1>6. Filtered(s, S) \in Seq(E) /\ \E at : At(Len(s), at)
  BY <1>2, <1>5
<1> QED BY <1>1, <1>2, <1>6

\* What filter() leaves is what was in the list, and each thing as often.
LEMMA FilteredFacts ==
    ASSUME NEW E, NEW s \in Seq(E), NEW S
    PROVE  /\ Filtered(s, S) \in Seq(E)
           /\ \A j \in DOMAIN Filtered(s, S) :
                Filtered(s, S)[j] \in S /\ \E i \in DOMAIN s : Filtered(s, S)[j] = s[i]
           /\ \A i \in DOMAIN s : s[i] \in S => \E j \in DOMAIN Filtered(s, S) : Filtered(s, S)[j] = s[i]
           /\ (\A i, j \in DOMAIN s : s[i].id = s[j].id => i = j) =>
                \A i, j \in DOMAIN Filtered(s, S) : Filtered(s, S)[i].id = Filtered(s, S)[j].id => i = j
<1> DEFINE t == Filtered(s, S)
<1>1. t \in Seq(E) /\ DOMAIN s = 1 .. Len(s)
  BY FilteredPlaces
<1>2. PICK at : Places(at, t, Len(s), s, S)
  BY FilteredPlaces
<1> HIDE DEF t
<1>3. \A j \in DOMAIN t : t[j] \in S /\ \E i \in DOMAIN s : t[j] = s[i]
  BY <1>1, <1>2 DEF Places
<1>4. \A i \in DOMAIN s : s[i] \in S => \E j \in DOMAIN t : t[j] = s[i]
  BY <1>1, <1>2 DEF Places
<1>5. ASSUME \A i, j \in DOMAIN s : s[i].id = s[j].id => i = j
      PROVE  \A i, j \in DOMAIN t : t[i].id = t[j].id => i = j
  BY <1>1, <1>2, <1>5 DEF Places
<1> QED BY <1>1, <1>3, <1>4, <1>5 DEF t

\* Put changes the id of its item and no other.
LEMMA PutOne ==
    ASSUME NEW slice, NEW item, NEW id
    PROVE  InSlice(Put(slice, item), id) =
             IF id = item.id THEN (IF item.alive THEN item.v ELSE 0) ELSE InSlice(slice, id)
<1>1. CASE item.alive
  <2>1. /\ DOMAIN Put(slice, item) = {item.id} \cup DOMAIN slice
        /\ Put(slice, item)[item.id] = item.v
        /\ \A x \in DOMAIN slice : x # item.id => Put(slice, item)[x] = slice[x]
    BY <1>1 DEF Put, With
  <2> QED BY <1>1, <2>1 DEF InSlice
<1>2. CASE ~item.alive
  BY <1>2 DEF Put, InSlice
<1> QED BY <1>1, <1>2

\* The three reducers do the same.
LEMMA ReducersAlike ==
    ASSUME NEW slice, NEW items
    PROVE  /\ updateCards(slice, items) = updateBoards(slice, items)
           /\ updateViews(slice, items) = updateBoards(slice, items)
BY DEF updateBoards, updateCards, updateViews, FoldLeft, MapThenFoldSet

\* A batch without two of an id is put as a whole.
LEMMA PutAll ==
    ASSUME NEW slice, NEW items \in Seq(Messages),
           \A i, j \in DOMAIN items : items[i].id = items[j].id => i = j
    PROVE  LET after == updateBoards(slice, items)
           IN  /\ \A i \in DOMAIN items :
                    InSlice(after, items[i].id) = IF items[i].alive THEN items[i].v ELSE 0
               /\ \A id : (\A i \in DOMAIN items : items[i].id # id) =>
                    InSlice(after, id) = InSlice(slice, id)
<1> DEFINE n == Len(items)
<1>1. Len(items) \in Nat /\ DOMAIN items = 1 .. Len(items)
  OBVIOUS
<1>2. PICK f : /\ f[0] = slice /\ f[Len(items)] = updateBoards(slice, items)
               /\ \A k \in 1 .. Len(items) : f[k] = Put(f[k - 1], items[k])
  BY <1>1, PutsUnfold
<1> DEFINE There(k) == \A i \in 1 .. k : InSlice(f[k], items[i].id) = IF items[i].alive THEN items[i].v ELSE 0
           Others(k) == \A id : (\A i \in 1 .. k : items[i].id # id) => InSlice(f[k], id) = InSlice(slice, id)
           G == {k \in 0 .. n : There(k) /\ Others(k)}
<1>n. n \in Nat /\ DOMAIN items = 1 .. n /\ f[n] = updateBoards(slice, items)
      /\ \A k \in 1 .. n : f[k] = Put(f[k - 1], items[k])
  BY <1>1, <1>2, Zenon
<1> HIDE DEF n
<1>3. 0 \in G
  <2>1. There(0)
    OBVIOUS
  <2>2. Others(0)
    BY <1>2
  <2> QED BY <1>n, <2>1, <2>2
<1>4. ASSUME NEW k \in 1 .. n, k - 1 \in G PROVE k \in G
  <2>1. There(k - 1) /\ Others(k - 1) /\ f[k] = Put(f[k - 1], items[k])
    BY <1>n, <1>4
  <2>2. \A id : InSlice(f[k], id) =
           IF id = items[k].id THEN (IF items[k].alive THEN items[k].v ELSE 0) ELSE InSlice(f[k - 1], id)
    BY <2>1, PutOne
  <2>3. \A i \in 1 .. k : i = k \/ (i \in 1 .. (k - 1) /\ items[i].id # items[k].id)
    BY <1>n
  <2>4. There(k)
    BY <2>1, <2>2, <2>3
  <2>5. Others(k)
    <3>1. k \in 1 .. k /\ \A i \in 1 .. (k - 1) : i \in 1 .. k
      OBVIOUS
    <3> QED BY <2>1, <2>2, <3>1
  <2> QED BY <2>4, <2>5
<1>5. n \in G
  <2> HIDE DEF G
  <2> QED BY <1>n, <1>3, <1>4, UpTo
<1>6. There(n) /\ Others(n)
  BY <1>5
<1> QED BY <1>n, <1>6

-----------------------------------------------------------------------------
(* Lists of comments and attachments.                                      *)

\* An id is in a list.
Holds(list, id) == \E i \in DOMAIN list : list[i].id = id

\* A sequence is one of the set its elements are in.
LEMMA SeqRestricted ==
    ASSUME NEW E, NEW F, NEW s \in Seq(E), \A i \in DOMAIN s : s[i] \in F
    PROVE  s \in Seq(F)
OBVIOUS

\* What it takes to look into a sequence.
LEMMA SeqHas ==
    ASSUME NEW E, NEW s \in Seq(E)
    PROVE  Len(s) \in Nat /\ DOMAIN s = 1 .. Len(s) /\ \A i \in DOMAIN s : s[i] \in E
OBVIOUS

\* A list without a deleted id.
LEMMA DelistedList ==
    ASSUME NEW byId, NEW list, NEW card, NEW type, ListOK(list, byId, card, type), NEW x
    PROVE  LET after == Filtered(list, {e \in ToSet(list) : e.id # x})
           IN  /\ ListOK(after, [id \in DOMAIN byId \ {x} |-> byId[id]], card, type)
               /\ \A id : id # x /\ Holds(list, id) => Holds(after, id)
<1> DEFINE S == {e \in ToSet(list) : e.id # x}
           after == Filtered(list, S)
           held == [id \in DOMAIN byId \ {x} |-> byId[id]]
<1>1. /\ list \in Seq(Entries(byId)) /\ \A i \in DOMAIN list : list[i] \in Entries(byId)
      /\ \A i, j \in DOMAIN list : list[i].id = list[j].id => i = j
  BY SeqHas DEF ListOK
<1>2. \A i \in DOMAIN list : list[i].id # x <=> list[i] \in S
  BY DEF ToSet
<1> HIDE DEF S
<1>3. /\ after \in Seq(Entries(byId))
      /\ \A j \in DOMAIN after : after[j] \in S /\ \E i \in DOMAIN list : after[j] = list[i]
      /\ \A i \in DOMAIN list : list[i] \in S => \E j \in DOMAIN after : after[j] = list[i]
      /\ \A i, j \in DOMAIN after : after[i].id = after[j].id => i = j
  BY <1>1, FilteredFacts
<1> HIDE DEF after
<1>4. ASSUME NEW j \in DOMAIN after
      PROVE  /\ after[j] \in Entries(held)
             /\ Parent[after[j].id] = card
             /\ type = "comment" => after[j].v = held[after[j].id]
  <2>1. PICK i \in DOMAIN list : after[j] = list[i] /\ list[i].id # x
    BY <1>2, <1>3
  <2>2. list[i] \in Entries(byId) /\ Parent[list[i].id] = card /\ (type = "comment" => list[i].v = byId[list[i].id])
    BY <1>1 DEF ListOK
  <2>3. list[i].id \in DOMAIN byId \ {x} /\ list[i].v \in Nat /\ list[i] = [id |-> list[i].id, v |-> list[i].v]
    BY <2>1, <2>2 DEF Entries
  <2>4. held[list[i].id] = byId[list[i].id] /\ DOMAIN held = DOMAIN byId \ {x}
    BY <2>3
  <2> QED BY <2>1, <2>2, <2>3, <2>4 DEF Entries
<1> HIDE DEF held
<1>5. after \in Seq(Entries(held))
  <2>1. after \in Seq(Entries(byId)) /\ \A j \in DOMAIN after : after[j] \in Entries(held)
    BY <1>3, <1>4
  <2> QED BY <2>1, SeqRestricted
<1>6. ListOK(after, held, card, type)
  BY <1>3, <1>4, <1>5 DEF ListOK
<1>7. ASSUME NEW id, id # x, Holds(list, id) PROVE Holds(after, id)
  BY <1>2, <1>3, <1>7 DEF Holds
<1> QED BY <1>6, <1>7 DEF held, after, S

\* A list with the entry of an id in its place.
LEMMA ReplacedList ==
    ASSUME NEW byId, NEW list, NEW card, NEW type, ListOK(list, byId, card, type),
           NEW item, Holds(list, item.id), item.v \in Nat
    PROVE  LET after == [i \in DOMAIN list |-> IF list[i].id = item.id THEN Entry(item) ELSE list[i]]
           IN  /\ ListOK(after, With(byId, item.id, item.v), card, type)
               /\ \A id : Holds(list, id) => Holds(after, id)
<1> DEFINE after == [i \in DOMAIN list |-> IF list[i].id = item.id THEN Entry(item) ELSE list[i]]
           held == With(byId, item.id, item.v)
<1>1. /\ list \in Seq(Entries(byId))
      /\ \A i, j \in DOMAIN list : list[i].id = list[j].id => i = j
      /\ \A i \in DOMAIN list : Parent[list[i].id] = card /\ (type = "comment" => list[i].v = byId[list[i].id])
  BY DEF ListOK
<1>2. /\ DOMAIN held = DOMAIN byId \cup {item.id} /\ held[item.id] = item.v
      /\ \A id \in DOMAIN byId : id # item.id => held[id] = byId[id]
  BY DEF With
<1>3. DOMAIN after = DOMAIN list /\ \A i \in DOMAIN list : after[i].id = list[i].id
  BY DEF Entry
<1>4. ASSUME NEW i \in DOMAIN list
      PROVE  after[i] \in Entries(held) /\ (type = "comment" => after[i].v = held[after[i].id])
  <2>1. list[i] \in Entries(byId)
    BY <1>1, SeqHas
  <2>2. CASE list[i].id = item.id
    BY <2>2, <1>2 DEF Entry, Entries
  <2>3. CASE list[i].id # item.id
    <3>1. after[i] = list[i] /\ list[i].id \in DOMAIN byId
      BY <2>1, <2>3 DEF Entries
    <3>2. held[list[i].id] = byId[list[i].id]
      BY <3>1, <2>3, <1>2
    <3>3. after[i] \in Entries(held)
      BY <3>1, <2>1, <1>2 DEF Entries
    <3> QED BY <1>1, <3>1, <3>2, <3>3
  <2> QED BY <2>2, <2>3
<1>5. after \in Seq(Entries(held))
  <2>1. DOMAIN after = 1 .. Len(list) /\ Len(list) \in Nat
    BY <1>1, <1>3, SeqHas
  <2>2. after = [i \in 1 .. Len(list) |-> after[i]]
    BY <2>1
  <2>3. \A i \in 1 .. Len(list) : after[i] \in Entries(held)
    BY <1>3, <1>4, <2>1
  <2> HIDE DEF held, after
  <2> QED BY <2>1, <2>2, <2>3
<1> HIDE DEF after, held
<1>6. ListOK(after, held, card, type)
  BY <1>1, <1>3, <1>4, <1>5 DEF ListOK
<1>7. \A id : Holds(list, id) => Holds(after, id)
  BY <1>3 DEF Holds
<1> QED BY <1>6, <1>7 DEF after, held

\* A list with a new id at its end.
LEMMA AppendedList ==
    ASSUME NEW byId, NEW list, NEW type, NEW item,
           ListOK(list, byId, Parent[item.id], type), ~Holds(list, item.id), item.v \in Nat
    PROVE  LET after == Append(list, Entry(item))
           IN  /\ ListOK(after, With(byId, item.id, item.v), Parent[item.id], type)
               /\ \A id : Holds(list, id) \/ id = item.id => Holds(after, id)
<1> DEFINE after == Append(list, Entry(item))
           held == With(byId, item.id, item.v)
           n == Len(list)
<1>1. /\ list \in Seq(Entries(byId))
      /\ \A i, j \in DOMAIN list : list[i].id = list[j].id => i = j
      /\ \A i \in DOMAIN list : Parent[list[i].id] = Parent[item.id] /\ (type = "comment" => list[i].v = byId[list[i].id])
  BY DEF ListOK
<1>2. /\ DOMAIN held = DOMAIN byId \cup {item.id} /\ held[item.id] = item.v
      /\ \A id \in DOMAIN byId : id # item.id => held[id] = byId[id]
  BY DEF With
<1> HIDE DEF held
<1>3. list \in Seq(Entries(held)) /\ Entry(item) \in Entries(held) /\ \A i \in DOMAIN list : list[i].id \in DOMAIN byId
  <2>1. \A i \in DOMAIN list : list[i] \in Entries(byId)
    BY <1>1, SeqHas
  <2>2. \A i \in DOMAIN list : list[i] \in Entries(held) /\ list[i].id \in DOMAIN byId
    BY <2>1, <1>2 DEF Entries
  <2>3. Entry(item) \in Entries(held)
    BY <1>2 DEF Entry, Entries
  <2>4. list \in Seq(Entries(held))
    BY <1>1, <2>2, SeqRestricted
  <2> QED BY <2>2, <2>3, <2>4
<1>4. /\ after \in Seq(Entries(held)) /\ n \in Nat /\ DOMAIN list = 1 .. n /\ DOMAIN after = 1 .. (n + 1)
      /\ after[n + 1] = Entry(item) /\ \A i \in 1 .. n : after[i] = list[i]
  <2> QED BY <1>3, AppendProperties
<1>5. Entry(item).id = item.id /\ Entry(item).v = item.v
  BY DEF Entry
<1> HIDE DEF after, n
<1>6. \A i \in 1 .. (n + 1) : i = n + 1 \/ i \in 1 .. n
  BY <1>4
<1>7. ASSUME NEW i \in 1 .. (n + 1)
      PROVE  Parent[after[i].id] = Parent[item.id] /\ (type = "comment" => after[i].v = held[after[i].id])
  <2>1. CASE i = n + 1
    BY <2>1, <1>2, <1>4, <1>5
  <2>2. CASE i \in 1 .. n
    <3>1. list[i].id # item.id
      BY <2>2, <1>4 DEF Holds
    <3>2. after[i] = list[i] /\ i \in DOMAIN list /\ list[i].id \in DOMAIN byId
      BY <2>2, <1>3, <1>4
    <3>3. held[list[i].id] = byId[list[i].id]
      BY <3>1, <3>2, <1>2
    <3> QED BY <3>2, <3>3, <1>1
  <2> QED BY <1>6, <2>1, <2>2
<1>8. ASSUME NEW i \in 1 .. (n + 1), NEW j \in 1 .. (n + 1), after[i].id = after[j].id PROVE i = j
  <2>1. \A k \in 1 .. n : after[k].id # item.id
    BY <1>4 DEF Holds
  <2>2. CASE i \in 1 .. n /\ j \in 1 .. n
    BY <2>2, <1>1, <1>4, <1>8
  <2>3. CASE i = n + 1 \/ j = n + 1
    BY <2>1, <2>3, <1>4, <1>5, <1>6, <1>8
  <2> QED BY <1>6, <2>2, <2>3
<1>9. ListOK(after, held, Parent[item.id], type)
  BY <1>4, <1>7, <1>8 DEF ListOK
<1>10. \A id : Holds(list, id) \/ id = item.id => Holds(after, id)
  <2>1. n + 1 \in 1 .. (n + 1) /\ \A i \in 1 .. n : i \in 1 .. (n + 1)
    BY <1>4
  <2> QED BY <2>1, <1>4, <1>5 DEF Holds
<1> QED BY <1>9, <1>10 DEF after, held

\* What the other cards list is not touched.
LEMMA OtherList ==
    ASSUME NEW byId, NEW list, NEW card, NEW type, ListOK(list, byId, card, type),
           NEW x, NEW v, ~Holds(list, x) \/ type # "comment"
    PROVE  ListOK(list, With(byId, x, v), card, type)
<1> DEFINE held == With(byId, x, v)
<1>1. \A i \in DOMAIN list : list[i] \in Entries(byId)
  BY SeqHas DEF ListOK
<1>2. DOMAIN held = DOMAIN byId \cup {x} /\ \A id \in DOMAIN byId : id # x => held[id] = byId[id]
  BY DEF With
<1> HIDE DEF held
<1>3. \A i \in DOMAIN list : list[i] \in Entries(held) /\ list[i].id \in DOMAIN byId
  BY <1>1, <1>2 DEF Entries
<1>4. list \in Seq(Entries(held))
  <2>1. list \in Seq(Entries(byId))
    BY DEF ListOK
  <2> QED BY <1>3, <2>1, SeqRestricted
<1>5. type = "comment" => \A i \in DOMAIN list : list[i].v = held[list[i].id]
  BY <1>2, <1>3 DEF ListOK, Holds
<1>6. ListOK(list, held, card, type)
  BY <1>4, <1>5 DEF ListOK
<1> QED BY <1>6 DEF held

\* What a batch holds for a slice: blocks of its type, and deleted blocks.
ItemOK(item, type) ==
    /\ item.id \in Blocks /\ item.v \in Nat
    /\ item.alive => Type[item.id] = type /\ item.v \in 1 .. server[item.id].v

\* The ids of a slice after an item that is there.
LEMMA HeldAlive ==
    ASSUME NEW byId, NEW item, NEW type, ItemOK(item, type), item.alive, DOMAIN byId \subseteq Of(type),
           \A id \in DOMAIN byId : byId[id] \in 1 .. server[id].v
    PROVE  LET held == Put(byId, item)
           IN  /\ held = With(byId, item.id, item.v)
               /\ held = [id \in DOMAIN held |-> held[id]] /\ DOMAIN held \subseteq Of(type)
               /\ DOMAIN held = DOMAIN byId \cup {item.id}
               /\ \A id \in DOMAIN held : held[id] \in 1 .. server[id].v
BY DEF ItemOK, Put, With, Of

\* A comment that is put leaves ids and lists in agreement.
LEMMA PutCommentOK ==
    ASSUME NEW slice, NEW type, SliceOK(slice, type),
           NEW item, ItemOK(item, type)
    PROVE  /\ SliceOK(PutComment(slice, item), type)
           /\ PutComment(slice, item).byId = Put(slice.byId, item)
<1> DEFINE x == item.id
           card == Parent[x]
           old == slice.byCard
           after == PutComment(slice, item)
           held == Put(slice.byId, item)
           lists == after.byCard
<1>1. /\ DOMAIN slice.byId \subseteq Of(type)
      /\ \A id \in DOMAIN slice.byId : slice.byId[id] \in 1 .. server[id].v /\ InList(old, Parent[id], id)
      /\ \A c \in DOMAIN old : ListOK(old[c], slice.byId, c, type)
  BY DEF SliceOK
<1>2. after.byId = held /\ after = [byId |-> after.byId, byCard |-> after.byCard]
  BY DEF PutComment
<1>3. \A c, id : InList(old, c, id) <=> c \in DOMAIN old /\ Holds(old[c], id)
  BY DEF InList, Holds
<1>4. CASE ~item.alive
  <2>1. held = [id \in DOMAIN slice.byId \ {x} |-> slice.byId[id]]
    BY <1>4 DEF Put
  <2>2. lists = [c \in DOMAIN old |-> Filtered(old[c], {e \in ToSet(old[c]) : e.id # x})]
    BY <1>4 DEF PutComment, Delist
  <2> HIDE DEF held, lists, old, after, x
  <2>3. ASSUME NEW c \in DOMAIN old
        PROVE  ListOK(lists[c], held, c, type) /\ \A id : id # x /\ Holds(old[c], id) => Holds(lists[c], id)
    <3>1. ListOK(old[c], slice.byId, c, type)
      BY <1>1
    <3> DEFINE new == Filtered(old[c], {e \in ToSet(old[c]) : e.id # x})
    <3>2. /\ ListOK(new, [id \in DOMAIN slice.byId \ {x} |-> slice.byId[id]], c, type)
          /\ \A id : id # x /\ Holds(old[c], id) => Holds(new, id)
      BY <3>1, DelistedList
    <3>3. lists[c] = new
      BY <2>2
    <3> HIDE DEF new
    <3> QED BY <2>1, <3>2, <3>3
  <2>4. DOMAIN lists = DOMAIN old /\ lists = [c \in DOMAIN lists |-> lists[c]]
    BY <2>2
  <2>5. \A id \in DOMAIN held : InList(lists, Parent[id], id)
    <3>1. ASSUME NEW id \in DOMAIN held PROVE InList(lists, Parent[id], id)
      <4>1. id # x /\ id \in DOMAIN slice.byId
        BY <2>1
      <4>2. Parent[id] \in DOMAIN old /\ Holds(old[Parent[id]], id)
        BY <1>1, <1>3, <4>1
      <4> QED BY <4>1, <4>2, <2>3, <2>4 DEF InList, Holds
    <3> QED BY <3>1
  <2>6. /\ held = [id \in DOMAIN held |-> held[id]] /\ DOMAIN held \subseteq Of(type)
        /\ \A id \in DOMAIN held : held[id] \in 1 .. server[id].v
    BY <1>1, <2>1
  <2>7. SliceOK(after, type)
    BY <1>2, <2>3, <2>4, <2>5, <2>6 DEF SliceOK, lists
  <2> QED BY <1>2, <2>7 DEF after, held
<1>5. CASE item.alive
  <2>1. /\ held = With(slice.byId, x, item.v)
        /\ held = [id \in DOMAIN held |-> held[id]] /\ DOMAIN held \subseteq Of(type)
        /\ DOMAIN held = DOMAIN slice.byId \cup {x}
        /\ \A id \in DOMAIN held : held[id] \in 1 .. server[id].v
    BY <1>1, <1>5, HeldAlive
  <2>2. item.v \in Nat
    BY DEF ItemOK
  <2>3. CASE InList(old, card, x)
    <3> DEFINE new == [i \in DOMAIN old[card] |-> IF old[card][i].id = x THEN Entry(item) ELSE old[card][i]]
    <3>1. lists = [old EXCEPT ![card] = new]
      BY <1>5, <2>3 DEF PutComment
    <3>2. card \in DOMAIN old /\ Holds(old[card], x) /\ ListOK(old[card], slice.byId, card, type)
      BY <1>1, <1>3, <2>3
    <3>3. ListOK(new, held, card, type) /\ \A id : Holds(old[card], id) => Holds(new, id)
      BY <2>1, <2>2, <3>2, ReplacedList
    <3> HIDE DEF new, held, lists, old, after, x, card
    <3>4. /\ DOMAIN lists = DOMAIN old /\ lists = [c \in DOMAIN lists |-> lists[c]]
          /\ lists[card] = new /\ \A c \in DOMAIN old : c # card => lists[c] = old[c]
      BY <3>1, <3>2
    <3>5. ASSUME NEW c \in DOMAIN old, c # card PROVE ListOK(old[c], held, c, type)
      <4>1. ListOK(old[c], slice.byId, c, type)
        BY <1>1
      <4>2. ~Holds(old[c], x)
        BY <4>1, <3>5 DEF ListOK, Holds, card
      <4> QED BY <2>1, <4>1, <4>2, OtherList
    <3>6. \A c \in DOMAIN lists : ListOK(lists[c], held, c, type)
      BY <3>3, <3>4, <3>5
    <3>7. ASSUME NEW id \in DOMAIN held PROVE InList(lists, Parent[id], id)
      <4>1. Parent[id] \in DOMAIN old /\ Holds(old[Parent[id]], id)
        BY <1>1, <1>3, <2>1, <3>2 DEF card
      <4>2. Holds(lists[Parent[id]], id)
        BY <4>1, <3>3, <3>4
      <4> QED BY <4>1, <4>2, <3>4 DEF InList, Holds
    <3>8. SliceOK(after, type)
      BY <1>2, <2>1, <3>4, <3>6, <3>7 DEF SliceOK, lists
    <3> QED BY <1>2, <3>8 DEF after, held
  <2>4. CASE ~InList(old, card, x)
    <3> DEFINE list == List(old, card)
               new == Append(list, Entry(item))
    <3>1. lists = With(old, card, new)
      BY <1>5, <2>4 DEF PutComment
    <3>2. ListOK(list, slice.byId, card, type) /\ ~Holds(list, x)
      <4>1. CASE card \in DOMAIN old
        BY <4>1, <1>1, <1>3, <2>4 DEF List
      <4>2. CASE card \notin DOMAIN old
        <5>1. list = <<>> /\ <<>> \in Seq(Entries(slice.byId)) /\ DOMAIN <<>> = {}
          BY <4>2 DEF List
        <5> HIDE DEF list
        <5> QED BY <5>1 DEF ListOK, Holds
      <4> QED BY <4>1, <4>2
    <3>3. ListOK(new, held, card, type) /\ \A id : Holds(list, id) \/ id = x => Holds(new, id)
      <4> HIDE DEF list
      <4> QED BY <2>1, <2>2, <3>2, AppendedList
    <3>l. card \in DOMAIN old => list = old[card]
      BY DEF List
    <3> HIDE DEF new, list, held, lists, old, after, x, card
    <3>4. /\ DOMAIN lists = DOMAIN old \cup {card} /\ lists = [c \in DOMAIN lists |-> lists[c]]
          /\ lists[card] = new /\ \A c \in DOMAIN old : c # card => lists[c] = old[c]
      BY <3>1 DEF With
    <3>5. ASSUME NEW c \in DOMAIN old, c # card PROVE ListOK(old[c], held, c, type)
      <4>1. ListOK(old[c], slice.byId, c, type)
        BY <1>1
      <4>2. ~Holds(old[c], x)
        BY <4>1, <3>5 DEF ListOK, Holds, card
      <4> QED BY <2>1, <4>1, <4>2, OtherList
    <3>6. \A c \in DOMAIN lists : ListOK(lists[c], held, c, type)
      BY <3>3, <3>4, <3>5
    <3>7. ASSUME NEW id \in DOMAIN held PROVE InList(lists, Parent[id], id)
      <4>1. CASE id = x
        BY <4>1, <3>3, <3>4 DEF InList, Holds, card
      <4>2. CASE id # x
        <5>1. Parent[id] \in DOMAIN old /\ Holds(old[Parent[id]], id)
          BY <4>2, <1>1, <1>3, <2>1
        <5>2. Holds(lists[Parent[id]], id)
          BY <5>1, <3>3, <3>4, <3>l
        <5> QED BY <5>1, <5>2, <3>4 DEF InList, Holds
      <4> QED BY <4>1, <4>2
    <3>8. SliceOK(after, type)
      BY <1>2, <2>1, <3>4, <3>6, <3>7 DEF SliceOK, lists
    <3> QED BY <1>2, <3>8 DEF after, held
  <2> QED BY <2>3, <2>4
<1> QED BY <1>4, <1>5

\* So does an attachment, whichever way its reducer goes.
LEMMA PutAttachmentOK ==
    ASSUME NEW slice, SliceOK(slice, "attachment"), NEW item, ItemOK(item, "attachment")
    PROVE  /\ SliceOK(PutAttachment(slice, item), "attachment")
           /\ PutAttachment(slice, item).byId = Put(slice.byId, item)
<1>1. CASE item.alive /\ InList(slice.byCard, Parent[item.id], item.id)
  <2> DEFINE after == PutAttachment(slice, item)
             held == Put(slice.byId, item)
  <2>1. after = [byId |-> held, byCard |-> slice.byCard]
    BY <1>1 DEF PutAttachment, SliceOK
  <2>2. /\ held = With(slice.byId, item.id, item.v)
        /\ held = [id \in DOMAIN held |-> held[id]] /\ DOMAIN held \subseteq Of("attachment")
        /\ DOMAIN held = DOMAIN slice.byId \cup {item.id}
        /\ \A id \in DOMAIN held : held[id] \in 1 .. server[id].v
    BY <1>1, HeldAlive DEF SliceOK
  <2> HIDE DEF after, held
  <2>3. \A card \in DOMAIN slice.byCard : ListOK(slice.byCard[card], held, card, "attachment")
    BY <2>2, OtherList DEF SliceOK
  <2>4. \A id \in DOMAIN held : InList(slice.byCard, Parent[id], id)
    BY <1>1, <2>2 DEF SliceOK
  <2>5. after.byId = held /\ after.byCard = slice.byCard
    BY <2>1
  <2>6. SliceOK(after, "attachment")
    BY <2>1, <2>2, <2>3, <2>4, <2>5 DEF SliceOK
  <2> QED BY <2>5, <2>6 DEF after, held
<1>2. CASE ~(item.alive /\ InList(slice.byCard, Parent[item.id], item.id))
  <2>1. PutAttachment(slice, item) = PutComment(slice, item)
    BY <1>2 DEF PutAttachment
  <2> QED BY <2>1, PutCommentOK
<1> QED BY <1>1, <1>2

\* A batch of comments: what the loop comes to is put, the rest is left.
LEMMA CommentsOK ==
    ASSUME NEW slice, NEW items \in Seq(Messages), SliceOK(slice, "comment"),
           \A i \in DOMAIN items : ItemOK(items[i], "comment"),
           \A i, j \in DOMAIN items : items[i].id = items[j].id => i = j
    PROVE  LET after == updateComments(slice, items)
           IN  /\ SliceOK(after.slice, "comment")
               /\ \A i \in DOMAIN items :
                    \/ InSlice(after.slice.byId, items[i].id) = IF items[i].alive THEN items[i].v ELSE 0
                    \/ <<items[i].id, items[i].v>> \in after.left
               /\ \A id : (\A i \in DOMAIN items : items[i].id # id) =>
                    InSlice(after.slice.byId, id) = InSlice(slice.byId, id)
<1>1. Len(items) \in Nat /\ DOMAIN items = 1 .. Len(items)
  OBVIOUS
<1>2. PICK f : /\ f[0] = [slice |-> slice, returned |-> FALSE, left |-> {}]
               /\ f[Len(items)] = updateComments(slice, items)
               /\ \A k \in 1 .. Len(items) : f[k] = CommentStep(f[k - 1], items[k])
  BY <1>1, CommentsUnfold
<1> DEFINE n == Len(items)
           Shape(k) == f[k] = [slice |-> f[k].slice, returned |-> f[k].returned, left |-> f[k].left]
                       /\ f[k].returned \in BOOLEAN /\ SliceOK(f[k].slice, "comment")
           Done(k, i) == \/ InSlice(f[k].slice.byId, items[i].id) = IF items[i].alive THEN items[i].v ELSE 0
                         \/ <<items[i].id, items[i].v>> \in f[k].left
           Others(k) == \A id : (\A i \in 1 .. k : items[i].id # id) =>
                          InSlice(f[k].slice.byId, id) = InSlice(slice.byId, id)
           G == {k \in 0 .. n : Shape(k) /\ (\A i \in 1 .. k : Done(k, i)) /\ Others(k)}
<1>3. n \in Nat /\ DOMAIN items = 1 .. n /\ f[n] = updateComments(slice, items)
      /\ \A k \in 1 .. n : f[k] = CommentStep(f[k - 1], items[k])
  BY <1>1, <1>2
<1> HIDE DEF n
<1>4. 0 \in G
  <2>1. Shape(0) /\ Others(0) /\ \A i \in 1 .. 0 : Done(0, i)
    <3>1. f[0].slice = slice /\ f[0].returned = FALSE /\ f[0].left = {}
      BY <1>2
    <3>2. Shape(0)
      BY <1>2, <3>1
    <3>3. Others(0)
      BY <3>1
    <3>4. \A i \in 1 .. 0 : Done(0, i)
      OBVIOUS
    <3> HIDE DEF Shape, Done, Others
    <3> QED BY <3>2, <3>3, <3>4
  <2> HIDE DEF Shape, Done, Others
  <2> QED BY <1>3, <2>1
<1>5. ASSUME NEW k \in 1 .. n, k - 1 \in G PROVE k \in G
  <2> DEFINE acc == f[k - 1]
             item == items[k]
  <2>1. /\ Shape(k - 1) /\ Others(k - 1) /\ f[k] = CommentStep(acc, item)
        /\ \A i \in 1 .. (k - 1) : Done(k - 1, i)
    BY <1>3, <1>5
  <2>2. ItemOK(item, "comment") /\ k \in 1 .. k /\ \A i \in 1 .. (k - 1) : i \in 1 .. k
    <3>1. k \in 1 .. k /\ \A i \in 1 .. (k - 1) : i \in 1 .. k
      BY <1>3
    <3>2. k \in DOMAIN items
      BY <1>3
    <3>3. ItemOK(item, "comment")
      BY <3>2, Zenon
    <3> QED BY <3>1, <3>3
  <2>3. \A i \in 1 .. k : i = k \/ (i \in 1 .. (k - 1) /\ items[i].id # item.id)
    <3>1. \A i \in 1 .. k : i = k \/ (i \in 1 .. (k - 1) /\ i # k /\ i \in DOMAIN items)
      BY <1>3
    <3>2. k \in DOMAIN items
      BY <1>3
    <3>3. \A i \in DOMAIN items : items[i].id = item.id => i = k
      BY <3>2
    <3> QED BY <3>1, <3>3
  <2>4. CASE acc.returned
    <3>1. f[k] = [slice |-> acc.slice, returned |-> acc.returned, left |-> acc.left \cup {<<item.id, item.v>>}]
      BY <2>1, <2>4 DEF CommentStep
    <3>2. f[k].slice = acc.slice /\ f[k].returned = acc.returned /\ f[k].left = acc.left \cup {<<item.id, item.v>>}
      BY <3>1
    <3> HIDE DEF acc
    <3>3. Shape(k)
      BY <2>1, <3>1, <3>2 DEF acc
    <3>4. \A i \in 1 .. k : Done(k, i)
      BY <2>1, <2>3, <3>2 DEF acc
    <3>5. Others(k)
      BY <2>1, <2>2, <3>2 DEF acc
    <3> HIDE DEF Shape, Done, Others
    <3> QED BY <1>3, <3>3, <3>4, <3>5
  <2>5. CASE ~acc.returned
    <3>1. f[k] = [slice |-> PutComment(acc.slice, item), returned |-> CommentReturns(acc.slice, item), left |-> acc.left]
      BY <2>1, <2>5 DEF CommentStep
    <3>2. /\ f[k].slice = PutComment(acc.slice, item) /\ f[k].left = acc.left
          /\ f[k].returned = CommentReturns(acc.slice, item)
      BY <3>1
    <3>3. CommentReturns(acc.slice, item) \in BOOLEAN
      BY DEF CommentReturns, InList
    <3>4. SliceOK(f[k].slice, "comment") /\ f[k].slice.byId = Put(acc.slice.byId, item)
      <4>1. SliceOK(acc.slice, "comment")
        BY <2>1
      <4> HIDE DEF acc, item
      <4>2. /\ SliceOK(PutComment(acc.slice, item), "comment")
            /\ PutComment(acc.slice, item).byId = Put(acc.slice.byId, item)
        BY <4>1, <2>2, PutCommentOK, Zenon
      <4> QED BY <4>2, <3>2
    <3>5. \A id : InSlice(f[k].slice.byId, id) =
             IF id = item.id THEN (IF item.alive THEN item.v ELSE 0) ELSE InSlice(acc.slice.byId, id)
      BY <3>4, PutOne
    <3> HIDE DEF acc
    <3>6. Shape(k)
      BY <3>1, <3>2, <3>3, <3>4
    <3>7. \A i \in 1 .. k : Done(k, i)
      BY <2>1, <2>3, <3>2, <3>5 DEF acc
    <3>8. Others(k)
      BY <2>1, <2>2, <3>5 DEF acc
    <3> HIDE DEF Shape, Done, Others
    <3> QED BY <1>3, <3>6, <3>7, <3>8
  <2> QED BY <2>4, <2>5
<1>6. n \in G
  <2> HIDE DEF G
  <2> QED BY <1>3, <1>4, <1>5, UpTo
<1>7. Shape(n) /\ Others(n) /\ \A i \in 1 .. n : Done(n, i)
  BY <1>6
<1> QED BY <1>3, <1>7

\* So a batch of attachments.
LEMMA AttachmentsOK ==
    ASSUME NEW slice, NEW items \in Seq(Messages), SliceOK(slice, "attachment"),
           \A i \in DOMAIN items : ItemOK(items[i], "attachment"),
           \A i, j \in DOMAIN items : items[i].id = items[j].id => i = j
    PROVE  LET after == updateAttachments(slice, items)
           IN  /\ SliceOK(after.slice, "attachment")
               /\ \A i \in DOMAIN items :
                    \/ InSlice(after.slice.byId, items[i].id) = IF items[i].alive THEN items[i].v ELSE 0
                    \/ <<items[i].id, items[i].v>> \in after.left
               /\ \A id : (\A i \in DOMAIN items : items[i].id # id) =>
                    InSlice(after.slice.byId, id) = InSlice(slice.byId, id)
<1>1. Len(items) \in Nat /\ DOMAIN items = 1 .. Len(items)
  OBVIOUS
<1>2. PICK f : /\ f[0] = [slice |-> slice, returned |-> FALSE, left |-> {}]
               /\ f[Len(items)] = updateAttachments(slice, items)
               /\ \A k \in 1 .. Len(items) : f[k] = AttachmentStep(f[k - 1], items[k])
  BY <1>1, AttachmentsUnfold
<1> DEFINE n == Len(items)
           Shape(k) == f[k] = [slice |-> f[k].slice, returned |-> f[k].returned, left |-> f[k].left]
                       /\ f[k].returned \in BOOLEAN /\ SliceOK(f[k].slice, "attachment")
           Done(k, i) == \/ InSlice(f[k].slice.byId, items[i].id) = IF items[i].alive THEN items[i].v ELSE 0
                         \/ <<items[i].id, items[i].v>> \in f[k].left
           Others(k) == \A id : (\A i \in 1 .. k : items[i].id # id) =>
                          InSlice(f[k].slice.byId, id) = InSlice(slice.byId, id)
           G == {k \in 0 .. n : Shape(k) /\ (\A i \in 1 .. k : Done(k, i)) /\ Others(k)}
<1>3. n \in Nat /\ DOMAIN items = 1 .. n /\ f[n] = updateAttachments(slice, items)
      /\ \A k \in 1 .. n : f[k] = AttachmentStep(f[k - 1], items[k])
  BY <1>1, <1>2
<1> HIDE DEF n
<1>4. 0 \in G
  <2>1. Shape(0) /\ Others(0) /\ \A i \in 1 .. 0 : Done(0, i)
    <3>1. f[0].slice = slice /\ f[0].returned = FALSE /\ f[0].left = {}
      BY <1>2
    <3>2. Shape(0)
      BY <1>2, <3>1
    <3>3. Others(0)
      BY <3>1
    <3>4. \A i \in 1 .. 0 : Done(0, i)
      OBVIOUS
    <3> HIDE DEF Shape, Done, Others
    <3> QED BY <3>2, <3>3, <3>4
  <2> HIDE DEF Shape, Done, Others
  <2> QED BY <1>3, <2>1
<1>5. ASSUME NEW k \in 1 .. n, k - 1 \in G PROVE k \in G
  <2> DEFINE acc == f[k - 1]
             item == items[k]
  <2>1. /\ Shape(k - 1) /\ Others(k - 1) /\ f[k] = AttachmentStep(acc, item)
        /\ \A i \in 1 .. (k - 1) : Done(k - 1, i)
    BY <1>3, <1>5
  <2>2. ItemOK(item, "attachment") /\ k \in 1 .. k /\ \A i \in 1 .. (k - 1) : i \in 1 .. k
    <3>1. k \in 1 .. k /\ \A i \in 1 .. (k - 1) : i \in 1 .. k
      BY <1>3
    <3>2. k \in DOMAIN items
      BY <1>3
    <3>3. ItemOK(item, "attachment")
      BY <3>2, Zenon
    <3> QED BY <3>1, <3>3
  <2>3. \A i \in 1 .. k : i = k \/ (i \in 1 .. (k - 1) /\ items[i].id # item.id)
    <3>1. \A i \in 1 .. k : i = k \/ (i \in 1 .. (k - 1) /\ i # k /\ i \in DOMAIN items)
      BY <1>3
    <3>2. k \in DOMAIN items
      BY <1>3
    <3>3. \A i \in DOMAIN items : items[i].id = item.id => i = k
      BY <3>2
    <3> QED BY <3>1, <3>3
  <2>4. CASE acc.returned
    <3>1. f[k] = [slice |-> acc.slice, returned |-> acc.returned, left |-> acc.left \cup {<<item.id, item.v>>}]
      BY <2>1, <2>4 DEF AttachmentStep
    <3>2. f[k].slice = acc.slice /\ f[k].returned = acc.returned /\ f[k].left = acc.left \cup {<<item.id, item.v>>}
      BY <3>1
    <3> HIDE DEF acc
    <3>3. Shape(k)
      BY <2>1, <3>1, <3>2 DEF acc
    <3>4. \A i \in 1 .. k : Done(k, i)
      BY <2>1, <2>3, <3>2 DEF acc
    <3>5. Others(k)
      BY <2>1, <2>2, <3>2 DEF acc
    <3> HIDE DEF Shape, Done, Others
    <3> QED BY <1>3, <3>3, <3>4, <3>5
  <2>5. CASE ~acc.returned
    <3>1. f[k] = [slice |-> PutAttachment(acc.slice, item), returned |-> AttachmentReturns(acc.slice, item), left |-> acc.left]
      BY <2>1, <2>5 DEF AttachmentStep
    <3>2. /\ f[k].slice = PutAttachment(acc.slice, item) /\ f[k].left = acc.left
          /\ f[k].returned = AttachmentReturns(acc.slice, item)
      BY <3>1
    <3>3. AttachmentReturns(acc.slice, item) \in BOOLEAN
      BY DEF AttachmentReturns
    <3>4. SliceOK(f[k].slice, "attachment") /\ f[k].slice.byId = Put(acc.slice.byId, item)
      <4>1. SliceOK(acc.slice, "attachment")
        BY <2>1
      <4> HIDE DEF acc, item
      <4> QED BY <4>1, <2>2, <3>2, PutAttachmentOK
    <3>5. \A id : InSlice(f[k].slice.byId, id) =
             IF id = item.id THEN (IF item.alive THEN item.v ELSE 0) ELSE InSlice(acc.slice.byId, id)
      BY <3>4, PutOne
    <3> HIDE DEF acc
    <3>6. Shape(k)
      BY <3>1, <3>2, <3>3, <3>4
    <3>7. \A i \in 1 .. k : Done(k, i)
      BY <2>1, <2>3, <3>2, <3>5 DEF acc
    <3>8. Others(k)
      BY <2>1, <2>2, <3>5 DEF acc
    <3> HIDE DEF Shape, Done, Others
    <3> QED BY <1>3, <3>6, <3>7, <3>8
  <2> QED BY <2>4, <2>5
<1>6. n \in G
  <2> HIDE DEF G
  <2> QED BY <1>3, <1>4, <1>5, UpTo
<1>7. Shape(n) /\ Others(n) /\ \A i \in 1 .. n : Done(n, i)
  BY <1>6
<1> QED BY <1>3, <1>7

-----------------------------------------------------------------------------
(* What a load puts in the place of a slice.                               *)

\* SetToSeq() lists each element once.
LEMMA SetListed ==
    ASSUME NEW S, IsFiniteSet(S)
    PROVE  /\ SetToSeq(S) \in Seq(S)
           /\ \A i, j \in DOMAIN SetToSeq(S) : SetToSeq(S)[i] = SetToSeq(S)[j] => i = j
           /\ \A x \in S : \E i \in DOMAIN SetToSeq(S) : SetToSeq(S)[i] = x
<1> DEFINE q == SetToSeq(S)
<1>1. Cardinality(S) \in Nat /\ \E g \in [1..Cardinality(S) -> S] : IsInjective(g)
  BY FS_CardinalityType DEF ExistsBijection, Bijection, Injection
<1>2. q \in [1..Cardinality(S) -> S] /\ IsInjective(q)
  BY <1>1 DEF SetToSeq
<1> HIDE DEF q
<1>3. q \in Surjection(1..Cardinality(S), S)
  <2>1. q \in Injection(1..Cardinality(S), S)
    BY <1>2 DEF Injection
  <2>2. Cardinality(1..Cardinality(S)) = Cardinality(S)
    BY <1>1, FS_Interval
  <2> QED BY <1>1, <2>1, <2>2, FS_Injection
<1>4. q \in Seq(S)
  <2>1. ASSUME NEW n \in Nat, NEW g \in [1..n -> S] PROVE g \in Seq(S)
    OBVIOUS
  <2> QED BY <1>1, <1>2, <2>1
<1>5. \A i, j \in DOMAIN q : q[i] = q[j] => i = j
  BY <1>2 DEF IsInjective
<1>6. \A x \in S : \E i \in DOMAIN q : q[i] = x
  BY <1>2, <1>3 DEF Surjection
<1> QED BY <1>4, <1>5, <1>6 DEF q

\* What a load holds of an id.
LEMMA LoadedHolds ==
    ASSUME ServerInv, NEW ids \in SUBSET Items, NEW answer, IsAnswer(answer, ids), NEW type
    PROVE  LET byId == LoadedById(answer, type)
           IN  /\ byId = [id \in DOMAIN byId |-> byId[id]] /\ DOMAIN byId \subseteq ids \cap Of(type)
               /\ \A id \in DOMAIN byId : byId[id] \in Nat /\ byId[id] \in 1 .. server[id].v
               /\ \A id \in ids \cap Of(type) :
                    InSlice(byId, id) = IF answer[id].alive THEN answer[id].v ELSE 0
<1> DEFINE D == {id \in DOMAIN answer \cap Blocks : Type[id] = type /\ answer[id].alive}
           byId == LoadedById(answer, type)
<1>1. DOMAIN answer = ids /\ \A id \in ids : answer[id].v \in Nat /\ Had(id, answer[id])
  BY DEF IsAnswer
<1>2. byId = [id \in D |-> answer[id].v]
  BY DEF LoadedById
<1>3. DOMAIN byId = D /\ D \subseteq ids \cap Of(type) /\ \A id \in D : byId[id] = answer[id].v
  BY <1>1, <1>2 DEF Of
<1>4. \A id \in D : byId[id] \in Nat /\ byId[id] \in 1 .. server[id].v
  <2>1. ASSUME NEW id \in D PROVE byId[id] \in Nat /\ byId[id] \in 1 .. server[id].v
    <3>1. id \in ids /\ answer[id].alive
      BY <1>1
    <3>2. 1 <= answer[id].v /\ answer[id].v <= server[id].v
      BY <1>1, <3>1 DEF Had
    <3>3. server[id].v \in Nat
      BY <3>1 DEF ServerInv
    <3> QED BY <1>1, <1>3, <3>1, <3>2, <3>3
  <2> QED BY <2>1
<1>5. \A id \in ids \cap Of(type) : InSlice(byId, id) = IF answer[id].alive THEN answer[id].v ELSE 0
  BY <1>1, <1>3 DEF InSlice, Of
<1> HIDE DEF D, byId
<1> QED BY <1>2, <1>3, <1>4, <1>5 DEF byId

\* What a load lists for a card.
OnCard(byId, card) == {[id |-> id, v |-> byId[id]] : id \in {id \in DOMAIN byId : Parent[id] = card}}

\* The lists that a load makes have every id that it holds.
LEMMA LoadedByCardOK ==
    ASSUME ServerInv, NEW ids \in SUBSET Items, NEW answer, IsAnswer(answer, ids), NEW type
    PROVE  /\ LoadedByCard(answer, type).byId = LoadedById(answer, type)
           /\ SliceOK(LoadedByCard(answer, type), type)
<1> DEFINE byId == LoadedById(answer, type)
           after == LoadedByCard(answer, type)
           Of1(card) == {id \in DOMAIN byId : Parent[id] = card}
           lists == after.byCard
<1>1. /\ byId = [id \in DOMAIN byId |-> byId[id]] /\ DOMAIN byId \subseteq Of(type)
      /\ \A id \in DOMAIN byId : byId[id] \in Nat /\ byId[id] \in 1 .. server[id].v
  BY LoadedHolds
<1>2. after = [byId |-> byId, byCard |-> [card \in {Parent[id] : id \in DOMAIN byId} |-> SetToSeq(OnCard(byId, card))]]
  BY DEF LoadedByCard, OnCard
<1> HIDE DEF byId, after
<1>3. after.byId = byId /\ after = [byId |-> after.byId, byCard |-> after.byCard]
  BY <1>2
<1>4. /\ DOMAIN lists = {Parent[id] : id \in DOMAIN byId}
      /\ \A card \in DOMAIN lists : lists[card] = SetToSeq(OnCard(byId, card))
      /\ lists = [card \in DOMAIN lists |-> lists[card]]
  BY <1>2
<1>5. ASSUME NEW card
      PROVE  /\ ListOK(SetToSeq(OnCard(byId, card)), byId, card, type)
             /\ \A id \in Of1(card) : Holds(SetToSeq(OnCard(byId, card)), id)
  <2> DEFINE q == SetToSeq(OnCard(byId, card))
             S == OnCard(byId, card)
  <2>1. IsFiniteSet(S)
    <3>1. IsFiniteSet(Of1(card))
      <4>1. Of1(card) \subseteq Blocks
        BY <1>1 DEF Of
      <4> QED BY <4>1, SyncAssumption, FS_Subset
    <3> DEFINE f == [id \in Of1(card) |-> [id |-> id, v |-> byId[id]]]
    <3>2. f \in Surjection(Of1(card), S)
      BY DEF Surjection, OnCard
    <3> HIDE DEF f, S
    <3> QED BY <3>1, <3>2, FS_Surjection
  <2>2. \A e \in S : /\ e.id \in Of1(card) /\ e.v = byId[e.id]
                     /\ e = [id |-> e.id, v |-> e.v]
    BY DEF OnCard
  <2>3. \A e \in S : e \in Entries(byId)
    BY <1>1, <2>2 DEF Entries
  <2>4. \A id \in Of1(card) : \E e \in S : e.id = id
    <3>1. ASSUME NEW id \in Of1(card) PROVE \E e \in S : e.id = id
      <4>1. [id |-> id, v |-> byId[id]] \in S
        BY DEF OnCard
      <4> QED BY <4>1
    <3> QED BY <3>1
  <2>5. /\ q \in Seq(S)
        /\ \A i, j \in DOMAIN q : q[i] = q[j] => i = j
        /\ \A x \in S : \E i \in DOMAIN q : q[i] = x
    <3> HIDE DEF S
    <3>1. q = SetToSeq(S)
      BY DEF S
    <3> HIDE DEF q
    <3> QED BY <2>1, <3>1, SetListed
  <2> HIDE DEF q, S
  <2>6. \A i \in DOMAIN q : q[i] \in S
    BY <2>5, SeqHas
  <2>7. q \in Seq(Entries(byId))
    BY <2>3, <2>5, <2>6, SeqRestricted
  <2>8. \A i, j \in DOMAIN q : q[i].id = q[j].id => i = j
    <3>1. ASSUME NEW i \in DOMAIN q, NEW j \in DOMAIN q, q[i].id = q[j].id PROVE i = j
      <4>1. q[i] = q[j]
        BY <2>2, <2>6, <3>1
      <4> QED BY <4>1, <2>5
    <3> QED BY <3>1
  <2>9. ListOK(q, byId, card, type)
    BY <2>2, <2>6, <2>7, <2>8 DEF ListOK
  <2>10. \A id \in Of1(card) : Holds(q, id)
    BY <2>4, <2>5 DEF Holds
  <2> QED BY <2>9, <2>10 DEF q
<1>6. \A card \in DOMAIN lists : ListOK(lists[card], byId, card, type)
  BY <1>4, <1>5
<1>7. \A id \in DOMAIN byId : InList(lists, Parent[id], id)
  <2>1. ASSUME NEW id \in DOMAIN byId PROVE InList(lists, Parent[id], id)
    <3>1. Parent[id] \in DOMAIN lists /\ id \in Of1(Parent[id])
      BY <1>4
    <3>2. Holds(lists[Parent[id]], id)
      BY <1>4, <1>5, <3>1
    <3> QED BY <3>1, <3>2 DEF InList, Holds
  <2> QED BY <2>1
<1>8. SliceOK(after, type)
  BY <1>1, <1>3, <1>4, <1>6, <1>7 DEF SliceOK
<1> QED BY <1>3, <1>8 DEF after, byId

-----------------------------------------------------------------------------
(* One step, as far as SyncInv can tell.                                   *)

\* Both slices agree with their lists.
SlicesOK == SliceOK(comments, "comment") /\ SliceOK(attachments, "attachment")

\* The slices agree as long as no version is lost.
LEMMA SlicesStay ==
    ASSUME SlicesOK, UNCHANGED <<comments, attachments>>,
           \A id \in Blocks : server[id].v \in Nat /\ server'[id].v \in Nat /\ server[id].v <= server'[id].v
    PROVE  SlicesOK'
<1>1. ASSUME NEW id \in Blocks, NEW v \in 1 .. server[id].v PROVE v \in 1 .. server'[id].v
  <2>1. server[id].v \in Nat /\ server'[id].v \in Nat /\ server[id].v <= server'[id].v
    OBVIOUS
  <2> QED BY <2>1
<1>2. SliceOK(comments, "comment")'
  BY <1>1 DEF SlicesOK, SliceOK, Of
<1>3. SliceOK(attachments, "attachment")'
  BY <1>1 DEF SlicesOK, SliceOK, Of
<1> QED BY <1>2, <1>3 DEF SlicesOK

\* What is held of an id depends on the store alone.
LEMMA HeldStays ==
    ASSUME UNCHANGED <<cards, views, comments, attachments>>, NEW id
    PROVE  Held(id)' = Held(id)
BY DEF Held, InSlice

\* What is said of versions depends on the server and what was given up.
LEMMA SameServer ==
    ASSUME UNCHANGED server, lost \subseteq lost', NEW id
    PROVE  /\ Current(id)' = Current(id) /\ Item(id)' = Item(id)
           /\ Excused(id) => Excused(id)'
           /\ \A x : Had(id, x)' <=> Had(id, x)
BY DEF Current, Item, Excused, Had, Initial

\* Nothing but the runs changes.
LEMMA RunsMove ==
    ASSUME SyncInv, AnswersInv', UNCHANGED <<server, wire, queue, me, store, seen, lost, loaded>>
    PROVE  SyncInv'
<1>1. ServerInv' /\ MessagesInv' /\ SeenInv'
  BY SameServer DEF SyncInv, ServerInv, MessagesInv, SeenInv, Had, Initial
<1>2. \A id \in Items : Accounted(id)'
  BY DEF SyncInv, Accounted, Excused, InWire, InQueue, Item, Initial
<1>3. StoreInv'
  BY DEF SyncInv, StoreInv, Excused, Current, Held, InSlice, store
<1>4. SlicesOK'
  BY DEF SyncInv, SlicesOK, SliceOK, store
<1> QED BY <1>1, <1>2, <1>3, <1>4 DEF SyncInv, SlicesOK

\* An answer stays one when the server changes nothing.
LEMMA IsAnswerStays ==
    ASSUME UNCHANGED server, NEW answer, NEW ids, IsAnswer(answer, ids)
    PROVE  IsAnswer(answer, ids)'
BY DEF IsAnswer, Had, Initial

\* So do the answers of the runs.
LEMMA AnswersStay ==
    ASSUME AnswersInv, UNCHANGED <<server, url, me, runs>>
    PROVE  AnswersInv'
BY IsAnswerStays DEF AnswersInv, Asked

\* A run that begins has no answer yet.
LEMMA RunBegins ==
    ASSUME AnswersInv, UNCHANGED <<server, me>>, url' \in Boards,
           NEW n, NEW board \in Boards, NEW user, NEW step, runs' = runs \cup {Run(n, board, user, step)}
    PROVE  AnswersInv'
<1> DEFINE s == Run(n, board, user, step)
<1>1. s.board = board /\ s.snapshot = NoSnapshot
  BY DEF Run
<1> HIDE DEF s
<1>2. \A x \in runs' : x \in runs \/ x = s
  BY DEF s
<1>3. ASSUME NEW x \in runs'
      PROVE  x.board \in Boards /\ (x.snapshot # NoSnapshot => IsAnswer(x.snapshot[1], Asked(x))')
  BY <1>1, <1>2, IsAnswerStays DEF AnswersInv, Asked
<1>4. ~me' => \E x \in runs' : x.step = "boards"
  BY DEF AnswersInv
<1> QED BY <1>3, <1>4 DEF AnswersInv

\* The server answers a run.
LEMMA ServeKeepsSync ==
    ASSUME SyncInv, RunsInv, NEW r \in runs, Serve(r)
    PROVE  SyncInv'
<1> DEFINE answer == [id \in Asked(r) |-> [v |-> server[id].v, alive |-> server[id].alive]]
           s == [r EXCEPT !.snapshot = <<answer>>]
<1>1. runs' = (runs \ {r}) \cup {s} /\ UNCHANGED <<server, wire, queue, url, me, store, seen, lost, loaded>>
  BY DEF Serve, page, watched
<1>2. s.board = r.board /\ s.step = r.step /\ s.snapshot = <<answer>>
  BY DEF RunsInv, RunShape
<1>3. Asked(s) = Asked(r)
  BY <1>2 DEF Asked
<1>4. Asked(r) \subseteq Items
  BY DEF Asked, Items, SyncInv, AnswersInv
<1>5. IsAnswer(answer, Asked(r))
  <2>1. \A id \in Asked(r) : server[id] \in [v : Nat, alive : BOOLEAN] /\ Had(id, server[id])
    BY <1>4 DEF SyncInv, ServerInv
  <2>2. \A id \in Asked(r) : answer[id] = server[id]
    BY <2>1
  <2>3. answer \in [Asked(r) -> [v : Nat, alive : BOOLEAN]]
    BY <2>1
  <2> HIDE DEF answer
  <2> QED BY <2>1, <2>2, <2>3 DEF IsAnswer
<1>6. s.snapshot[1] = answer
  BY <1>2
<1> HIDE DEF s, answer
<1>7. AnswersInv'
  BY <1>1, <1>2, <1>3, <1>5, <1>6, IsAnswerStays DEF AnswersInv, SyncInv, Asked
<1> QED BY <1>1, <1>7, RunsMove

\* What is under way ends: the runs that are left, or go on to another request.
LEMMA RunGoesOn ==
    ASSUME AnswersInv, RunsInv, NEW r \in runs, UNCHANGED <<server, url>>,
           NEW step, runs' \in {Follow(r, step), End(r)},
           me' \/ (r.step # "boards" /\ UNCHANGED me)
    PROVE  AnswersInv'
<1> DEFINE s == [r EXCEPT !.step = step, !.snapshot = NoSnapshot]
<1>1. s.board = r.board /\ s.snapshot = NoSnapshot
  BY DEF RunsInv, RunShape
<1>2. runs \ {r} \subseteq runs' /\ runs' \subseteq (runs \ {r}) \cup {s}
  BY DEF Follow, End
<1> HIDE DEF s
<1>3. \A x \in runs' : x.board \in Boards /\ (x.snapshot # NoSnapshot => IsAnswer(x.snapshot[1], Asked(x))')
  BY <1>1, <1>2, IsAnswerStays DEF AnswersInv, Asked
<1>4. ~me' => \E x \in runs' : x.step = "boards"
  BY <1>2 DEF AnswersInv, RunsInv
<1> QED BY <1>3, <1>4 DEF AnswersInv

\* A user changes an item: the message is on the wire, or was never sent.
LEMMA ChangeKeepsSync ==
    ASSUME SyncInv, NEW x \in Items, NEW alive \in BOOLEAN, Change(x, alive)
    PROVE  SyncInv'
<1>v. PICK v : v = server[x].v
  OBVIOUS
<1>m. PICK message : message = [id |-> x, v |-> v + 1, alive |-> alive]
  OBVIOUS
<1>1. /\ server' = [server EXCEPT ![x] = [v |-> v + 1, alive |-> alive]]
      /\ x \in Boards => alive
      /\ v = 0 => alive
      /\ \/ wire' = Append(wire, message) /\ lost' = lost
         \/ lost' = lost \cup {<<x, v + 1>>} /\ wire' = wire
      /\ UNCHANGED <<queue, url, me, runs, store, seen, loaded>>
  BY <1>v, <1>m DEF Change, page
<1>2. ServerInv /\ MessagesInv /\ AnswersInv /\ SeenInv /\ StoreInv /\ SlicesOK
  BY DEF SyncInv, SlicesOK
<1>3. /\ server \in [Items -> [v : Nat, alive : BOOLEAN]] /\ v \in Nat
      /\ server' \in [Items -> [v : Nat, alive : BOOLEAN]]
      /\ server'[x].v = v + 1 /\ server'[x].alive = alive
      /\ \A id \in Items : id # x => server'[id] = server[id]
  <2>1. server \in [Items -> [v : Nat, alive : BOOLEAN]] /\ server[x] \in [v : Nat, alive : BOOLEAN]
    BY <1>2 DEF ServerInv
  <2> QED BY <1>1, <1>v, <2>1
<1>4. lost \subseteq lost' /\ \A id \in Items : server[id].v <= server'[id].v /\ server'[id].v \in Nat /\ server[id].v \in Nat
  <2>1. \A id \in Items : server[id].v \in Nat
    BY <1>3
  <2> QED BY <1>1, <1>3, <1>v, <2>1
<1>5. Initial(x) \in Nat /\ Initial(x) <= v
  BY <1>2, <1>v DEF ServerInv, Had, Initial
<1>6. ASSUME NEW id \in Items, NEW m, m.v \in Nat, Had(id, m) PROVE Had(id, m)'
  <2>1. CASE id = x
    <3>1. ~(m.v = v + 1) /\ m.v <= v + 1
      BY <1>3, <1>v, <1>6, <2>1 DEF Had
    <3> QED BY <1>3, <1>6, <2>1, <3>1 DEF Had, Initial
  <2>2. CASE id # x
    BY <1>3, <1>6, <2>2 DEF Had, Initial
  <2> QED BY <2>1, <2>2
<1>7. ServerInv'
  <2>1. ASSUME NEW id \in Items PROVE Had(id, server[id])'
    <3>1. CASE id = x
      BY <1>3, <1>5, <3>1 DEF Had, Initial
    <3>2. CASE id # x
      <4>1. Had(id, server[id]) /\ server[id].v \in Nat
        BY <1>2, <1>3 DEF ServerInv
      <4> QED BY <1>3, <3>2, <4>1 DEF Had, Initial
    <3> QED BY <3>1, <3>2
  <2>2. \A b \in Boards : server'[b].alive \/ server'[b].v = 0
    BY <1>1, <1>2, <1>3, <1>v DEF ServerInv, Items
  <2> QED BY <1>3, <2>1, <2>2 DEF ServerInv
<1>8. MessagesInv'
  <2>1. message \in Messages /\ Had(x, message)'
    <3>1. message \in Messages
      BY <1>3, <1>m DEF Messages
    <3>2. Had(x, message)'
      BY <1>3, <1>5, <1>m DEF Had, Initial
    <3> QED BY <3>1, <3>2
  <2>2. message.id = x
    BY <1>m
  <2>3. \A i \in DOMAIN wire : wire[i] \in Messages /\ wire[i].id \in Items /\ wire[i].v \in Nat
    <3>1. \A i \in DOMAIN wire : wire[i] \in Messages
      BY <1>2, SeqHas DEF MessagesInv
    <3> QED BY <3>1 DEF Messages
  <2>4. \A i \in DOMAIN queue : queue[i] \in Messages /\ queue[i].id \in Items /\ queue[i].v \in Nat
    <3>1. \A i \in DOMAIN queue : queue[i] \in Messages
      BY <1>2, SeqHas DEF MessagesInv
    <3> QED BY <3>1 DEF Messages
  <2>5. \A i \in DOMAIN queue : Had(queue[i].id, queue[i])'
    <3>1. \A i \in DOMAIN queue : Had(queue[i].id, queue[i])
      BY <1>2 DEF MessagesInv
    <3>2. ASSUME NEW i \in DOMAIN queue PROVE Had(queue[i].id, queue[i])'
      <4>1. queue'[i] = queue[i]
        BY <1>1
      <4>2. server'[queue[i].id].v \in Nat /\ Had(queue[i].id, queue[i])
        BY <1>3, <2>4, <3>1
      <4>3. queue[i].v = server'[queue[i].id].v => queue[i].alive = server'[queue[i].id].alive
        <5>1. CASE queue[i].id = x
          BY <5>1, <1>3, <1>v, <2>4, <4>2 DEF Had
        <5>2. CASE queue[i].id # x
          BY <5>2, <1>3, <2>4, <4>2 DEF Had
        <5> QED BY <5>1, <5>2
      <4>4. queue[i].v <= server'[queue[i].id].v
        BY <1>4, <2>4, <4>2 DEF Had
      <4> QED BY <4>1, <4>2, <4>3, <4>4 DEF Had, Initial
    <3> QED BY <1>1, <3>2
  <2>6. ASSUME NEW i \in DOMAIN wire, wire'[i] = wire[i] PROVE Had(wire[i].id, wire[i])'
    <3>1. /\ server'[wire[i].id].v \in Nat /\ Had(wire[i].id, wire[i])
          /\ wire[i].v \in Nat /\ wire[i].id \in Items
      BY <1>2, <1>3, <2>3 DEF MessagesInv
    <3>2. wire[i].v = server'[wire[i].id].v => wire[i].alive = server'[wire[i].id].alive
      <4>1. CASE wire[i].id = x
        BY <4>1, <1>3, <1>v, <3>1 DEF Had
      <4>2. CASE wire[i].id # x
        BY <4>2, <1>3, <3>1 DEF Had
      <4> QED BY <4>1, <4>2
    <3>3. wire[i].v <= server'[wire[i].id].v
      BY <1>4, <3>1 DEF Had
    <3> QED BY <2>6, <3>1, <3>2, <3>3 DEF Had, Initial
  <2>7. wire' \in Seq(Messages) /\ \A i \in DOMAIN wire' : Had(wire[i].id, wire[i])'
    <3>1. CASE wire' = wire
      BY <3>1, <2>6, <1>2 DEF MessagesInv
    <3>2. CASE wire' = Append(wire, message)
      <4>1. /\ wire' \in Seq(Messages) /\ DOMAIN wire' = 1 .. (Len(wire) + 1) /\ Len(wire) \in Nat
            /\ DOMAIN wire = 1 .. Len(wire)
            /\ wire'[Len(wire) + 1] = message /\ \A i \in 1 .. Len(wire) : wire'[i] = wire[i]
        BY <3>2, <2>1, <1>2, AppendProperties DEF MessagesInv
      <4>2. ASSUME NEW i \in DOMAIN wire' PROVE Had(wire[i].id, wire[i])'
        <5>1. CASE i = Len(wire) + 1
          BY <5>1, <4>1, <2>1, <2>2 DEF Had, Initial
        <5>2. CASE i # Len(wire) + 1
          <6>1. i \in DOMAIN wire /\ wire'[i] = wire[i]
            BY <5>2, <4>1
          <6> QED BY <6>1, <2>6
        <5> QED BY <5>1, <5>2
      <4> QED BY <4>1, <4>2
    <3> QED BY <1>1, <3>1, <3>2
  <2> QED BY <1>1, <1>2, <2>5, <2>7 DEF MessagesInv
<1>9. AnswersInv'
  <2>1. ASSUME NEW r \in runs PROVE r.snapshot # NoSnapshot => IsAnswer(r.snapshot[1], Asked(r))'
    <3>1. SUFFICES ASSUME r.snapshot # NoSnapshot PROVE IsAnswer(r.snapshot[1], Asked(r))'
      OBVIOUS
    <3>2. PICK answer : answer = r.snapshot[1]
      OBVIOUS
    <3>3. IsAnswer(answer, Asked(r)) /\ Asked(r) \subseteq Items
      BY <1>2, <3>1, <3>2 DEF AnswersInv, Asked, Items
    <3>4. \A id \in Asked(r) : answer[id].v \in Nat /\ Had(id, answer[id])
      BY <3>3 DEF IsAnswer
    <3>5. \A id \in Asked(r) : Had(id, answer[id])'
      BY <1>6, <3>3, <3>4
    <3> QED BY <3>2, <3>3, <3>5 DEF IsAnswer, Asked
  <2> QED BY <1>1, <1>2, <2>1 DEF AnswersInv
<1>10. SeenInv'
  <2>1. \A id \in Items : seen[id] \in Nat /\ seen[id] <= server'[id].v
    BY <1>2, <1>4 DEF SeenInv
  <2> QED BY <1>1, <1>2, <2>1 DEF SeenInv, Initial
<1>11. ASSUME NEW id \in Items PROVE Accounted(id)'
  <2>1. Accounted(id)
    BY DEF SyncInv
  <2>2. CASE id = x
    <3>1. CASE lost' = lost \cup {<<x, v + 1>>}
      BY <2>2, <3>1, <1>3 DEF Accounted, Excused
    <3>2. CASE wire' = Append(wire, message)
      <4>1. /\ Len(wire) \in Nat /\ DOMAIN wire' = 1 .. (Len(wire) + 1)
            /\ wire'[Len(wire) + 1] = message
        BY <3>2, <1>2 DEF MessagesInv
      <4>2. Item(id)' = message
        BY <2>2, <1>3, <1>m DEF Item
      <4>3. Len(wire) + 1 \in DOMAIN wire' /\ \A j \in DOMAIN wire' : j <= Len(wire) + 1
        BY <4>1
      <4> QED BY <4>1, <4>2, <4>3 DEF Accounted
    <3> QED BY <1>1, <3>1, <3>2
  <2>3. CASE id # x
    <3>1. Item(id)' = Item(id) /\ (Excused(id) => Excused(id)') /\ server'[id].v = server[id].v
      BY <2>3, <1>3, <1>4 DEF Item, Excused
    <3>2. CASE wire' = wire
      BY <2>1, <3>1, <3>2, <1>1 DEF Accounted, InWire, InQueue, Initial
    <3>3. CASE wire' = Append(wire, message)
      <4>1. /\ Len(wire) \in Nat /\ DOMAIN wire' = 1 .. (Len(wire) + 1) /\ DOMAIN wire = 1 .. Len(wire)
            /\ wire'[Len(wire) + 1] = message /\ \A i \in 1 .. Len(wire) : wire'[i] = wire[i]
        BY <3>3, <1>2 DEF MessagesInv
      <4>2. wire'[Len(wire) + 1].id # id
        BY <4>1, <2>3, <1>m
      <4>3. \A j \in DOMAIN wire' : (j \in DOMAIN wire /\ wire'[j] = wire[j]) \/ wire'[j].id # id
        BY <4>1, <4>2
      <4>4. \A j \in DOMAIN wire : j \in DOMAIN wire' /\ wire'[j] = wire[j]
        BY <4>1
      <4>5. InWire(id)' <=> InWire(id)
        BY <4>3, <4>4 DEF InWire
      <4>6. InQueue(id)' <=> InQueue(id)
        BY <1>1 DEF InQueue
      <4> QED BY <2>1, <3>1, <4>3, <4>4, <4>5, <4>6, <1>1 DEF Accounted, Initial
    <3> QED BY <1>1, <3>2, <3>3
  <2> QED BY <2>2, <2>3
<1>12. StoreInv'
  <2>1. seen[x] # server'[x].v
    <3>1. seen[x] <= v /\ seen[x] \in Nat
      BY <1>2, <1>v DEF SeenInv
    <3> QED BY <1>3, <3>1
  <2>2. \A id \in Items : id # x => Current(id)' = Current(id) /\ (Excused(id) => Excused(id)')
    BY <1>3, <1>4 DEF Current, Excused
  <2>3. \A id : Held(id)' = Held(id)
    BY <1>1 DEF Held, InSlice, store
  <2> QED BY <1>1, <1>2, <1>3, <2>1, <2>2, <2>3 DEF StoreInv, InSlice, store, Items
<1>13. SlicesOK'
  BY <1>1, <1>2, <1>4, SlicesStay DEF store, Items
<1> QED BY <1>7, <1>8, <1>9, <1>10, <1>11, <1>12, <1>13 DEF SyncInv, SlicesOK

\* The connection closes.
LEMMA ClosesKeepsSync ==
    ASSUME SyncInv, Closes
    PROVE  SyncInv'
<1>1. /\ wire' = <<>> /\ lost' = lost \cup {<<wire[i].id, wire[i].v>> : i \in DOMAIN wire}
      /\ UNCHANGED <<server, queue, url, me, runs, store, seen, loaded>>
  BY DEF Closes, page
<1>2. lost \subseteq lost'
  BY <1>1
<1>3. ServerInv' /\ SeenInv' /\ MessagesInv'
  <2>1. wire' \in Seq(Messages) /\ DOMAIN wire' = {}
    BY <1>1
  <2>2. ServerInv' /\ SeenInv'
    BY <1>1 DEF SyncInv, ServerInv, SeenInv, Had, Initial
  <2> QED BY <1>1, <2>1, <2>2 DEF SyncInv, MessagesInv, Had, Initial
<1>4. AnswersInv'
  BY <1>1, AnswersStay DEF SyncInv
<1>5. ASSUME NEW id \in Items PROVE Accounted(id)'
  <2>1. Item(id)' = Item(id) /\ (Excused(id) => Excused(id)') /\ ~InWire(id)' /\ InQueue(id)' = InQueue(id)
    BY <1>1, <1>2, SameServer DEF InWire, InQueue
  <2>2. CASE \E i \in DOMAIN wire : wire[i] = Item(id)
    BY <1>1, <2>2 DEF Item, Accounted, Excused
  <2>3. CASE ~\E i \in DOMAIN wire : wire[i] = Item(id)
    BY <1>1, <2>1, <2>3 DEF SyncInv, Accounted, Initial
  <2> QED BY <2>2, <2>3
<1>6. StoreInv'
  BY <1>1, <1>2 DEF SyncInv, StoreInv, Excused, Current, Held, InSlice, store
<1>7. SlicesOK'
  BY <1>1 DEF SyncInv, SlicesOK, SliceOK, store
<1> QED BY <1>3, <1>4, <1>5, <1>6, <1>7 DEF SyncInv, SlicesOK

\* No two elements of an id.
Distinct(q) == \A i, j \in DOMAIN q : q[i].id = q[j].id => i = j

\* What the queue is with one update more.
LEMMA QueueUpdated ==
    ASSUME NEW q \in Seq(Messages), Distinct(q), NEW item \in Messages,
           NEW after, after = queueUpdateNotification(q, item)
    PROVE  /\ after \in Seq(Messages) /\ Distinct(after)
           /\ \A i \in DOMAIN after : after[i] = item \/ \E j \in DOMAIN q : after[i] = q[j]
           /\ \E i \in DOMAIN after : after[i] = item
           /\ \A j \in DOMAIN q : q[j].id # item.id => \E i \in DOMAIN after : after[i] = q[j]
<1> DEFINE S == {o \in ToSet(q) : o.id # item.id}
           kept == Filtered(q, S)
           n == Len(kept)
<1>1. \A i \in DOMAIN q : q[i].id # item.id <=> q[i] \in S
  BY DEF ToSet
<1>2. \A o \in S : o.id # item.id
  OBVIOUS
<1>a. after = Append(kept, item)
  BY DEF queueUpdateNotification
<1> HIDE DEF S
<1>3. /\ kept \in Seq(Messages)
      /\ \A j \in DOMAIN kept : kept[j] \in S /\ \E i \in DOMAIN q : kept[j] = q[i]
      /\ \A i \in DOMAIN q : q[i] \in S => \E j \in DOMAIN kept : kept[j] = q[i]
      /\ \A i, j \in DOMAIN kept : kept[i].id = kept[j].id => i = j
  BY FilteredFacts DEF Distinct
<1> HIDE DEF kept
<1>4. /\ after \in Seq(Messages) /\ n \in Nat /\ DOMAIN kept = 1 .. n /\ DOMAIN after = 1 .. (n + 1)
      /\ after[n + 1] = item /\ \A i \in 1 .. n : after[i] = kept[i]
  BY <1>3, <1>a, AppendProperties
<1> HIDE DEF n
<1>5. \A i \in DOMAIN after : i = n + 1 \/ (i \in DOMAIN kept /\ after[i] = kept[i] /\ after[i].id # item.id)
  BY <1>2, <1>3, <1>4
<1>6. n + 1 \in DOMAIN after /\ \A i \in DOMAIN kept : i \in DOMAIN after /\ after[i] = kept[i]
  BY <1>4
<1>7. \A i, j \in DOMAIN after : after[i].id = after[j].id => i = j
  <2>1. ASSUME NEW i \in DOMAIN after, NEW j \in DOMAIN after, after[i].id = after[j].id PROVE i = j
    <3>1. CASE i = n + 1 \/ j = n + 1
      BY <2>1, <3>1, <1>4, <1>5
    <3>2. CASE i # n + 1 /\ j # n + 1
      BY <2>1, <3>2, <1>3, <1>5
    <3> QED BY <3>1, <3>2
  <2> QED BY <2>1
<1>8. \A i \in DOMAIN after : after[i] = item \/ \E j \in DOMAIN q : after[i] = q[j]
  BY <1>3, <1>4, <1>5
<1>9. \E i \in DOMAIN after : after[i] = item
  BY <1>4, <1>6
<1>10. \A j \in DOMAIN q : q[j].id # item.id => \E i \in DOMAIN after : after[i] = q[j]
  BY <1>1, <1>3, <1>6
<1> QED BY <1>4, <1>7, <1>8, <1>9, <1>10 DEF Distinct

\* A message moves from the wire to the queue, over the older one of its id.
LEMMA MessageKeepsSync ==
    ASSUME SyncInv, Message
    PROVE  SyncInv'
<1> DEFINE h == Head(wire)
<1>1. /\ wire # <<>> /\ queue' = queueUpdateNotification(queue, h) /\ wire' = Tail(wire)
      /\ UNCHANGED <<server, url, me, runs, store, seen, lost, loaded>>
  BY DEF Message, page, watched
<1>2. /\ wire \in Seq(Messages) /\ queue \in Seq(Messages)
      /\ \A i \in DOMAIN wire : Had(wire[i].id, wire[i])
      /\ \A i \in DOMAIN queue : Had(queue[i].id, queue[i])
      /\ \A i, j \in DOMAIN queue : queue[i].id = queue[j].id => i = j
  BY DEF SyncInv, MessagesInv
<1>3. /\ h = wire[1] /\ 1 \in DOMAIN wire /\ h \in Messages /\ wire' \in Seq(Messages)
      /\ \A i \in DOMAIN wire' : i + 1 \in DOMAIN wire /\ wire'[i] = wire[i + 1]
      /\ \A i \in DOMAIN wire : i = 1 \/ (i - 1 \in DOMAIN wire' /\ wire'[i - 1] = wire[i])
      /\ \A i \in DOMAIN wire : i \in Int
      /\ \A i \in DOMAIN wire' : i \in Int /\ i >= 1
  <2>1. Len(wire) \in Nat /\ DOMAIN wire = 1 .. Len(wire) /\ Len(wire) >= 1 /\ h = wire[1] /\ h \in Messages
    BY <1>1, <1>2
  <2>2. /\ wire' \in Seq(Messages) /\ Len(wire') = Len(wire) - 1 /\ DOMAIN wire' = 1 .. (Len(wire) - 1)
        /\ \A i \in 1 .. (Len(wire) - 1) : wire'[i] = wire[i + 1]
    BY <1>1, <1>2
  <2>3. \A i \in DOMAIN wire' : i + 1 \in DOMAIN wire /\ wire'[i] = wire[i + 1]
    BY <2>1, <2>2
  <2>4. \A i \in DOMAIN wire : i = 1 \/ (i - 1 \in DOMAIN wire' /\ wire'[i - 1] = wire[i])
    BY <2>1, <2>2
  <2> HIDE DEF h
  <2> QED BY <2>1, <2>2, <2>3, <2>4
<1> HIDE DEF h
<1>4. /\ queue' \in Seq(Messages)
      /\ \A i, j \in DOMAIN queue' : queue'[i].id = queue'[j].id => i = j
      /\ \A i \in DOMAIN queue' : queue'[i] = h \/ \E j \in DOMAIN queue : queue'[i] = queue[j]
      /\ \E i \in DOMAIN queue' : queue'[i] = h
      /\ \A j \in DOMAIN queue : queue[j].id # h.id => \E i \in DOMAIN queue' : queue'[i] = queue[j]
  <2>1. PICK after : after = queue'
    OBVIOUS
  <2>2. after = queueUpdateNotification(queue, h) /\ h \in Messages /\ Distinct(queue)
    BY <1>1, <1>2, <1>3, <2>1 DEF Distinct
  <2>3. /\ after \in Seq(Messages) /\ Distinct(after)
        /\ \A i \in DOMAIN after : after[i] = h \/ \E j \in DOMAIN queue : after[i] = queue[j]
        /\ \E i \in DOMAIN after : after[i] = h
        /\ \A j \in DOMAIN queue : queue[j].id # h.id => \E i \in DOMAIN after : after[i] = queue[j]
    <3>1. queue \in Seq(Messages) /\ Distinct(queue) /\ h \in Messages /\ after = queueUpdateNotification(queue, h)
      BY <1>2, <2>2
    <3>2. after \in Seq(Messages)
      BY <3>1, QueueUpdated
    <3>3. Distinct(after)
      BY <3>1, QueueUpdated
    <3>4. \E i \in DOMAIN after : after[i] = h
      BY <3>1, QueueUpdated
    <3>5. \A j \in DOMAIN queue : queue[j].id # h.id => \E i \in DOMAIN after : after[i] = queue[j]
      BY <3>1, QueueUpdated
    <3>6. \A i \in DOMAIN after : after[i] = h \/ \E j \in DOMAIN queue : after[i] = queue[j]
      BY <3>1, QueueUpdated
    <3> QED BY <3>2, <3>3, <3>4, <3>5, <3>6
  <2> QED BY <2>1, <2>3 DEF Distinct
<1>5. \A id, x : Had(id, x)' <=> Had(id, x)
  BY <1>1, SameServer
<1>6. MessagesInv'
  <2>1. \A i \in DOMAIN wire' : Had(wire'[i].id, wire'[i])
    BY <1>2, <1>3
  <2>2. \A i \in DOMAIN queue' : Had(queue'[i].id, queue'[i])
    BY <1>2, <1>3, <1>4
  <2>3. \A i \in DOMAIN wire' : Had(wire[i].id, wire[i])'
    BY <2>1, <1>1 DEF Had, Initial
  <2>4. \A i \in DOMAIN queue' : Had(queue[i].id, queue[i])'
    BY <2>2, <1>1 DEF Had, Initial
  <2> QED BY <1>3, <1>4, <2>3, <2>4 DEF MessagesInv
<1>7. ServerInv' /\ SeenInv' /\ AnswersInv' /\ StoreInv' /\ SlicesOK'
  <2>1. ServerInv' /\ SeenInv'
    BY <1>1 DEF SyncInv, ServerInv, SeenInv, Had, Initial
  <2>2. AnswersInv'
    BY <1>1, AnswersStay DEF SyncInv
  <2>3. StoreInv'
    BY <1>1 DEF SyncInv, StoreInv, Excused, Current, Held, InSlice, store
  <2>4. SlicesOK'
    BY <1>1 DEF SyncInv, SlicesOK, SliceOK, store
  <2> QED BY <2>1, <2>2, <2>3, <2>4
<1>8. ASSUME NEW id \in Items PROVE Accounted(id)'
  <2>1. Item(id)' = Item(id) /\ (Excused(id) => Excused(id)')
    BY <1>1, SameServer
  <2>2. Item(id).id = id
    BY DEF Item
  <2>3. InWire(id)' => InWire(id)
    BY <1>3 DEF InWire
  <2>4. CASE Excused(id)
    BY <2>1, <2>4 DEF Accounted
  <2>5. CASE \E i \in DOMAIN wire : wire[i] = Item(id) /\ \A j \in DOMAIN wire : wire[j].id = id => j <= i
    <3>1. PICK i \in DOMAIN wire : wire[i] = Item(id) /\ \A j \in DOMAIN wire : wire[j].id = id => j <= i
      BY <2>5
    <3>2. CASE i = 1
      <4>1. ~InWire(id)'
        <5>1. ASSUME NEW j \in DOMAIN wire' PROVE wire'[j].id # id
          <6>1. j + 1 \in DOMAIN wire /\ wire'[j] = wire[j + 1] /\ j \in Int /\ j >= 1
            BY <1>3
          <6>2. ~(j + 1 <= i)
            BY <6>1, <3>2
          <6> QED BY <6>1, <6>2, <3>1
        <5> QED BY <5>1 DEF InWire
      <4> QED BY <1>3, <1>4, <2>1, <3>1, <3>2, <4>1 DEF Accounted
    <3>3. CASE i # 1
      <4>1. i - 1 \in DOMAIN wire' /\ wire'[i - 1] = Item(id)
        BY <1>3, <3>1, <3>3
      <4>2. ASSUME NEW j \in DOMAIN wire', wire'[j].id = id PROVE j <= i - 1
        <5>1. j + 1 \in DOMAIN wire /\ wire'[j] = wire[j + 1] /\ j \in Int /\ i \in Int
          BY <1>3
        <5>2. j + 1 <= i
          BY <5>1, <3>1, <4>2
        <5> QED BY <5>1, <5>2
      <4> QED BY <2>1, <4>1, <4>2 DEF Accounted
    <3> QED BY <3>2, <3>3
  <2>6. CASE ~InWire(id) /\ \E i \in DOMAIN queue : queue[i] = Item(id)
    <3>1. id # h.id
      BY <1>3, <2>6 DEF InWire
    <3>2. \E i \in DOMAIN queue' : queue'[i] = Item(id)
      BY <1>4, <2>2, <2>6, <3>1
    <3> QED BY <2>1, <2>3, <2>6, <3>2 DEF Accounted
  <2>7. CASE ~InWire(id) /\ ~InQueue(id) /\ (seen[id] = server[id].v \/ server[id].v = Initial(id))
    <3>1. id # h.id
      BY <1>3, <2>7 DEF InWire
    <3>2. ~InQueue(id)'
      BY <1>4, <2>7, <3>1 DEF InQueue
    <3> QED BY <1>1, <2>3, <2>7, <3>2 DEF Accounted, Initial
  <2> QED BY <2>4, <2>5, <2>6, <2>7 DEF SyncInv, Accounted
<1> QED BY <1>6, <1>7, <1>8 DEF SyncInv, SlicesOK

-----------------------------------------------------------------------------
(* The queue is flushed.                                                   *)

\* What the batch of a type has of the queue.
LEMMA BatchFacts ==
    ASSUME ServerInv, MessagesInv, NEW type
    PROVE  /\ Batch(type) \in Seq(Messages)
           /\ \A i, j \in DOMAIN Batch(type) : Batch(type)[i].id = Batch(type)[j].id => i = j
           /\ \A i \in DOMAIN Batch(type) : ItemOK(Batch(type)[i], type)
           /\ \A i \in DOMAIN Batch(type) : \E j \in DOMAIN queue : Batch(type)[i] = queue[j]
           /\ \A j \in DOMAIN queue : queue[j].id \in Blocks /\ Type[queue[j].id] = type =>
                \E i \in DOMAIN Batch(type) : Batch(type)[i] = queue[j]
<1> DEFINE S == {m \in ToSet(queue) : m.id \in Blocks /\ (Type[m.id] = type \/ ~m.alive)}
           q == Filtered(queue, S)
<1>1. /\ queue \in Seq(Messages) /\ \A i \in DOMAIN queue : queue[i] \in Messages
      /\ \A i, j \in DOMAIN queue : queue[i].id = queue[j].id => i = j
  BY SeqHas DEF MessagesInv
<1>2. \A i \in DOMAIN queue : queue[i].id \in Blocks /\ Type[queue[i].id] = type => queue[i] \in S
  BY DEF ToSet
<1>3. \A m \in S : m.id \in Blocks /\ (m.alive => Type[m.id] = type)
  OBVIOUS
<1> HIDE DEF S
<1>4. /\ q \in Seq(Messages)
      /\ \A j \in DOMAIN q : q[j] \in S /\ \E i \in DOMAIN queue : q[j] = queue[i]
      /\ \A i \in DOMAIN queue : queue[i] \in S => \E j \in DOMAIN q : q[j] = queue[i]
      /\ \A i, j \in DOMAIN q : q[i].id = q[j].id => i = j
  BY <1>1, FilteredFacts
<1>5. Batch(type) = q
  BY DEF Batch, S
<1> HIDE DEF q
<1>6. ASSUME NEW j \in DOMAIN q PROVE ItemOK(q[j], type)
  <2>1. PICK i \in DOMAIN queue : q[j] = queue[i]
    BY <1>4
  <2>2. q[j] \in Messages /\ Had(q[j].id, q[j]) /\ q[j].id \in Blocks /\ (q[j].alive => Type[q[j].id] = type)
    BY <1>1, <1>3, <1>4, <2>1 DEF MessagesInv
  <2>3. q[j].v \in Nat /\ server[q[j].id].v \in Nat
    BY <2>2 DEF Messages, ServerInv
  <2> QED BY <2>2, <2>3 DEF ItemOK, Had
<1> QED BY <1>2, <1>4, <1>5, <1>6

\* What a batch has of a block is what the queue has.
LEMMA BatchHas ==
    ASSUME ServerInv, MessagesInv, NEW id \in Blocks
    PROVE  /\ \A i \in DOMAIN queue : queue[i].id = id =>
                \E j \in DOMAIN Batch(Type[id]) : Batch(Type[id])[j] = queue[i]
           /\ ~InQueue(id) => \A j \in DOMAIN Batch(Type[id]) : Batch(Type[id])[j].id # id
BY BatchFacts DEF InQueue

\* What flushing gives a block, in the slice of its type.
LEMMA FlushHolds ==
    ASSUME SyncInv, Flush, NEW id \in Blocks
    PROVE  /\ \A i \in DOMAIN queue : queue[i].id = id =>
                \/ Held(id)' = IF queue[i].alive THEN queue[i].v ELSE 0
                \/ <<id, queue[i].v>> \in lost'
           /\ ~InQueue(id) => Held(id)' = Held(id)
<1> DEFINE c == updateComments(comments, Batch("comment"))
           a == updateAttachments(attachments, Batch("attachment"))
           q == Batch(Type[id])
<1>1. ServerInv /\ MessagesInv /\ SlicesOK
  BY DEF SyncInv, SlicesOK
<1>2. /\ cards' = updateCards(cards, Batch("card")) /\ views' = updateViews(views, Batch("view"))
      /\ comments' = c.slice /\ attachments' = a.slice
      /\ {x \in c.left : Type[x[1]] = "comment"} \subseteq lost'
      /\ {x \in a.left : Type[x[1]] = "attachment"} \subseteq lost'
  BY DEF Flush
<1>3. /\ \A i \in DOMAIN queue : queue[i].id = id => \E j \in DOMAIN q : q[j] = queue[i]
      /\ ~InQueue(id) => \A j \in DOMAIN q : q[j].id # id
  BY <1>1, BatchHas
<1>4. /\ q \in Seq(Messages) /\ \A i, j \in DOMAIN q : q[i].id = q[j].id => i = j
      /\ \A i \in DOMAIN q : ItemOK(q[i], Type[id])
  BY <1>1, BatchFacts
<1> HIDE DEF c, a
<1>5. CASE Type[id] = "card"
  <2>1. q = Batch("card") /\ cards' = updateBoards(cards, q)
    BY <1>2, <1>5, ReducersAlike
  <2> HIDE DEF q
  <2>2. /\ \A j \in DOMAIN q : InSlice(cards', q[j].id) = IF q[j].alive THEN q[j].v ELSE 0
        /\ (\A j \in DOMAIN q : q[j].id # id) => InSlice(cards', id) = InSlice(cards, id)
    BY <1>4, <2>1, PutAll
  <2>3. Held(id) = InSlice(cards, id) /\ Held(id)' = InSlice(cards', id)
    BY <1>5 DEF Held, InSlice
  <2> QED BY <1>3, <2>2, <2>3
<1>6. CASE Type[id] = "view"
  <2>1. q = Batch("view") /\ views' = updateBoards(views, q)
    BY <1>2, <1>6, ReducersAlike
  <2> HIDE DEF q
  <2>2. /\ \A j \in DOMAIN q : InSlice(views', q[j].id) = IF q[j].alive THEN q[j].v ELSE 0
        /\ (\A j \in DOMAIN q : q[j].id # id) => InSlice(views', id) = InSlice(views, id)
    BY <1>4, <2>1, PutAll
  <2>3. Held(id) = InSlice(views, id) /\ Held(id)' = InSlice(views', id)
    BY <1>6 DEF Held, InSlice
  <2> QED BY <1>3, <2>2, <2>3
<1>7. CASE Type[id] = "comment"
  <2>1. q = Batch("comment") /\ c = updateComments(comments, q)
    BY <1>7 DEF c
  <2>2. SliceOK(comments, "comment") /\ \A i \in DOMAIN q : ItemOK(q[i], "comment")
    BY <1>1, <1>4, <1>7 DEF SlicesOK
  <2> HIDE DEF q
  <2>3. /\ \A j \in DOMAIN q : \/ InSlice(c.slice.byId, q[j].id) = IF q[j].alive THEN q[j].v ELSE 0
                               \/ <<q[j].id, q[j].v>> \in c.left
        /\ (\A j \in DOMAIN q : q[j].id # id) => InSlice(c.slice.byId, id) = InSlice(comments.byId, id)
    BY <1>4, <2>1, <2>2, CommentsOK
  <2>4. Held(id) = InSlice(comments.byId, id) /\ Held(id)' = InSlice(c.slice.byId, id)
    BY <1>2, <1>7 DEF Held, InSlice
  <2>5. \A v : <<id, v>> \in c.left => <<id, v>> \in lost'
    BY <1>2, <1>7
  <2> QED BY <1>3, <2>3, <2>4, <2>5
<1>8. CASE Type[id] = "attachment"
  <2>1. q = Batch("attachment") /\ a = updateAttachments(attachments, q)
    BY <1>8 DEF a
  <2>2. SliceOK(attachments, "attachment") /\ \A i \in DOMAIN q : ItemOK(q[i], "attachment")
    BY <1>1, <1>4, <1>8 DEF SlicesOK
  <2> HIDE DEF q
  <2>3. /\ \A j \in DOMAIN q : \/ InSlice(a.slice.byId, q[j].id) = IF q[j].alive THEN q[j].v ELSE 0
                               \/ <<q[j].id, q[j].v>> \in a.left
        /\ (\A j \in DOMAIN q : q[j].id # id) => InSlice(a.slice.byId, id) = InSlice(attachments.byId, id)
    BY <1>4, <2>1, <2>2, AttachmentsOK
  <2>4. Held(id) = InSlice(attachments.byId, id) /\ Held(id)' = InSlice(a.slice.byId, id)
    BY <1>2, <1>8 DEF Held, InSlice
  <2>5. \A v : <<id, v>> \in a.left => <<id, v>> \in lost'
    BY <1>2, <1>8
  <2> QED BY <1>3, <2>3, <2>4, <2>5
<1> QED BY <1>5, <1>6, <1>7, <1>8, SyncAssumption

\* And a board.
LEMMA FlushHoldsBoards ==
    ASSUME SyncInv, Flush, NEW b \in Boards
    PROVE  /\ \A i \in DOMAIN queue : queue[i].id = b =>
                InSlice(boards', b) = IF queue[i].alive THEN queue[i].v ELSE 0
           /\ ~InQueue(b) => InSlice(boards', b) = InSlice(boards, b)
<1> DEFINE S == {m \in ToSet(queue) : m.id \in Boards}
           q == Filtered(queue, S)
<1>1. queue \in Seq(Messages) /\ \A i, j \in DOMAIN queue : queue[i].id = queue[j].id => i = j
  BY DEF SyncInv, MessagesInv
<1>2. \A i \in DOMAIN queue : queue[i].id = b => queue[i] \in S
  BY DEF ToSet
<1>3. boards' = updateBoards(boards, q)
  BY DEF Flush
<1> HIDE DEF S
<1>4. /\ q \in Seq(Messages)
      /\ \A j \in DOMAIN q : q[j] \in S /\ \E i \in DOMAIN queue : q[j] = queue[i]
      /\ \A i \in DOMAIN queue : queue[i] \in S => \E j \in DOMAIN q : q[j] = queue[i]
      /\ \A i, j \in DOMAIN q : q[i].id = q[j].id => i = j
  BY <1>1, FilteredFacts
<1> HIDE DEF q
<1>5. /\ \A j \in DOMAIN q : InSlice(boards', q[j].id) = IF q[j].alive THEN q[j].v ELSE 0
      /\ (\A j \in DOMAIN q : q[j].id # b) => InSlice(boards', b) = InSlice(boards, b)
  BY <1>3, <1>4, PutAll
<1> QED BY <1>2, <1>4, <1>5 DEF InQueue

\* The queue is given to the store.
LEMMA FlushKeepsSync ==
    ASSUME SyncInv, Flush
    PROVE  SyncInv'
<1> DEFINE c == updateComments(comments, Batch("comment"))
           a == updateAttachments(attachments, Batch("attachment"))
<1>1. /\ queue' = <<>> /\ lost \subseteq lost'
      /\ seen' = [id \in Items |->
                    IF \E i \in DOMAIN queue : queue[i].id = id
                    THEN (CHOOSE m \in ToSet(queue) : m.id = id).v ELSE seen[id]]
      /\ comments' = c.slice /\ attachments' = a.slice
      /\ UNCHANGED <<server, wire, url, me, runs, loaded>>
  BY DEF Flush, page, Flushed
<1>2. ServerInv /\ MessagesInv /\ AnswersInv /\ SeenInv /\ StoreInv /\ SlicesOK
  BY DEF SyncInv, SlicesOK
<1> HIDE DEF c, a
<1>3. /\ \A i \in DOMAIN queue : queue[i] \in Messages /\ Had(queue[i].id, queue[i])
      /\ \A i, j \in DOMAIN queue : queue[i].id = queue[j].id => i = j
  BY <1>2, SeqHas DEF MessagesInv
<1>4. \A i \in DOMAIN queue : queue[i].id \in Items /\ queue[i].v \in Nat /\ seen'[queue[i].id] = queue[i].v
  <2>1. ASSUME NEW i \in DOMAIN queue PROVE seen'[queue[i].id] = queue[i].v
    <3>1. queue[i].id \in Items /\ queue[i] \in ToSet(queue)
      BY <1>3 DEF Messages, ToSet
    <3>2. PICK m : m = CHOOSE o \in ToSet(queue) : o.id = queue[i].id
      OBVIOUS
    <3>3. m \in ToSet(queue) /\ m.id = queue[i].id
      BY <3>1, <3>2
    <3>4. m = queue[i]
      BY <1>3, <3>3 DEF ToSet
    <3> QED BY <1>1, <3>1, <3>2, <3>4
  <2> QED BY <1>3, <2>1 DEF Messages
<1>5. \A id \in Items : ~InQueue(id) => seen'[id] = seen[id]
  BY <1>1 DEF InQueue
<1>6. \A id \in Items : InQueue(id) => \E i \in DOMAIN queue : queue[i].id = id /\ seen'[id] = queue[i].v
  BY <1>4 DEF InQueue
<1>7. ServerInv' /\ MessagesInv' /\ AnswersInv'
  <2>1. queue' \in Seq(Messages) /\ DOMAIN queue' = {}
    BY <1>1
  <2>2. ServerInv'
    BY <1>1, <1>2 DEF ServerInv, Had, Initial
  <2>3. MessagesInv'
    BY <1>1, <1>2, <2>1 DEF MessagesInv, Had, Initial
  <2>4. AnswersInv'
    BY <1>1, <1>2, AnswersStay
  <2> QED BY <2>2, <2>3, <2>4
<1>8. \A id \in Items : /\ seen'[id] \in Nat /\ seen'[id] <= server[id].v
                        /\ Initial(id) <= seen[id] => Initial(id) <= seen'[id]
  <2>1. ASSUME NEW id \in Items
        PROVE  /\ seen'[id] \in Nat /\ seen'[id] <= server[id].v
               /\ Initial(id) <= seen[id] => Initial(id) <= seen'[id]
    <3>1. CASE InQueue(id)
      <4>1. PICK i \in DOMAIN queue : queue[i].id = id /\ seen'[id] = queue[i].v
        BY <1>6, <3>1
      <4> QED BY <1>3, <1>4, <4>1 DEF Had
    <3>2. CASE ~InQueue(id)
      BY <1>2, <1>5, <3>2 DEF SeenInv
    <3> QED BY <3>1, <3>2
  <2> QED BY <2>1
<1>9. SeenInv'
  <2>1. seen' \in [Items -> Nat]
    <3>1. seen' = [id \in Items |-> seen'[id]]
      BY <1>1
    <3> QED BY <1>8, <3>1
  <2>2. /\ me' => \A b \in Boards : Initial(b) <= seen'[b]
        /\ \A id \in Blocks : Home[id] = loaded' => Initial(id) <= seen'[id]
    BY <1>1, <1>2, <1>8 DEF SeenInv, Items
  <2> QED BY <1>1, <1>2, <1>8, <2>1, <2>2 DEF SeenInv, Initial
<1>10. ASSUME NEW id \in Items PROVE Accounted(id)'
  <2>1. Item(id)' = Item(id) /\ (Excused(id) => Excused(id)') /\ (InWire(id)' <=> InWire(id)) /\ ~InQueue(id)'
    BY <1>1, SameServer DEF InWire, InQueue
  <2>2. CASE ~InWire(id) /\ \E i \in DOMAIN queue : queue[i] = Item(id)
    <3>1. PICK i \in DOMAIN queue : queue[i] = Item(id)
      BY <2>2
    <3>2. queue[i].id = id /\ queue[i].v = server[id].v
      BY <3>1 DEF Item
    <3>3. seen'[id] = server'[id].v
      BY <1>1, <1>4, <3>2
    <3> QED BY <2>1, <2>2, <3>3 DEF Accounted
  <2>3. CASE ~InWire(id) /\ ~InQueue(id) /\ (seen[id] = server[id].v \/ server[id].v = Initial(id))
    BY <1>1, <1>5, <2>1, <2>3 DEF Accounted, Initial
  <2>4. CASE Excused(id) \/ \E i \in DOMAIN wire : wire[i] = Item(id) /\ \A j \in DOMAIN wire : wire[j].id = id => j <= i
    BY <1>1, <2>1, <2>4 DEF Accounted
  <2> QED BY <2>2, <2>3, <2>4 DEF SyncInv, Accounted
<1>11. StoreInv'
  <2>0. \A id : Current(id)' = Current(id) /\ (Excused(id) => Excused(id)')
    BY <1>1, SameServer
  <2>1. ASSUME NEW i \in DOMAIN queue, seen'[queue[i].id] = server[queue[i].id].v
        PROVE  (IF queue[i].alive THEN queue[i].v ELSE 0) = Current(queue[i].id)
    BY <1>3, <1>4, <2>1 DEF Had, Current
  <2>2. ASSUME NEW b \in Boards, seen'[b] = server'[b].v
        PROVE  InSlice(boards', b) = Current(b)' \/ Excused(b)'
    <3>1. b \in Items /\ seen'[b] = server[b].v
      BY <1>1, <2>2 DEF Items
    <3>2. CASE InQueue(b)
      BY <1>6, <2>0, <2>1, <3>1, <3>2, FlushHoldsBoards
    <3>3. CASE ~InQueue(b)
      BY <1>2, <1>5, <2>0, <3>1, <3>3, FlushHoldsBoards DEF StoreInv
    <3> QED BY <3>2, <3>3
  <2>3. ASSUME NEW id \in Blocks, Home[id] = loaded', seen'[id] = server'[id].v
        PROVE  Held(id)' = Current(id)' \/ Excused(id)'
    <3>1. id \in Items /\ seen'[id] = server[id].v /\ Home[id] = loaded
      BY <1>1, <2>3 DEF Items
    <3>2. CASE InQueue(id)
      <4>1. PICK i \in DOMAIN queue : queue[i].id = id /\ seen'[id] = queue[i].v
        BY <1>6, <3>1, <3>2
      <4>2. CASE Held(id)' = IF queue[i].alive THEN queue[i].v ELSE 0
        BY <2>0, <2>1, <3>1, <4>1, <4>2
      <4>3. CASE <<id, queue[i].v>> \in lost'
        BY <1>1, <3>1, <4>1, <4>3 DEF Excused
      <4> QED BY <4>1, <4>2, <4>3, FlushHolds
    <3>3. CASE ~InQueue(id)
      BY <1>2, <1>5, <2>0, <3>1, <3>3, FlushHolds DEF StoreInv
    <3> QED BY <3>2, <3>3
  <2>4. \A b \in Boards : InSlice(boards, b)' = InSlice(boards', b)
    BY DEF InSlice
  <2> QED BY <2>2, <2>3, <2>4 DEF StoreInv
<1>12. SlicesOK'
  <2>1. SliceOK(c.slice, "comment")
    BY <1>2, BatchFacts, CommentsOK DEF c, SlicesOK
  <2>2. SliceOK(a.slice, "attachment")
    BY <1>2, BatchFacts, AttachmentsOK DEF a, SlicesOK
  <2> QED BY <1>1, <2>1, <2>2 DEF SlicesOK, SliceOK
<1> QED BY <1>7, <1>9, <1>10, <1>11, <1>12 DEF SyncInv, SlicesOK

-----------------------------------------------------------------------------
(* An answer comes.                                                        *)

\* What every answer with things in it does to what the store was given.
LEMMA AnswerGives ==
    ASSUME SyncInv, NEW ids \in SUBSET Items, NEW answer, IsAnswer(answer, ids), Given(answer),
           UNCHANGED <<server, wire, queue>>
    PROVE  /\ lost \subseteq lost' /\ seen' \in [Items -> Nat]
           /\ \A id \in Items : seen'[id] <= server[id].v /\ (Initial(id) <= seen[id] => Initial(id) <= seen'[id])
           /\ \A id \in ids : seen'[id] = answer[id].v /\ Initial(id) <= seen'[id]
           /\ \A id \in Items \ ids : seen'[id] = seen[id]
           /\ \A id \in Items : Accounted(id)'
           /\ \A id \in ids : seen'[id] = server[id].v =>
                (IF answer[id].alive THEN answer[id].v ELSE 0) = Current(id)
<1>1. /\ DOMAIN answer = ids /\ \A id \in ids : answer[id].v \in Nat /\ Had(id, answer[id])
  BY DEF IsAnswer
<1>2. /\ seen' = [id \in Items |-> IF id \in DOMAIN answer THEN answer[id].v ELSE seen[id]]
      /\ lost' = lost \cup {<<id, seen[id]>> : id \in {id \in DOMAIN answer : seen[id] > answer[id].v}}
  BY DEF Given, Overwritten
<1>3. seen \in [Items -> Nat] /\ \A id \in Items : seen[id] <= server[id].v
  BY DEF SyncInv, SeenInv
<1>4. /\ \A id \in ids : seen'[id] = answer[id].v
      /\ \A id \in Items \ ids : seen'[id] = seen[id]
  BY <1>1, <1>2
<1>5. \A id \in ids : seen'[id] \in Nat /\ seen'[id] <= server[id].v /\ Initial(id) <= seen'[id]
  BY <1>1, <1>4 DEF Had
<1>6. seen' \in [Items -> Nat]
  <2>1. \A id \in Items : seen'[id] \in Nat
    BY <1>3, <1>4, <1>5
  <2> QED BY <1>2, <2>1
<1>7. \A id \in Items : seen'[id] <= server[id].v /\ (Initial(id) <= seen[id] => Initial(id) <= seen'[id])
  BY <1>3, <1>4, <1>5
<1>8. lost \subseteq lost'
  BY <1>2
<1>9. ASSUME NEW id \in Items PROVE Accounted(id)'
  <2>1. /\ Item(id)' = Item(id) /\ (Excused(id) => Excused(id)')
        /\ (InWire(id)' <=> InWire(id)) /\ (InQueue(id)' <=> InQueue(id))
    BY <1>8, SameServer DEF InWire, InQueue
  <2>2. CASE ~InWire(id) /\ ~InQueue(id) /\ seen[id] = server[id].v
    <3>1. CASE id \notin ids
      BY <1>4, <2>1, <2>2, <3>1 DEF Accounted
    <3>2. CASE id \in ids /\ seen[id] > answer[id].v
      BY <1>1, <1>2, <2>1, <2>2, <3>2 DEF Accounted, Excused
    <3>3. CASE id \in ids /\ ~(seen[id] > answer[id].v)
      <4>1. answer[id].v <= server[id].v /\ answer[id].v \in Nat /\ seen[id] \in Nat
        BY <1>1, <1>3, <3>3 DEF Had
      <4>2. seen'[id] = server'[id].v
        BY <1>4, <2>2, <3>3, <4>1
      <4> QED BY <2>1, <2>2, <4>2 DEF Accounted
    <3> QED BY <3>1, <3>2, <3>3
  <2>3. CASE ~InWire(id) /\ ~InQueue(id) /\ server[id].v = Initial(id)
    BY <2>1, <2>3 DEF Accounted, Initial
  <2>4. CASE ~(~InWire(id) /\ ~InQueue(id))
    BY <2>1, <2>4 DEF SyncInv, Accounted
  <2>5. CASE Excused(id)
    BY <2>1, <2>5 DEF Accounted
  <2>6. (~InWire(id) => ~\E i \in DOMAIN wire : wire[i] = Item(id)) /\ (~InQueue(id) => ~\E i \in DOMAIN queue : queue[i] = Item(id))
    <3>1. Item(id).id = id
      BY DEF Item
    <3> QED BY <3>1 DEF InWire, InQueue
  <2> QED BY <2>2, <2>3, <2>4, <2>5, <2>6 DEF SyncInv, Accounted
<1>10. \A id \in ids : seen'[id] = server[id].v =>
          (IF answer[id].alive THEN answer[id].v ELSE 0) = Current(id)
  BY <1>1, <1>4 DEF Had, Current
<1> QED BY <1>4, <1>5, <1>6, <1>7, <1>8, <1>9, <1>10

\* The boards come, first or after a reconnect.
LEMMA InitialLoadedKeepsSync ==
    ASSUME SyncInv, RunsInv, NEW r \in runs, r.step \in {"boards", "reconnect"},
           NEW answer, IsAnswer(answer, Boards), InitialLoaded(r, answer),
           UNCHANGED <<server, wire, queue>>
    PROVE  SyncInv'
<1>1. /\ boards' = [b \in {b \in Boards : answer[b].alive} |-> answer[b].v]
      /\ Given(answer) /\ me' = TRUE
      /\ UNCHANGED <<url, cards, views, comments, attachments, loaded>>
  BY DEF InitialLoaded
<1>2. /\ lost \subseteq lost' /\ seen' \in [Items -> Nat]
      /\ \A id \in Items : seen'[id] <= server[id].v /\ (Initial(id) <= seen[id] => Initial(id) <= seen'[id])
      /\ \A id \in Boards : seen'[id] = answer[id].v /\ Initial(id) <= seen'[id]
      /\ \A id \in Items \ Boards : seen'[id] = seen[id]
      /\ \A id \in Items : Accounted(id)'
      /\ \A id \in Boards : seen'[id] = server[id].v =>
           (IF answer[id].alive THEN answer[id].v ELSE 0) = Current(id)
  BY <1>1, AnswerGives DEF Items
<1>3. ServerInv' /\ MessagesInv'
  BY DEF SyncInv, ServerInv, MessagesInv, Had, Initial
<1>4. AnswersInv'
  <2>1. CASE ~me /\ ~(r.step = "boards" /\ r.me)
    <3> DEFINE effect == Run(0, url, TRUE, "boards")
    <3>1. runs' = (runs \ {r}) \cup {effect}
      BY <2>1 DEF InitialLoaded, End, EffectOfMe
    <3>2. effect.board = url /\ effect.snapshot = NoSnapshot
      BY DEF Run
    <3> HIDE DEF effect
    <3>3. \A x \in runs' : x.board \in Boards /\ (x.snapshot # NoSnapshot => IsAnswer(x.snapshot[1], Asked(x))')
      BY <3>1, <3>2, IsAnswerStays DEF SyncInv, AnswersInv, Asked
    <3> QED BY <1>1, <3>3 DEF SyncInv, AnswersInv
  <2>2. CASE me \/ (r.step = "boards" /\ r.me)
    <3>1. runs' \in {Follow(r, "board"), End(r)}
      BY <2>2 DEF InitialLoaded, RunsInv
    <3> QED BY <1>1, <3>1, RunGoesOn DEF SyncInv
  <2> QED BY <2>1, <2>2
<1>5. SeenInv'
  <2>1. \A id \in Blocks : Home[id] = loaded => Initial(id) <= seen'[id]
    BY <1>2 DEF SyncInv, SeenInv, Items
  <2> QED BY <1>1, <1>2, <2>1 DEF SyncInv, SeenInv, Initial
<1>6. StoreInv'
  <2>1. \A id : Current(id)' = Current(id) /\ (Excused(id) => Excused(id)')
    BY <1>2, SameServer
  <2>2. \A b \in Boards : InSlice(boards', b) = IF answer[b].alive THEN answer[b].v ELSE 0
    BY <1>1 DEF InSlice
  <2>3. \A b \in Boards : seen'[b] = server'[b].v => InSlice(boards', b) = Current(b)'
    BY <1>2, <2>1, <2>2
  <2>4. \A id \in Blocks : id \in Items \ Boards
    BY SyncAssumption DEF Items
  <2>5. \A id \in Blocks : Held(id)' = Held(id)
    BY <1>1, HeldStays
  <2>6. \A b \in Boards : InSlice(boards, b)' = InSlice(boards', b)
    BY DEF InSlice
  <2> QED BY <1>1, <1>2, <2>1, <2>3, <2>4, <2>5, <2>6 DEF SyncInv, StoreInv
<1>7. SlicesOK'
  BY <1>1 DEF SyncInv, SlicesOK, SliceOK
<1> QED BY <1>2, <1>3, <1>4, <1>5, <1>6, <1>7 DEF SyncInv, SlicesOK

\* The board comes.
LEMMA BoardLoadedKeepsSync ==
    ASSUME SyncInv, RunsInv, NEW r \in runs, r.step = "board",
           NEW answer, IsAnswer(answer, {r.board}), BoardLoaded(r, answer),
           UNCHANGED <<server, wire, queue>>
    PROVE  SyncInv'
<1> DEFINE b0 == r.board
           item == [id |-> b0, v |-> answer[b0].v, alive |-> TRUE]
<1>1. /\ boards' = updateBoards(boards, <<item>>)
      /\ Given(answer) /\ runs' = Follow(r, "blocks")
      /\ UNCHANGED <<url, me, cards, views, comments, attachments, loaded>>
  BY DEF BoardLoaded, page
<1>2. b0 \in Boards /\ answer[b0].v \in Nat /\ answer[b0].alive \in BOOLEAN
  BY DEF SyncInv, AnswersInv, IsAnswer
<1>3. /\ lost \subseteq lost' /\ seen' \in [Items -> Nat]
      /\ \A id \in Items : seen'[id] <= server[id].v /\ (Initial(id) <= seen[id] => Initial(id) <= seen'[id])
      /\ seen'[b0] = answer[b0].v
      /\ \A id \in Items \ {b0} : seen'[id] = seen[id]
      /\ \A id \in Items : Accounted(id)'
      /\ seen'[b0] = server[b0].v => (IF answer[b0].alive THEN answer[b0].v ELSE 0) = Current(b0)
  <2>1. {b0} \in SUBSET Items
    BY <1>2 DEF Items
  <2> QED BY <1>1, <2>1, AnswerGives
<1>4. ServerInv' /\ MessagesInv'
  BY DEF SyncInv, ServerInv, MessagesInv, Had, Initial
<1>5. AnswersInv'
  BY <1>1, RunGoesOn DEF SyncInv
<1>6. SeenInv'
  <2>1. \A id \in Boards \cup Blocks : id \in Items
    BY DEF Items
  <2> QED BY <1>1, <1>3, <2>1 DEF SyncInv, SeenInv, Initial
<1>7. StoreInv'
  <2>1. \A id : Current(id)' = Current(id) /\ (Excused(id) => Excused(id)')
    BY <1>3, SameServer
  <2>2. /\ InSlice(boards', b0) = answer[b0].v
        /\ \A b \in Boards : b # b0 => InSlice(boards', b) = InSlice(boards, b)
    <3>1. item \in Messages /\ item.id = b0 /\ item.alive /\ item.v = answer[b0].v
      BY <1>2 DEF Messages, Items
    <3> HIDE DEF item
    <3> DEFINE items == <<item>>
    <3>2. /\ items \in Seq(Messages) /\ DOMAIN items = {1} /\ items[1] = item
          /\ \A i, j \in DOMAIN items : items[i].id = items[j].id => i = j
      BY <3>1
    <3> HIDE DEF items
    <3>3. /\ \A i \in DOMAIN items :
               InSlice(updateBoards(boards, items), items[i].id) = IF items[i].alive THEN items[i].v ELSE 0
          /\ \A id : (\A i \in DOMAIN items : items[i].id # id) =>
               InSlice(updateBoards(boards, items), id) = InSlice(boards, id)
      BY <3>2, PutAll
    <3>4. boards' = updateBoards(boards, items)
      BY <1>1 DEF items
    <3> QED BY <3>1, <3>2, <3>3, <3>4
  <2>3. seen'[b0] = server'[b0].v => InSlice(boards', b0) = Current(b0)'
    <3>1. SUFFICES ASSUME seen'[b0] = server[b0].v PROVE answer[b0].v = Current(b0)
      BY <2>1, <2>2
    <3>2. server[b0].alive \/ server[b0].v = 0
      BY <1>2 DEF SyncInv, ServerInv
    <3> QED BY <1>3, <3>1, <3>2 DEF Current
  <2>4. \A b \in Boards : b # b0 => b \in Items \ {b0}
    BY DEF Items
  <2>5. \A id \in Blocks : id \in Items \ {b0}
    BY <1>2, SyncAssumption DEF Items
  <2>6. \A id \in Blocks : Held(id)' = Held(id)
    BY <1>1, HeldStays
  <2>7. \A b \in Boards : InSlice(boards, b)' = InSlice(boards', b)
    BY DEF InSlice
  <2>8. \A b \in Boards : seen'[b] = server'[b].v => InSlice(boards', b) = Current(b)' \/ Excused(b)'
    BY <1>3, <2>1, <2>2, <2>3, <2>4 DEF SyncInv, StoreInv
  <2>9. \A id \in Blocks : Home[id] = loaded' /\ seen'[id] = server'[id].v =>
           Held(id)' = Current(id)' \/ Excused(id)'
    BY <1>1, <1>3, <2>1, <2>5, <2>6 DEF SyncInv, StoreInv
  <2> QED BY <2>7, <2>8, <2>9 DEF StoreInv
<1>8. SlicesOK'
  BY <1>1 DEF SyncInv, SlicesOK, SliceOK
<1> QED BY <1>3, <1>4, <1>5, <1>6, <1>7, <1>8 DEF SyncInv, SlicesOK

\* The blocks of the board come.
LEMMA BlocksLoadedKeepsSync ==
    ASSUME SyncInv, RunsInv, NEW r \in runs, r.step \in {"blocks", "again"},
           NEW answer, IsAnswer(answer, {id \in Blocks : Home[id] = r.board}), BlocksLoaded(r, answer),
           UNCHANGED <<server, wire, queue>>
    PROVE  SyncInv'
<1> DEFINE ids == {id \in Blocks : Home[id] = r.board}
<1>1. /\ cards' = LoadedById(answer, "card") /\ views' = LoadedById(answer, "view")
      /\ comments' = LoadedByCard(answer, "comment")
      /\ attachments' = LoadedByCard(answer, "attachment")
      /\ Given(answer) /\ runs' \in {Follow(r, "join"), End(r)}
      /\ loaded' = r.board /\ UNCHANGED <<url, me, boards>>
  BY DEF BlocksLoaded, page
<1>2. ids \in SUBSET Items /\ ids \cap Boards = {} /\ r.board \in Boards
  BY SyncAssumption DEF Items, SyncInv, AnswersInv
<1>3. /\ lost \subseteq lost' /\ seen' \in [Items -> Nat]
      /\ \A id \in Items : seen'[id] <= server[id].v /\ (Initial(id) <= seen[id] => Initial(id) <= seen'[id])
      /\ \A id \in ids : seen'[id] = answer[id].v /\ Initial(id) <= seen'[id]
      /\ \A id \in Items \ ids : seen'[id] = seen[id]
      /\ \A id \in Items : Accounted(id)'
      /\ \A id \in ids : seen'[id] = server[id].v =>
           (IF answer[id].alive THEN answer[id].v ELSE 0) = Current(id)
  BY <1>1, <1>2, AnswerGives
<1> HIDE DEF ids
<1>4. ServerInv' /\ MessagesInv'
  BY DEF SyncInv, ServerInv, MessagesInv, Had, Initial
<1>5. AnswersInv'
  BY <1>1, RunGoesOn DEF SyncInv
<1>6. SeenInv'
  <2>1. \A id \in Boards : id \in Items
    BY DEF Items
  <2>2. \A id \in Blocks : Home[id] = loaded' => Initial(id) <= seen'[id]
    BY <1>1, <1>3 DEF ids
  <2> QED BY <1>1, <1>2, <1>3, <2>1, <2>2 DEF SyncInv, SeenInv, Initial
<1>7. IsAnswer(answer, ids) /\ ServerInv
  BY DEF ids, SyncInv
<1>8. StoreInv'
  <2>1. \A id : Current(id)' = Current(id) /\ (Excused(id) => Excused(id)')
    BY <1>3, SameServer
  <2>2. \A b \in Boards : b \in Items \ ids /\ InSlice(boards, b)' = InSlice(boards, b)
    BY <1>1, <1>2 DEF Items, InSlice
  <2>3. \A b \in Boards : seen'[b] = server'[b].v => InSlice(boards, b)' = Current(b)' \/ Excused(b)'
    BY <1>3, <2>1, <2>2 DEF SyncInv, StoreInv
  <2>4. ASSUME NEW id \in ids PROVE Held(id)' = IF answer[id].alive THEN answer[id].v ELSE 0
    <3>1. id \in ids \cap Of(Type[id]) /\ Type[id] \in {"card", "view", "comment", "attachment"}
      BY SyncAssumption DEF ids, Of
    <3>2. InSlice(LoadedById(answer, Type[id]), id) = IF answer[id].alive THEN answer[id].v ELSE 0
      BY <1>2, <1>7, <3>1, LoadedHolds
    <3>3. comments'.byId = LoadedById(answer, "comment") /\ attachments'.byId = LoadedById(answer, "attachment")
      BY <1>1, <1>2, <1>7, LoadedByCardOK
    <3> QED BY <1>1, <3>1, <3>2, <3>3 DEF Held, InSlice
  <2>5. \A id \in Blocks : Home[id] = loaded' => id \in ids
    BY <1>1 DEF ids
  <2>6. \A id \in Blocks : Home[id] = loaded' /\ seen'[id] = server'[id].v =>
           Held(id)' = Current(id)' \/ Excused(id)'
    BY <1>3, <2>1, <2>4, <2>5
  <2> QED BY <2>3, <2>6 DEF StoreInv
<1>9. SlicesOK'
  <2>1. SliceOK(LoadedByCard(answer, "comment"), "comment") /\ SliceOK(LoadedByCard(answer, "attachment"), "attachment")
    BY <1>2, <1>7, LoadedByCardOK
  <2> QED BY <1>1, <2>1 DEF SlicesOK, SliceOK
<1> QED BY <1>3, <1>4, <1>5, <1>6, <1>8, <1>9 DEF SyncInv, SlicesOK

\* An answer of any step is taken.
LEMMA AnswerKeepsSync ==
    ASSUME SyncInv, RunsInv, NEW r \in runs, Answer(r)
    PROVE  SyncInv'
<1>1. r.step \in Steps /\ UNCHANGED <<server, wire, queue>>
  BY DEF RunsInv, RunShape, Answer
<1>2. IsAnswer(r.snapshot[1], Asked(r))
  BY DEF SyncInv, AnswersInv, Answer
<1>3. CASE r.step \in {"boards", "reconnect"}
  <2>1. InitialLoaded(r, r.snapshot[1]) /\ Asked(r) = Boards
    BY <1>3 DEF Answer, Asked
  <2> QED BY <1>1, <1>2, <1>3, <2>1, InitialLoadedKeepsSync
<1>4. CASE r.step = "board"
  <2>1. BoardLoaded(r, r.snapshot[1]) /\ Asked(r) = {r.board}
    BY <1>4 DEF Answer, Asked
  <2> QED BY <1>1, <1>2, <1>4, <2>1, BoardLoadedKeepsSync
<1>5. CASE r.step \in {"blocks", "again"}
  <2>1. BlocksLoaded(r, r.snapshot[1]) /\ Asked(r) = {id \in Blocks : Home[id] = r.board}
    BY <1>5 DEF Answer, Asked
  <2>2. IsAnswer(r.snapshot[1], {id \in Blocks : Home[id] = r.board})
    BY <1>2, <2>1
  <2> QED BY <1>1, <1>5, <2>1, <2>2, BlocksLoadedKeepsSync
<1>6. CASE r.step = "join"
  <2>1. Joined(r)
    BY <1>6 DEF Answer
  <2>2. runs' = Follow(r, "again") /\ UNCHANGED <<url, me, store, seen, lost, loaded>>
    BY <2>1 DEF Joined, page
  <2>3. AnswersInv'
    BY <1>1, <1>6, <2>2, RunGoesOn DEF SyncInv
  <2> QED BY <1>1, <2>2, <2>3, RunsMove
<1> QED BY <1>1, <1>3, <1>4, <1>5, <1>6 DEF Steps

-----------------------------------------------------------------------------

\* The invariant at the start.
LEMMA InitSync == Init => SyncInv
<1> SUFFICES ASSUME Init PROVE SyncInv
  OBVIOUS
<1> DEFINE first == Run(1, url, FALSE, "boards")
<1>1. /\ server = [id \in Items |-> [v |-> IF id \in Existing THEN 1 ELSE 0, alive |-> id \in Existing]]
      /\ wire = <<>> /\ queue = <<>> /\ url \in Boards /\ runs = {first}
      /\ boards = <<>> /\ cards = <<>> /\ views = <<>>
      /\ comments = [byId |-> <<>>, byCard |-> <<>>] /\ attachments = [byId |-> <<>>, byCard |-> <<>>]
      /\ seen = [id \in Items |-> 0] /\ loaded = NoBoard /\ me = FALSE
  BY SyncAssumption DEF Init, Empty
<1>2. \A id \in Items : /\ server[id] \in [v : Nat, alive : BOOLEAN] /\ server[id].v = Initial(id)
                        /\ Initial(id) \in Nat
                        /\ server[id].alive => server[id].v = 1
                        /\ ~server[id].alive => server[id].v = 0
  <2>1. ASSUME NEW id \in Items
        PROVE  /\ server[id] \in [v : Nat, alive : BOOLEAN] /\ server[id].v = Initial(id)
               /\ Initial(id) \in Nat
               /\ server[id].alive => server[id].v = 1
               /\ ~server[id].alive => server[id].v = 0
    <3>1. server[id] = [v |-> IF id \in Existing THEN 1 ELSE 0, alive |-> id \in Existing]
      BY <1>1
    <3>2. CASE id \in Existing
      <4>1. (id \in Existing) = TRUE
        BY <3>2
      <4>2. server[id] = [v |-> 1, alive |-> TRUE]
        BY <3>1, <3>2, <4>1
      <4> QED BY <3>2, <4>2 DEF Initial
    <3>3. CASE id \notin Existing
      <4>1. (id \in Existing) = FALSE
        BY <3>3
      <4>2. server[id] = [v |-> 0, alive |-> FALSE]
        BY <3>1, <3>3, <4>1
      <4> QED BY <3>3, <4>2 DEF Initial
    <3> QED BY <3>2, <3>3
  <2> QED BY <2>1
<1>3. ServerInv
  <2>1. server \in [Items -> [v : Nat, alive : BOOLEAN]]
    BY <1>1
  <2>2. \A id \in Items : Had(id, server[id])
    BY <1>2 DEF Had
  <2>3. \A b \in Boards : server[b].alive \/ server[b].v = 0
    BY <1>2 DEF Items
  <2> QED BY <2>1, <2>2, <2>3 DEF ServerInv
<1>4. MessagesInv
  <2>1. <<>> \in Seq(Messages) /\ DOMAIN <<>> = {}
    OBVIOUS
  <2> QED BY <1>1, <2>1 DEF MessagesInv
<1>5. AnswersInv
  <2>1. first.board = url /\ first.snapshot = NoSnapshot /\ first.step = "boards"
    BY DEF Run
  <2> HIDE DEF first
  <2> QED BY <1>1, <2>1 DEF AnswersInv
<1>6. \A id \in Blocks : Home[id] # loaded
  BY <1>1, SyncAssumption
<1>7. SeenInv
  BY <1>1, <1>2, <1>6 DEF SeenInv
<1>8. \A id \in Items : Accounted(id)
  BY <1>1, <1>2 DEF Accounted, InWire, InQueue
<1>9. StoreInv
  <2>1. ASSUME NEW b \in Boards, seen[b] = server[b].v PROVE InSlice(boards, b) = Current(b)
    <3>1. b \in Items /\ server[b].v = 0 /\ boards = <<>>
      BY <1>1, <2>1 DEF Items
    <3>2. InSlice(boards, b) = 0
      BY <3>1 DEF InSlice
    <3>3. Current(b) = 0
      BY <1>2, <3>1 DEF Current
    <3> QED BY <3>2, <3>3
  <2> QED BY <1>6, <2>1 DEF StoreInv
<1>10. SlicesOK
  <2>1. DOMAIN <<>> = {} /\ <<>> = [x \in {} |-> <<>>[x]]
    OBVIOUS
  <2>2. SliceOK(comments, "comment")
    BY <1>1, <2>1 DEF SliceOK
  <2>3. SliceOK(attachments, "attachment")
    BY <1>1, <2>1 DEF SliceOK
  <2> QED BY <2>2, <2>3 DEF SlicesOK
<1> QED BY <1>3, <1>4, <1>5, <1>7, <1>8, <1>9, <1>10 DEF SyncInv, SlicesOK

\* Every step keeps SyncInv.
LEMMA StepKeepsSync == SyncInv /\ RunsInv /\ [Next]_vars => SyncInv'
<1> SUFFICES ASSUME SyncInv, RunsInv, [Next]_vars
             PROVE  SyncInv'
  OBVIOUS
<1>1. ASSUME NEW id \in Items, NEW alive \in BOOLEAN, Change(id, alive) PROVE SyncInv'
  BY <1>1, ChangeKeepsSync
<1>2. CASE Subscribes \/ Opens
  <2>1. UNCHANGED <<server, wire, queue, url, me, runs, store, seen, lost, loaded>>
    BY <1>2 DEF Subscribes, Opens, page, watched
  <2> QED BY <2>1, RunsMove, AnswersStay DEF SyncInv
<1>3. CASE Closes
  BY <1>3, ClosesKeepsSync
<1>4. CASE Reopens
  <2>1. /\ runs' = runs \cup {Run(started + 1, url, me, "reconnect")}
        /\ UNCHANGED <<server, wire, queue, url, me, store, seen, lost, loaded>>
    BY <1>4 DEF Reopens, page, watched
  <2>2. url \in Boards /\ AnswersInv
    BY DEF SyncInv, AnswersInv
  <2>3. AnswersInv'
    BY <2>1, <2>2, RunBegins
  <2> QED BY <2>1, <2>3, RunsMove
<1>5. CASE Message
  BY <1>5, MessageKeepsSync
<1>6. CASE Flush
  BY <1>6, FlushKeepsSync
<1>7. ASSUME NEW b \in Boards, Navigate(b) PROVE SyncInv'
  <2>1. /\ runs' = runs \cup {Run(started + 1, b, me, "boards")} /\ url' = b
        /\ UNCHANGED <<server, wire, queue, me, store, seen, lost, loaded>>
    BY <1>7 DEF Navigate, page, watched
  <2>2. AnswersInv'
    BY <2>1, RunBegins DEF SyncInv
  <2> QED BY <2>1, <2>2, RunsMove
<1>8. ASSUME NEW r \in runs, Serve(r) PROVE SyncInv'
  BY <1>8, ServeKeepsSync
<1>9. ASSUME NEW r \in runs, Answer(r) PROVE SyncInv'
  BY <1>9, AnswerKeepsSync
<1>10. CASE UNCHANGED vars
  <2>1. UNCHANGED <<server, wire, queue, url, me, runs, store, seen, lost, loaded>>
    BY <1>10 DEF vars, page, watched
  <2> QED BY <2>1, RunsMove, AnswersStay DEF SyncInv
<1> QED BY <1>1, <1>2, <1>3, <1>4, <1>5, <1>6, <1>7, <1>8, <1>9, <1>10 DEF Next

\* Whatever is on its way, each newest version is accounted for, what the store
\* was given last it holds, and the lists go with the ids.
THEOREM SyncInvariant == Spec => []SyncInv
<1>1. PageInv => RunsInv
  BY DEF PageInv
<1> QED BY <1>1, InitPage, StepKeepsPage, InitSync, StepKeepsSync, PTL DEF Spec

(* When nothing is on its way, the boards and the blocks of the board on   *)
(* screen are those of the server, but for versions that were never sent,  *)
(* that an older answer overwrote or that a reducer left: no order of      *)
(* messages, batches, answers, reconnects and loads leaves anything else   *)
(* behind (wsclient.ts:670, 735, store/cards.ts:106, comments.ts:25).      *)
THEOREM InStepHolds == Spec => []InStep
<1>1. SyncInv => InStep
  <2> SUFFICES ASSUME SyncInv, Settled PROVE (loaded = current => \A id \in Blocks : Home[id] = current =>
                                                Held(id) = Current(id) \/ Excused(id))
                                             /\ \A b \in Boards : InSlice(boards, b) = Current(b) \/ Excused(b)
    BY DEF InStep, BlocksInStep, BoardsInStep
  <2>1. wire = <<>> /\ queue = <<>> /\ runs = {}
    BY DEF Settled
  <2>2. \A id \in Items : ~InWire(id) /\ ~InQueue(id)
    BY <2>1 DEF InWire, InQueue
  <2>3. ASSUME NEW id \in Items PROVE Excused(id) \/ seen[id] = server[id].v \/ server[id].v = Initial(id)
    BY <2>1, <2>2 DEF SyncInv, Accounted
  <2>4. \A id \in Items : seen[id] \in Nat /\ server[id].v \in Nat /\ seen[id] <= server[id].v
    BY DEF SyncInv, SeenInv, ServerInv
  <2>5. ASSUME NEW id \in Items, Initial(id) <= seen[id] PROVE Excused(id) \/ seen[id] = server[id].v
    <3>1. Initial(id) \in Nat
      BY DEF Initial
    <3> QED BY <2>3, <2>4, <2>5, <3>1
  <2>6. me
    BY <2>1 DEF SyncInv, AnswersInv
  <2>7. \A b \in Boards : InSlice(boards, b) = Current(b) \/ Excused(b)
    BY <2>5, <2>6 DEF SyncInv, SeenInv, StoreInv, Items
  <2>8. loaded = current => \A id \in Blocks : Home[id] = current => Held(id) = Current(id) \/ Excused(id)
    BY <2>5 DEF SyncInv, SeenInv, StoreInv, Items
  <2> QED BY <2>7, <2>8
<1> QED BY <1>1, SyncInvariant, PTL

(* What is listed for a card is what the store holds by id, once, whatever *)
(* batches, early returns of the reducers and loads follow each other; a   *)
(* comment is listed as it is held (store/comments.ts:25, 72).             *)
THEOREM ListsAgreeHolds == Spec => []ListsAgree
<1>1. ASSUME NEW slice, NEW type \in {"comment", "attachment"}, SliceOK(slice, type), SyncInv
      PROVE  /\ \A card \in DOMAIN slice.byCard :
                  IsInjective([i \in DOMAIN slice.byCard[card] |-> slice.byCard[card][i].id])
             /\ {id \in Of("comment") \cup Of("attachment") : InList(slice.byCard, Parent[id], id)}
                  = DOMAIN slice.byId
  <2>1. ASSUME NEW card \in DOMAIN slice.byCard
        PROVE  /\ IsInjective([i \in DOMAIN slice.byCard[card] |-> slice.byCard[card][i].id])
               /\ \A i \in DOMAIN slice.byCard[card] : slice.byCard[card][i].id \in DOMAIN slice.byId
    <3>1. ListOK(slice.byCard[card], slice.byId, card, type)
      BY <1>1 DEF SliceOK
    <3> DEFINE list == slice.byCard[card]
    <3>2. list \in Seq(Entries(slice.byId)) /\ \A i, j \in DOMAIN list : list[i].id = list[j].id => i = j
      BY <3>1 DEF ListOK
    <3>3. \A i \in DOMAIN list : list[i] \in Entries(slice.byId)
      BY <3>2, SeqHas
    <3> HIDE DEF list
    <3>4. \A i \in DOMAIN list : list[i].id \in DOMAIN slice.byId
      BY <3>3 DEF Entries
    <3>5. IsInjective([i \in DOMAIN list |-> list[i].id])
      BY <3>2 DEF IsInjective
    <3> QED BY <3>4, <3>5 DEF list
  <2>2. DOMAIN slice.byId \subseteq Of("comment") \cup Of("attachment")
    BY <1>1 DEF SliceOK
  <2>3. \A id \in DOMAIN slice.byId : InList(slice.byCard, Parent[id], id)
    BY <1>1 DEF SliceOK
  <2>4. \A card, id : InList(slice.byCard, card, id) => id \in DOMAIN slice.byId
    BY <2>1 DEF InList
  <2> QED BY <2>1, <2>2, <2>3, <2>4
<1>2. ASSUME SyncInv, NEW id \in DOMAIN comments.byId
      PROVE  ShownVersions(comments, id) = {comments.byId[id]}
  <2> DEFINE list == comments.byCard[Parent[id]]
             v0 == comments.byId[id]
  <2>1. SliceOK(comments, "comment") /\ v0 \in 1 .. server[id].v /\ InList(comments.byCard, Parent[id], id)
    BY <1>2 DEF SyncInv, SliceOK
  <2>2. Parent[id] \in DOMAIN comments.byCard /\ \E i \in DOMAIN list : list[i].id = id
    BY <2>1 DEF InList
  <2>3. ListOK(list, comments.byId, Parent[id], "comment")
    BY <2>1, <2>2 DEF SliceOK
  <2>4. \A i \in DOMAIN list : list[i].v = comments.byId[list[i].id]
    BY <2>3 DEF ListOK
  <2>5. \A i \in DOMAIN list : list[i] \in Entries(comments.byId)
    BY <2>3, SeqHas DEF ListOK
  <2> HIDE DEF list
  <2>6. \A i \in DOMAIN list : list[i] = [id |-> list[i].id, v |-> list[i].v]
    BY <2>5 DEF Entries
  <2>7. \A v : [id |-> id, v |-> v] \in ToSet(list) <=> v = v0
    <3>1. ASSUME NEW v, [id |-> id, v |-> v] \in ToSet(list) PROVE v = v0
      <4>1. PICK i \in DOMAIN list : list[i] = [id |-> id, v |-> v]
        BY <3>1 DEF ToSet
      <4>2. list[i].id = id /\ list[i].v = v
        BY <4>1
      <4> QED BY <2>4, <4>2
    <3>2. [id |-> id, v |-> v0] \in ToSet(list)
      <4>1. PICK i \in DOMAIN list : list[i].id = id
        BY <2>2
      <4>2. list[i] = [id |-> id, v |-> v0]
        BY <2>4, <2>6, <4>1
      <4> QED BY <4>2 DEF ToSet
    <3> QED BY <3>1, <3>2
  <2>8. ShownVersions(comments, id) = {v \in 1 .. server[id].v : [id |-> id, v |-> v] \in ToSet(list)}
    BY <2>2 DEF ShownVersions, list
  <2> HIDE DEF v0
  <2>9. ShownVersions(comments, id) = {v0}
    BY <2>1, <2>7, <2>8
  <2> QED BY <2>9 DEF v0
<1>3. SyncInv => ListsAgree
  <2> SUFFICES ASSUME SyncInv, NEW slice \in {comments, attachments}
               PROVE  /\ \A card \in DOMAIN slice.byCard :
                           IsInjective([i \in DOMAIN slice.byCard[card] |-> slice.byCard[card][i].id])
                      /\ {id \in Of("comment") \cup Of("attachment") : InList(slice.byCard, Parent[id], id)}
                           = DOMAIN slice.byId
                      /\ slice = comments =>
                           \A id \in DOMAIN slice.byId : ShownVersions(slice, id) = {slice.byId[id]}
    BY DEF ListsAgree
  <2>1. \E type \in {"comment", "attachment"} : SliceOK(slice, type)
    BY DEF SyncInv
  <2> QED BY <1>1, <1>2, <2>1
<1> QED BY <1>3, SyncInvariant, PTL
=============================================================================
