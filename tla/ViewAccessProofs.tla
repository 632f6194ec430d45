-------------------------- MODULE ViewAccessProofs --------------------------
(***************************************************************************)
(* Proofs about BoardMembers and ViewAccess, for any users and managers of *)
(* the team, any views and any number of requests at the same time.        *)
(*                                                                         *)
(* That a manager remains, and a shared view, is not inductive: a request  *)
(* in flight may take one.  The invariants add what such a request was let *)
(* through with, one besides the one it takes, as long as no other request *)
(* that takes one has written since.                                       *)
(*                                                                         *)
(* That the pages agree once all is settled says nothing of the steps up   *)
(* to then.  The invariant says, of every page and view, where the news    *)
(* is that makes the copy true: in the queue, with nothing untrue behind   *)
(* it, or in a request that has yet to tell it.                            *)
(***************************************************************************)
EXTENDS ViewAccess, FiniteSetTheorems, SequenceTheorems, TLAPS

-----------------------------------------------------------------------------
(* The members: types.                                                     *)

\* The rows of a new board are typed.
LEMMA InitTyped == MembersInit => MembersTypeOK
<1> SUFFICES ASSUME MembersInit PROVE MembersTypeOK
    OBVIOUS
<1>1. member \in [Users -> Roles \cup {"none"}]
  BY DEF MembersInit, Roles
<1>2. NoCall \in [at : {"idle", "write"}, user : Users \cup {Nobody},
                 role : Roles \cup {"none"}, old : Roles \cup {"none"},
                 crossed : BOOLEAN]
  BY DEF NoCall
<1>3. \A c \in Calls : call[c] = NoCall /\ NoCall.at = "idle"
  BY DEF MembersInit, NoCall
<1> QED BY <1>1, <1>2, <1>3 DEF MembersInit, MembersTypeOK

\* A request decided on is a request of a user with a role or none.
LEMMA DecideTyped ==
    ASSUME NEW c \in Calls, NEW u \in Users, NEW role \in Roles \cup {"none"},
           MembersTypeOK, Decide(c, u, role)
    PROVE  MembersTypeOK'
BY DEF Decide, MembersTypeOK

\* Every step keeps the rows, the requests and the flag in their types.
LEMMA StepTyped == MembersTypeOK /\ [MembersNext]_memberVars => MembersTypeOK'
<1> USE MembersAssumption
<1> SUFFICES ASSUME MembersTypeOK, [MembersNext]_memberVars
             PROVE  MembersTypeOK'
    OBVIOUS
<1>1. ASSUME NEW c \in Calls, NEW actor \in Users, NEW u \in Users,
             NEW role \in Granted,
             AddMember(c, actor, u, role) \/ UpdateMember(c, actor, u, role)
      PROVE  MembersTypeOK'
  <2>1. role \in Roles \cup {"none"}
    OBVIOUS
  <2>2. Decide(c, u, role)
    BY <1>1 DEF AddMember, UpdateMember
  <2> QED BY <2>1, <2>2, DecideTyped
<1>2. ASSUME NEW c \in Calls, NEW u \in Users, JoinBoard(c, u)
      PROVE  MembersTypeOK'
  <2> DEFINE role == IF MinimumRole = "none" THEN "editor" ELSE MinimumRole
  <2>1. role \in Roles \cup {"none"}
    BY DEF Roles
  <2>2. Decide(c, u, role)
    BY <1>2 DEF JoinBoard
  <2> QED BY <2>1, <2>2, DecideTyped
<1>3. ASSUME NEW c \in Calls, NEW u \in Users,
             (\E actor \in Users : DeleteMember(c, actor, u)) \/ LeaveBoard(c, u)
      PROVE  MembersTypeOK'
  <2>1. Decide(c, u, "none")
    BY <1>3 DEF DeleteMember, LeaveBoard
  <2> QED BY <2>1, DecideTyped
<1>4. ASSUME NEW c \in Calls, WriteMember(c)
      PROVE  MembersTypeOK'
  <2>1. call[c].user \in Users /\ call[c].role \in Roles \cup {"none"}
    BY <1>4 DEF WriteMember, MembersTypeOK
  <2>2. member' \in [Users -> Roles \cup {"none"}]
    BY <1>4, <2>1 DEF WriteMember, MembersTypeOK
  <2>3. Overruns(call[c]) \in BOOLEAN /\ TakesAManager(call[c].user, call[c].role) \in BOOLEAN
    BY DEF Overruns, TakesAManager
  <2>4. overrun' \in BOOLEAN
    BY <1>4, <2>3 DEF WriteMember, MembersTypeOK
  <2>5. \A x \in Calls : call'[x] = NoCall
                      \/ call'[x] = [call[x] EXCEPT !.crossed = @ \/ TakesAManager(call[c].user, call[c].role)]
    BY <1>4 DEF WriteMember
  <2>6. call' \in [Calls -> [at : {"idle", "write"}, user : Users \cup {Nobody},
                             role : Roles \cup {"none"}, old : Roles \cup {"none"},
                             crossed : BOOLEAN]]
        /\ \A x \in Calls : call'[x].at = "write" => call'[x].user \in Users
    <3>1. DOMAIN call' = Calls /\ call' = [x \in Calls |-> call'[x]]
      BY <1>4 DEF WriteMember
    <3>2. ASSUME NEW x \in Calls
          PROVE  /\ call'[x] \in [at : {"idle", "write"}, user : Users \cup {Nobody},
                                  role : Roles \cup {"none"}, old : Roles \cup {"none"},
                                  crossed : BOOLEAN]
                 /\ call'[x].at = "write" => call'[x].user \in Users
      <4>1. CASE call'[x] = NoCall
        BY <4>1 DEF NoCall
      <4>2. CASE call'[x] = [call[x] EXCEPT !.crossed = @ \/ TakesAManager(call[c].user, call[c].role)]
        <5> DEFINE after == call[x].crossed \/ TakesAManager(call[c].user, call[c].role)
        <5>1. after \in BOOLEAN
          BY <2>3 DEF MembersTypeOK
        <5>2. call'[x] = [call[x] EXCEPT !.crossed = after]
          BY <4>2
        <5> HIDE DEF after
        <5> QED BY <5>1, <5>2 DEF MembersTypeOK
      <4> QED BY <2>5, <4>1, <4>2
    <3> QED BY <3>1, <3>2
  <2> QED BY <2>2, <2>4, <2>6 DEF MembersTypeOK
<1>5. ASSUME NEW c \in Calls, FailToWrite(c)
      PROVE  MembersTypeOK'
  BY <1>5 DEF FailToWrite, MembersTypeOK, NoCall
<1>6. CASE UNCHANGED memberVars
  BY <1>6 DEF memberVars, MembersTypeOK
<1> QED BY <1>1, <1>2, <1>3, <1>4, <1>5, <1>6 DEF MembersNext

(* The rows of the members, the requests and what they remember keep their *)
(* types.                                                                  *)
THEOREM TypeCorrect == MembersSpec => []MembersTypeOK
<1>1. MembersInit => MembersTypeOK
  BY InitTyped
<1> QED BY <1>1, StepTyped, PTL DEF MembersSpec

-----------------------------------------------------------------------------
(* The last manager.                                                       *)

\* The request q takes a manager and has seen that another one remains.
Judged(q) ==
    q.at = "write" /\ q.old = "admin" /\ q.role # "admin" /\ ~q.crossed
        => Admins \ {q.user} # {}

Inv ==
    /\ MembersTypeOK
    /\ ~overrun => Admins # {}
    /\ ~overrun => \A c \in Calls : Judged(call[c])

\* A request that is decided on, with its guard, is judged.
LEMMA DecideJudged ==
    ASSUME NEW c \in Calls, NEW u \in Users, NEW role \in Roles \cup {"none"},
           Inv, Decide(c, u, role), KeepsAManager(u, role) \/ member[u] = "none"
    PROVE  Inv'
<1>1. MembersTypeOK'
  BY DecideTyped DEF Inv
<1>2. Admins' = Admins /\ overrun' = overrun
  BY DEF Decide, Admins
<1>3. ASSUME NEW x \in Calls, ~overrun
      PROVE  Judged(call[x])'
  <2>1. CASE x = c
    <3>1. /\ call'[c].user = u
          /\ call'[c].role = role
          /\ call'[c].old = member[u]
      BY DEF Decide, Inv, MembersTypeOK
    <3>2. member[u] = "admin" /\ role # "admin" => Admins \ {u} # {}
      BY DEF KeepsAManager, IsLastAdmin
    <3> QED BY <1>2, <2>1, <3>1, <3>2 DEF Judged
  <2>2. CASE x # c
    <3>1. call'[x] = call[x]
      BY <2>2 DEF Decide, Inv, MembersTypeOK
    <3> QED BY <1>2, <1>3, <3>1 DEF Judged, Inv
  <2> QED BY <2>1, <2>2
<1> QED BY <1>1, <1>2, <1>3 DEF Inv

\* The write of a request that is judged leaves a manager, and every other
\* request that is not crossed by it as judged as it was.
LEMMA WriteJudged ==
    ASSUME NEW c \in Calls, Inv, WriteMember(c), MembersTypeOK'
    PROVE  Inv'
<1> DEFINE q == call[c]
<1>1. /\ q.at = "write"
      /\ q.user \in Users
      /\ q.role \in Roles \cup {"none"}
      /\ member' = [member EXCEPT ![q.user] = q.role]
      /\ overrun' = (overrun \/ Overruns(q))
  BY DEF WriteMember, Inv, MembersTypeOK
<1>2. \A u \in Users : member'[u] = IF u = q.user THEN q.role ELSE member[u]
  BY <1>1 DEF Inv, MembersTypeOK
<1>3. \A u \in Users : u # q.user => (u \in Admins' <=> u \in Admins)
  BY <1>2 DEF Admins
<1>4. ~TakesAManager(q.user, q.role) => Admins \subseteq Admins'
  BY <1>2 DEF TakesAManager, Admins
<1>5. ASSUME ~overrun'
      PROVE  /\ ~overrun
             /\ member[q.user] = q.old
             /\ TakesAManager(q.user, q.role) => ~q.crossed
  BY <1>1, <1>5 DEF Overruns
<1>6. ASSUME ~overrun'
      PROVE  Admins' # {}
  <2>1. CASE TakesAManager(q.user, q.role)
    <3>1. Admins \ {q.user} # {}
      BY <1>1, <1>5, <1>6, <2>1 DEF TakesAManager, Inv, Judged
    <3>2. Admins \subseteq Users
      BY DEF Admins
    <3> QED BY <1>3, <3>1, <3>2
  <2>2. CASE ~TakesAManager(q.user, q.role)
    BY <1>4, <1>5, <1>6, <2>2 DEF Inv
  <2> QED BY <2>1, <2>2
<1>7. ASSUME ~overrun', NEW x \in Calls
      PROVE  Judged(call[x])'
  <2>1. CASE x = c
    BY <2>1 DEF WriteMember, NoCall, Judged
  <2>2. CASE x # c /\ TakesAManager(q.user, q.role)
    <3>1. call'[x] = [call[x] EXCEPT !.crossed = @ \/ TakesAManager(q.user, q.role)]
      BY <2>2 DEF WriteMember
    <3>2. call'[x].crossed
      BY <2>2, <3>1 DEF Inv, MembersTypeOK
    <3> QED BY <3>2 DEF Judged
  <2>3. CASE x # c /\ ~TakesAManager(q.user, q.role)
    <3>1. call'[x] = [call[x] EXCEPT !.crossed = @ \/ TakesAManager(q.user, q.role)]
      BY <2>3 DEF WriteMember
    <3>2. /\ call'[x].at = call[x].at
          /\ call'[x].user = call[x].user
          /\ call'[x].role = call[x].role
          /\ call'[x].old = call[x].old
          /\ ~call'[x].crossed => ~call[x].crossed
      BY <3>1 DEF Inv, MembersTypeOK
    <3>3. Judged(call[x])
      BY <1>5, <1>7 DEF Inv
    <3> QED BY <1>4, <2>3, <3>2, <3>3 DEF Judged
  <2> QED BY <2>1, <2>2, <2>3
<1> QED BY <1>6, <1>7 DEF Inv

\* Every step keeps the invariant.
LEMMA StepKeepsInv == Inv /\ [MembersNext]_memberVars => Inv'
<1> USE MembersAssumption
<1> SUFFICES ASSUME Inv, [MembersNext]_memberVars
             PROVE  Inv'
    OBVIOUS
<1>0. MembersTypeOK'
  BY StepTyped DEF Inv
<1>1. ASSUME NEW c \in Calls, NEW actor \in Users, NEW u \in Users,
             NEW role \in Granted,
             AddMember(c, actor, u, role) \/ UpdateMember(c, actor, u, role)
      PROVE  Inv'
  <2>1. role \in Roles \cup {"none"}
    OBVIOUS
  <2>2. Decide(c, u, role) /\ (KeepsAManager(u, role) \/ member[u] = "none")
    BY <1>1 DEF AddMember, UpdateMember
  <2> QED BY <2>1, <2>2, DecideJudged
<1>2. ASSUME NEW c \in Calls, NEW u \in Users, JoinBoard(c, u)
      PROVE  Inv'
  <2> DEFINE role == IF MinimumRole = "none" THEN "editor" ELSE MinimumRole
  <2>1. role \in Roles \cup {"none"}
    BY DEF Roles
  <2>2. Decide(c, u, role) /\ member[u] = "none"
    BY <1>2 DEF JoinBoard
  <2> QED BY <2>1, <2>2, DecideJudged
<1>3. ASSUME NEW c \in Calls, NEW u \in Users,
             (\E actor \in Users : DeleteMember(c, actor, u)) \/ LeaveBoard(c, u)
      PROVE  Inv'
  <2>1. Decide(c, u, "none") /\ KeepsAManager(u, "none")
    BY <1>3 DEF DeleteMember, LeaveBoard
  <2> QED BY <2>1, DecideJudged
<1>4. ASSUME NEW c \in Calls, WriteMember(c)
      PROVE  Inv'
  BY <1>0, <1>4, WriteJudged
<1>5. ASSUME NEW c \in Calls, FailToWrite(c)
      PROVE  Inv'
  <2>1. \A x \in Calls : call'[x] = IF x = c THEN NoCall ELSE call[x]
    BY <1>5 DEF FailToWrite, Inv, MembersTypeOK
  <2>2. Admins' = Admins /\ overrun' = overrun
    BY <1>5 DEF FailToWrite, Admins
  <2>3. ASSUME NEW x \in Calls, ~overrun
        PROVE  Judged(call[x])'
    BY <2>1, <2>2, <2>3 DEF Judged, NoCall, Inv
  <2> QED BY <1>0, <2>2, <2>3 DEF Inv
<1>6. CASE UNCHANGED memberVars
  BY <1>0, <1>6 DEF memberVars, Inv, Admins, Judged
<1> QED BY <1>1, <1>2, <1>3, <1>4, <1>5, <1>6 DEF MembersNext

(* A board keeps a manager, whatever requests come, fail and overlap,      *)
(* unless a write landed on members its request had not judged.            *)
THEOREM ManagerRemainsHolds == MembersSpec => []ManagerRemains
<1>1. MembersInit => Inv
  <2> SUFFICES ASSUME MembersInit PROVE Inv
      OBVIOUS
  <2>1. MembersTypeOK
    BY InitTyped
  <2>2. Creator \in Admins
    BY MembersAssumption DEF MembersInit, Admins
  <2>3. \A c \in Calls : Judged(call[c])
    BY DEF MembersInit, NoCall, Judged
  <2> QED BY <2>1, <2>2, <2>3 DEF Inv
<1>2. Inv => ManagerRemains
  BY DEF Inv, ManagerRemains
<1> QED BY <1>1, <1>2, StepKeepsInv, PTL DEF MembersSpec

-----------------------------------------------------------------------------
(* What the rows, the requests and the news keep to.                       *)

\* The ids that have been a view's.
KnownIds == {v \in Views : last[v].by # Nobody}

Distinct(ids) == \A i, j \in 1..Len(ids) : ids[i] = ids[j] => i = j

Owned(row) == row.live /\ row.by \in Users

RowsOK ==
    /\ \A v \in Views : v \notin Live => view[v] = NoView
    /\ \A v \in Live : view[v].by \in Users /\ v \in KnownIds
    /\ \A v \in Views : last[v].gone => v \notin Live /\ v \in KnownIds

RequestShape(q) ==
    /\ q.at # "idle" => q.user \in Users
    /\ q.at \notin {"idle", "insert", "batch"} => Len(q.ids) = 1 /\ Len(q.before) = 1
    /\ q.at = "batch" => Len(q.before) = Len(q.ids) /\ Distinct(q.ids)
    /\ q.at = "insert" => q.change \in Modes
    /\ q.at = "write" => Owned(q.row)

RequestsOK ==
    \A r \in Requests : RequestShape(req[r]) /\ ToSet(req[r].ids) \subseteq KnownIds

NewsShape(news) ==
    /\ Len(news.before) = Len(news.ids)
    /\ Distinct(news.ids)
    /\ news.kind # "batch" => Len(news.ids) = 1
    /\ news.kind = "changed" => Owned(news.after)

NewsOK ==
    \A i \in 1..Len(queue) :
      NewsShape(queue[i]) /\ ToSet(queue[i].ids) \subseteq KnownIds

Base == ViewsTypeOK /\ RowsOK /\ RequestsOK /\ NewsOK

-----------------------------------------------------------------------------
(* How the helpers of the actions move the requests.                       *)

\* The request is as it was, but that it may be crossed now.
Alike(q, p) ==
    /\ p.at = q.at /\ p.user = q.user /\ p.ids = q.ids /\ p.change = q.change
    /\ p.before = q.before /\ p.row = q.row
    /\ q.crossed => p.crossed

\* The request r is now p, and the others are as they were.
Moves(r, p) ==
    /\ req' \in [Requests -> Request]
    /\ req'[r] = p
    /\ \A x \in Requests : x # r => Alike(req[x], req'[x])

LEMMA NoReqTyped == NoReq \in Request /\ NoView \in Row
<1>1. NoView \in Row
  BY DEF NoView, Row, Modes
<1>2. <<>> \in Seq(Views) /\ <<>> \in Seq(Row)
  BY EmptySeq
<1> QED BY <1>1, <1>2 DEF NoReq, Request, Changes

LEMMA SetMoves ==
    ASSUME req \in [Requests -> Request], NEW r \in Requests, NEW p \in Request,
           req' = [req EXCEPT ![r] = p]
    PROVE  Moves(r, p)
BY DEF Moves, Alike

LEMMA DoneMoves ==
    ASSUME req \in [Requests -> Request], NEW r \in Requests, Done(r)
    PROVE  Moves(r, NoReq)
BY SetMoves, NoReqTyped DEF Done

LEMMA GotoMoves ==
    ASSUME req \in [Requests -> Request], NEW r \in Requests, NEW at,
           at \in {"tell", "told"}, Goto(r, at)
    PROVE  Moves(r, [req[r] EXCEPT !.at = at])
<1>1. [req[r] EXCEPT !.at = at] \in Request
  BY DEF Request
<1>2. req' = [req EXCEPT ![r] = [req[r] EXCEPT !.at = at]]
  BY DEF Goto
<1> QED BY <1>1, <1>2, SetMoves

\* What a request holds after a write that leaves it at `at`.
After(q, at) == IF at = "idle" THEN NoReq ELSE [q EXCEPT !.at = at]

LEMMA StoreMoves ==
    ASSUME req \in [Requests -> Request], NEW r \in Requests, NEW after, NEW at,
           at \in {"idle", "tell", "told"}, Store(r, after, at)
    PROVE  Moves(r, After(req[r], at)) /\ view' = after
<1> DEFINE takes == \E v \in Views : v \in Shared /\ ~(after[v].live /\ after[v].mode # "private")
<1>1. After(req[r], at) \in Request
  BY NoReqTyped DEF After, Request
<1>2. /\ req' = [x \in Requests |->
                     IF x = r THEN After(req[r], at)
                     ELSE IF req[x].at = "idle" THEN req[x]
                     ELSE [req[x] EXCEPT !.crossed = @ \/ takes]]
      /\ view' = after
  BY DEF Store, After
<1>3. ASSUME NEW x \in Requests, x # r
      PROVE  Alike(req[x], req'[x]) /\ req'[x] \in Request
  <2>1. CASE req[x].at = "idle"
    BY <1>2, <1>3, <2>1 DEF Alike
  <2>2. CASE req[x].at # "idle"
    <3> DEFINE crossed == req[x].crossed \/ takes
    <3>1. crossed \in BOOLEAN /\ (req[x].crossed => crossed)
      BY DEF Request
    <3>2. req'[x] = [req[x] EXCEPT !.crossed = crossed]
      BY <1>2, <1>3, <2>2
    <3> HIDE DEF crossed
    <3> QED BY <3>1, <3>2 DEF Alike, Request
  <2> QED BY <2>1, <2>2
<1> QED BY <1>1, <1>2, <1>3 DEF Moves

\* What a request holds that starts.
Begun(u, at, ids, change, before) ==
    [NoReq EXCEPT !.at = at, !.user = u, !.ids = ids, !.change = change, !.before = before]

LEMMA BeginMoves ==
    ASSUME req \in [Requests -> Request], NEW r \in Requests, NEW u \in Users,
           NEW at \in {"read", "batch", "insert", "copy", "delete", "restore"},
           NEW ids \in Seq(Views), NEW change \in Changes, NEW before \in Seq(Row),
           Begin(r, u, at, ids, change, before)
    PROVE  Moves(r, Begun(u, at, ids, change, before))
<1>1. Begun(u, at, ids, change, before) \in Request
  BY NoReqTyped DEF Begun, Request
<1> QED BY <1>1, SetMoves DEF Begin, Begun

-----------------------------------------------------------------------------
(* The parts of the base that an action may disturb.                       *)

LEMMA RequestsKept ==
    ASSUME RequestsOK, NEW r \in Requests, NEW p, Moves(r, p),
           RequestShape(p), ToSet(p.ids) \subseteq KnownIds', KnownIds \subseteq KnownIds'
    PROVE  RequestsOK'
<1> SUFFICES ASSUME NEW x \in Requests
             PROVE  RequestShape(req'[x]) /\ ToSet(req'[x].ids) \subseteq KnownIds'
    BY DEF RequestsOK
<1>1. CASE x = r
  BY <1>1 DEF Moves
<1>2. CASE x # r
  <2>1. Alike(req[x], req'[x]) /\ RequestShape(req[x]) /\ ToSet(req[x].ids) \subseteq KnownIds
    BY <1>2 DEF Moves, RequestsOK
  <2> QED BY <2>1 DEF Alike, RequestShape
<1> QED BY <1>1, <1>2

LEMMA NewsStays ==
    ASSUME NewsOK, queue' = queue, KnownIds \subseteq KnownIds'
    PROVE  NewsOK'
BY DEF NewsOK

LEMMA NewsAppended ==
    ASSUME queue \in Seq(News), NewsOK, NEW news \in News, queue' = Append(queue, news),
           NewsShape(news), ToSet(news.ids) \subseteq KnownIds', KnownIds \subseteq KnownIds'
    PROVE  queue' \in Seq(News) /\ NewsOK'
<1>1. /\ queue' \in Seq(News)
      /\ Len(queue') = Len(queue) + 1
      /\ \A i \in 1..Len(queue) : queue'[i] = queue[i]
      /\ queue'[Len(queue) + 1] = news
  BY AppendProperties
<1>2. Len(queue) \in Nat
  BY LenProperties
<1> SUFFICES ASSUME NEW i \in 1..Len(queue')
             PROVE  NewsShape(queue'[i]) /\ ToSet(queue'[i].ids) \subseteq KnownIds'
    BY <1>1 DEF NewsOK
<1>3. i \in 1..Len(queue) \/ i = Len(queue) + 1
  BY <1>1, <1>2
<1> QED BY <1>1, <1>3 DEF NewsOK

LEMMA Removed ==
    ASSUME NEW S, NEW s \in Seq(S), NEW i \in 1..Len(s)
    PROVE  /\ RemoveAt(s, i) \in Seq(S)
           /\ Len(RemoveAt(s, i)) = Len(s) - 1
           /\ \A j \in 1..Len(s) - 1 :
                RemoveAt(s, i)[j] = IF j < i THEN s[j] ELSE s[j + 1]
<1> DEFINE a == SubSeq(s, 1, i - 1)
           b == SubSeq(s, i + 1, Len(s))
<1>0. Len(s) \in Nat /\ i \in Int /\ 1 <= i /\ i <= Len(s)
  BY LenProperties
<1>1. \A j \in 1..Len(s) : s[j] \in S
  BY ElementOfSeq
<1>2. a \in Seq(S) /\ Len(a) = i - 1 /\ \A j \in 1..i - 1 : a[j] = s[j]
  <2>1. \A j \in 1..i - 1 : s[j] \in S
    BY <1>0, <1>1
  <2>2. /\ a \in Seq(S)
        /\ Len(a) = IF 1 <= i - 1 THEN i - 1 - 1 + 1 ELSE 0
        /\ \A j \in 1..i - 1 - 1 + 1 : a[j] = s[1 + j - 1]
    BY <1>0, <2>1, SubSeqProperties
  <2> QED BY <1>0, <2>2
<1>3. b \in Seq(S) /\ Len(b) = Len(s) - i /\ \A j \in 1..Len(s) - i : b[j] = s[j + i]
  <2>1. \A j \in i + 1..Len(s) : s[j] \in S
    BY <1>0, <1>1
  <2>2. /\ b \in Seq(S)
        /\ Len(b) = IF i + 1 <= Len(s) THEN Len(s) - (i + 1) + 1 ELSE 0
        /\ \A j \in 1..Len(s) - (i + 1) + 1 : b[j] = s[i + 1 + j - 1]
    BY <1>0, <2>1, SubSeqProperties
  <2> QED BY <1>0, <2>2
<1> HIDE DEF a, b
<1>4. /\ a \o b \in Seq(S)
      /\ Len(a \o b) = Len(a) + Len(b)
      /\ \A j \in 1..Len(a) + Len(b) : (a \o b)[j] = IF j <= Len(a) THEN a[j] ELSE b[j - Len(a)]
  BY <1>2, <1>3, ConcatProperties
<1>5. RemoveAt(s, i) = a \o b
  BY DEF RemoveAt, a, b
<1>6. ASSUME NEW j \in 1..Len(s) - 1
      PROVE  (a \o b)[j] = IF j < i THEN s[j] ELSE s[j + 1]
  <2>1. CASE j < i
    BY <1>0, <1>2, <1>3, <1>4, <2>1
  <2>2. CASE ~(j < i)
    <3>1. (a \o b)[j] = b[j - (i - 1)]
      BY <1>0, <1>2, <1>3, <1>4, <2>2
    <3>2. j - (i - 1) \in 1..Len(s) - i /\ (j - (i - 1)) + i = j + 1
      BY <1>0, <2>2
    <3> QED BY <1>3, <2>2, <3>1, <3>2
  <2> QED BY <2>1, <2>2
<1>7. Len(a \o b) = Len(s) - 1
  BY <1>0, <1>2, <1>3, <1>4
<1> QED BY <1>4, <1>5, <1>6, <1>7

LEMMA OneId ==
    ASSUME NEW S, NEW s \in Seq(S), Len(s) = 1
    PROVE  s[1] \in S /\ ToSet(s) = {s[1]} /\ \A i \in 1..Len(s) : i = 1
<1>1. DOMAIN s = 1..1 /\ s[1] \in S
  BY ElementOfSeq, LenProperties
<1> QED BY <1>1 DEF ToSet

LEMMA One ==
    ASSUME NEW S, NEW e \in S
    PROVE  <<e>> \in Seq(S) /\ Len(<<e>>) = 1 /\ <<e>>[1] = e /\ ToSet(<<e>>) = {e}
<1>1. <<e>> \in Seq(S) /\ Len(<<e>>) = 1 /\ <<e>>[1] = e
  OBVIOUS
<1> QED BY <1>1, OneId

\* A function on the first numbers is a sequence.
LEMMA Listed ==
    ASSUME NEW S, NEW n \in Nat, NEW f \in [1..n -> S]
    PROVE  f \in Seq(S) /\ Len(f) = n
<1>1. f \in Seq(S)
  BY SeqDef
<1> QED BY <1>1, LenProperties

\* Writing an entry of the history.
LEMMA EntryKnown ==
    ASSUME ViewsTypeOK, NEW v \in Views, NEW e \in Entry, e.by \in Users,
           last' = [last EXCEPT ![v] = e]
    PROVE  /\ last' \in [Views -> Entry]
           /\ KnownIds' = KnownIds \cup {v}
           /\ \A w \in Views : last'[w] = IF w = v THEN e ELSE last[w]
<1>1. last' \in [Views -> Entry]
  BY DEF ViewsTypeOK
<1>2. \A w \in Views : last'[w] = IF w = v THEN e ELSE last[w]
  BY DEF ViewsTypeOK
<1>3. e.by # Nobody
  BY MembersAssumption DEF Nobody
<1> QED BY <1>1, <1>2, <1>3 DEF KnownIds

LEMMA Excused ==
    ASSUME NEW condition, NEW name
    PROVE  When(condition, name) \subseteq {name}
BY DEF When

-----------------------------------------------------------------------------
(* Every step keeps the base.                                              *)

LEMMA BeginKeepsBase ==
    ASSUME Base, NEW r \in Requests, NEW u \in Users,
           NEW at \in {"read", "batch", "insert", "copy", "delete", "restore"},
           NEW ids \in Seq(Views), NEW change \in Changes, NEW before \in Seq(Row),
           Begin(r, u, at, ids, change, before),
           at \notin {"insert", "batch"} => Len(ids) = 1 /\ Len(before) = 1,
           at = "batch" => Len(before) = Len(ids) /\ Distinct(ids),
           at = "insert" => change \in Modes,
           ToSet(ids) \subseteq KnownIds
    PROVE  Base'
<1> DEFINE p == Begun(u, at, ids, change, before)
<1>1. /\ Moves(r, p)
      /\ p.at = at /\ p.user = u /\ p.ids = ids /\ p.change = change
      /\ p.before = before /\ p.crossed = FALSE
  <2>1. req \in [Requests -> Request]
    BY DEF Base, ViewsTypeOK
  <2>2. Moves(r, p)
    BY <2>1, BeginMoves
  <2> QED BY <2>2 DEF Begun, NoReq
<1> HIDE DEF p
<1>2. UNCHANGED <<view, last, queue, client, excused>>
  BY DEF Begin
<1>3. KnownIds' = KnownIds
  BY <1>2 DEF KnownIds
<1>4. RequestShape(p)
  BY <1>1 DEF RequestShape
<1>5. RequestsOK'
  BY <1>1, <1>3, <1>4, RequestsKept DEF Base
<1>6. NewsOK'
  BY <1>2, <1>3, NewsStays DEF Base
<1>7. ViewsTypeOK'
  BY <1>1, <1>2 DEF Base, ViewsTypeOK, Moves
<1>8. RowsOK'
  BY <1>2, <1>3 DEF Base, RowsOK, Live
<1> QED BY <1>5, <1>6, <1>7, <1>8 DEF Base

LEMMA BeginOneKeepsBase ==
    ASSUME Base, NEW r \in Requests, NEW u \in Users,
           NEW at \in {"read", "copy", "delete", "restore"},
           NEW v \in KnownIds, NEW change \in Changes, NEW row \in Row,
           Begin(r, u, at, <<v>>, change, <<row>>)
    PROVE  Base'
<1> DEFINE ids == <<v>>
           before == <<row>>
<1>1. v \in Views
  BY DEF KnownIds
<1>2. ids \in Seq(Views) /\ Len(ids) = 1 /\ ToSet(ids) \subseteq KnownIds
  BY <1>1, One
<1>3. before \in Seq(Row) /\ Len(before) = 1
  BY One
<1>4. Begin(r, u, at, ids, change, before)
  OBVIOUS
<1> HIDE DEF ids, before
<1> QED BY <1>2, <1>3, <1>4, BeginKeepsBase

LEMMA StartKeepsBase ==
    ASSUME Base, NEW r \in Requests, Start(r)
    PROVE  Base'
<1>0. \A v \in Live : v \in Views /\ view[v] \in Row /\ v \in KnownIds
  BY DEF Live, Base, RowsOK, ViewsTypeOK
<1>0a. Modes \subseteq Changes /\ "config" \in Changes
  BY DEF Changes
<1>1. ASSUME NEW u \in Users, NEW v \in Views, NEW change \in Changes,
             PatchView(r, u, v, change)
      PROVE  Base'
  <2>1. v \in Live /\ Begin(r, u, "read", <<v>>, change, <<view[v]>>)
    BY <1>1 DEF PatchView
  <2> QED BY <1>0, <2>1, BeginOneKeepsBase
<1>2. ASSUME NEW u \in Users, NEW v \in Views, NEW w \in Views, NEW change \in Changes,
             v # w, PatchViews(r, u, <<v, w>>, change)
      PROVE  Base'
  <2> DEFINE ids == <<v, w>>
  <2>1. ids \in Seq(Views) /\ Len(ids) = 2 /\ ids[1] = v /\ ids[2] = w /\ DOMAIN ids = 1..2
    OBVIOUS
  <2>2. Distinct(ids)
    BY <1>2, <2>1 DEF Distinct
  <2>3. ToSet(ids) = {v, w}
    BY <2>1 DEF ToSet
  <2>4. v \in Live /\ w \in Live
    BY <1>2, <2>3 DEF PatchViews
  <2>5. PICK order \in {ids, Reverse(ids)} :
          Begin(r, u, "batch", ids, change, [i \in DOMAIN order |-> view[order[i]]])
    BY <1>2 DEF PatchViews
  <2>6. DOMAIN order = 1..2 /\ \A i \in 1..2 : order[i] \in {v, w}
    BY <2>1, <2>5 DEF Reverse
  <2>7. [i \in DOMAIN order |-> view[order[i]]] \in [1..2 -> Row]
    BY <1>0, <2>4, <2>6
  <2>8. /\ [i \in DOMAIN order |-> view[order[i]]] \in Seq(Row)
        /\ Len([i \in DOMAIN order |-> view[order[i]]]) = 2
    BY <2>7, Listed
  <2> DEFINE at == "batch"
             before == [i \in DOMAIN order |-> view[order[i]]]
  <2>9. at = "batch" /\ Begin(r, u, at, ids, change, before)
    BY <2>5
  <2>10. before \in Seq(Row) /\ Len(before) = Len(ids) /\ ToSet(ids) \subseteq KnownIds
    BY <1>0, <2>1, <2>3, <2>4, <2>8
  <2> HIDE DEF ids, at, before
  <2> QED BY <2>1, <2>2, <2>9, <2>10, BeginKeepsBase
<1>3. ASSUME NEW u \in Users, NEW mode \in Modes, PostView(r, u, mode)
      PROVE  Base'
  <2>1. Begin(r, u, "insert", <<>>, mode, <<>>)
    BY <1>3 DEF PostView
  <2>2. <<>> \in Seq(Views) /\ <<>> \in Seq(Row) /\ ToSet(<<>>) \subseteq KnownIds
    BY EmptySeq DEF ToSet
  <2> DEFINE at == "insert"
             none == <<>>
  <2>3. at \in {"insert"} /\ Begin(r, u, at, none, mode, none)
    BY <2>1
  <2>4. none \in Seq(Views) /\ none \in Seq(Row) /\ ToSet(none) \subseteq KnownIds
    BY <2>2
  <2> HIDE DEF at, none
  <2> QED BY <1>0a, <2>3, <2>4, BeginKeepsBase
<1>4. ASSUME NEW u \in Users, NEW v \in Views, DuplicateView(r, u, v)
      PROVE  Base'
  <2>1. v \in Live /\ Begin(r, u, "copy", <<v>>, "everyone", <<view[v]>>)
    BY <1>4 DEF DuplicateView
  <2>2. "everyone" \in Changes
    BY DEF Changes, Modes
  <2> QED BY <1>0, <2>1, <2>2, BeginOneKeepsBase
<1>5. ASSUME NEW u \in Users, NEW v \in Views,
             DeleteView(r, u, v) \/ DeletePrivateViewAsAdmin(r, u, v)
      PROVE  Base'
  <2>1. v \in Live /\ Begin(r, u, "delete", <<v>>, "config", <<view[v]>>)
    BY <1>5 DEF DeleteView, DeletePrivateViewAsAdmin
  <2> QED BY <1>0, <1>0a, <2>1, BeginOneKeepsBase
<1>6. ASSUME NEW u \in Users, NEW v \in Views, UndeleteView(r, u, v)
      PROVE  Base'
  <2> DEFINE stored == [live |-> TRUE, mode |-> last[v].mode, by |-> last[v].by]
  <2>1. v \in KnownIds /\ Begin(r, u, "restore", <<v>>, "config", <<stored>>)
    BY <1>6 DEF UndeleteView, KnownIds
  <2>2. stored \in Row
    BY DEF Row, Base, ViewsTypeOK, Entry
  <2> HIDE DEF stored
  <2> QED BY <1>0a, <2>1, <2>2, BeginOneKeepsBase
<1> QED BY <1>1, <1>2, <1>3, <1>4, <1>5, <1>6 DEF Start

LEMMA NoReqShape == RequestShape(NoReq) /\ ToSet(NoReq.ids) = {} /\ NoReq.at = "idle"
<1>1. NoReq.at = "idle" /\ NoReq.ids = <<>> /\ DOMAIN NoReq.ids = {}
  BY DEF NoReq
<1> QED BY <1>1 DEF RequestShape, ToSet

\* The request r takes a step from `at`: its views are known.
LEMMA NamedView ==
    ASSUME Base, NEW r \in Requests, req[r].at \notin {"idle", "insert", "batch"}
    PROVE  /\ req[r] \in Request /\ req[r].user \in Users
           /\ req[r].ids[1] \in Views /\ req[r].ids[1] \in KnownIds
           /\ ToSet(req[r].ids) = {req[r].ids[1]}
           /\ Len(req[r].ids) = 1 /\ Len(req[r].before) = 1
           /\ req[r].before[1] \in Row
           /\ req[r].before \in Seq(Row) /\ req[r].ids \in Seq(Views)
<1>1. req[r] \in Request /\ RequestShape(req[r]) /\ ToSet(req[r].ids) \subseteq KnownIds
  BY DEF Base, ViewsTypeOK, RequestsOK
<1>2. req[r].ids \in Seq(Views) /\ req[r].before \in Seq(Row)
  BY <1>1 DEF Request
<1>3. req[r].user \in Users /\ Len(req[r].ids) = 1 /\ Len(req[r].before) = 1
  BY <1>1 DEF RequestShape
<1>4. req[r].ids[1] \in Views /\ ToSet(req[r].ids) = {req[r].ids[1]}
  BY <1>2, <1>3, OneId
<1>5. req[r].before[1] \in Row
  BY <1>2, <1>3, OneId
<1> QED BY <1>1, <1>2, <1>3, <1>4, <1>5

\* One row is written.
LEMMA RowWritten ==
    ASSUME Base, NEW v \in Views, NEW row \in Row, view' = [view EXCEPT ![v] = row],
           row = NoView \/ Owned(row),
           \A w \in Views : w # v => last'[w] = last[w],
           KnownIds \subseteq KnownIds', v \in KnownIds',
           last'[v].gone => ~row.live
    PROVE  view' \in [Views -> Row] /\ RowsOK'
<1>1. \A w \in Views : view'[w] = IF w = v THEN row ELSE view[w]
  BY DEF Base, ViewsTypeOK
<1>2. \A w \in Views : w # v => (w \in Live' <=> w \in Live)
  BY <1>1 DEF Live
<1>3. v \in Live' <=> row.live
  BY <1>1 DEF Live
<1>4. ~NoView.live
  BY DEF NoView
<1>5. view' \in [Views -> Row]
  BY DEF Base, ViewsTypeOK
<1>6. ASSUME NEW w \in Views
      PROVE  /\ w \notin Live' => view'[w] = NoView
             /\ w \in Live' => view'[w].by \in Users /\ w \in KnownIds'
             /\ last'[w].gone => w \notin Live' /\ w \in KnownIds'
  <2>1. CASE w = v
    BY <1>1, <1>3, <1>4, <2>1 DEF Owned
  <2>2. CASE w # v
    BY <1>1, <1>2, <2>2 DEF Base, RowsOK
  <2> QED BY <2>1, <2>2
<1>7. Live' \subseteq Views
  BY DEF Live
<1> QED BY <1>5, <1>6, <1>7 DEF RowsOK

LEMMA ReadRowKeepsBase ==
    ASSUME Base, NEW r \in Requests, ReadRow(r)
    PROVE  Base'
<1> DEFINE v == req[r].ids[1]
           p == [req[r] EXCEPT !.at = "write", !.row = view[v]]
<1>1. /\ req[r] \in Request /\ RequestShape(req[r]) /\ ToSet(req[r].ids) \subseteq KnownIds
      /\ req \in [Requests -> Request]
  BY DEF Base, ViewsTypeOK, RequestsOK
<1>2. /\ req[r].at = "read"
      /\ UNCHANGED <<view, last, queue, client, excused>>
      /\ IF v \in Live THEN req' = [req EXCEPT ![r] = p] ELSE Done(r)
  BY <1>1 DEF ReadRow
<1>3. v \in Views
  BY <1>2, NamedView
<1>4. KnownIds' = KnownIds
  BY <1>2 DEF KnownIds
<1>5. RequestsOK' /\ req' \in [Requests -> Request]
  <2>1. CASE v \in Live
    <3>1. view[v] \in Row /\ Owned(view[v])
      BY <1>3, <2>1 DEF Base, ViewsTypeOK, RowsOK, Owned, Live
    <3>2. p \in Request /\ RequestShape(p) /\ ToSet(p.ids) \subseteq KnownIds
      BY <1>1, <1>2, <3>1 DEF Request, RequestShape
    <3> HIDE DEF p
    <3>3. Moves(r, p)
      BY <1>1, <1>2, <2>1, <3>2, SetMoves
    <3> QED BY <1>4, <3>2, <3>3, RequestsKept DEF Base, Moves
  <2>2. CASE v \notin Live
    <3>1. Moves(r, NoReq)
      BY <1>1, <1>2, <2>2, DoneMoves
    <3> QED BY <1>4, <3>1, NoReqShape, RequestsKept DEF Base, Moves
  <2> QED BY <2>1, <2>2
<1>6. NewsOK'
  BY <1>2, <1>4, NewsStays DEF Base
<1>7. ViewsTypeOK' /\ RowsOK'
  BY <1>2, <1>4, <1>5 DEF Base, ViewsTypeOK, RowsOK, Live
<1> QED BY <1>5, <1>6, <1>7 DEF Base

\* Overlaying a row keeps its creator, and leaves it a row.
LEMMA Overlaid ==
    ASSUME NEW row \in Row, NEW change \in Changes
    PROVE  /\ Overlay(row, change) \in Row
           /\ Overlay(row, change).live = row.live
           /\ Overlay(row, change).by = row.by
           /\ Overlay(row, change).mode = IF change \in Modes THEN change ELSE row.mode
BY DEF Overlay, Row

\* What WriteRow writes: the mode into a view that is there, and into one that
\* is gone a row of somebody's or none.
Patched(q, row) ==
    LET v == q.ids[1] IN
    \/ v \in Live /\ row = [view[v] EXCEPT !.mode = Overlay(q.row, q.change).mode]
    \/ v \notin Live /\ (row = NoView \/ Owned(row))

LEMMA RowPatched ==
    ASSUME Base, NEW r \in Requests, WriteRow(r)
    PROVE  \E row \in Row :
             LET q == req[r]
                 v == q.ids[1]
                 after == [view EXCEPT ![v] = row]
             IN  /\ Patched(q, row) /\ (row = NoView \/ Owned(row))
                 /\ Store(r, after, "tell")
                 /\ excused' = excused \cup
                      (When(view[v] # q.row \/ view[v] # q.before[1], "stale")
                       \cup When(q.crossed /\ Loses(after), "crossed"))
<1> DEFINE q == req[r]
           v == q.ids[1]
           new == Overlay(q.row, q.change)
           Effect(row) ==
             /\ Store(r, [view EXCEPT ![v] = row], "tell")
             /\ excused' = excused \cup
                  (When(view[v] # q.row \/ view[v] # q.before[1], "stale")
                   \cup When(q.crossed /\ Loses([view EXCEPT ![v] = row]), "crossed"))
<1>1. q.at = "write"
  BY DEF WriteRow
<1>2. q \in Request /\ q.user \in Users /\ v \in Views
  BY <1>1, NamedView
<1>3. RequestShape(q)
  BY DEF Base, RequestsOK
<1>4. Owned(q.row) /\ q.row \in Row /\ q.change \in Changes
  BY <1>1, <1>2, <1>3 DEF RequestShape, Request
<1>5. new \in Row /\ Owned(new) /\ new.mode \in Modes
  BY <1>4, Overlaid DEF Owned, Row
<1>6. view[v] \in Row
  BY <1>2 DEF Base, ViewsTypeOK
<1>7. PICK row : /\ Effect(row)
                 /\ \/ v \in Live /\ row = [view[v] EXCEPT !.mode = new.mode]
                    \/ v \notin Live /\ row = [new EXCEPT !.by = q.user]
                    \/ v \notin Live /\ row = view[v]
  BY DEF WriteRow, Excuse
<1>8. [new EXCEPT !.by = q.user] \in Row /\ Owned([new EXCEPT !.by = q.user])
  BY <1>2, <1>5 DEF Row, Owned
<1>9. v \in Live => Owned(view[v]) /\ Owned([view[v] EXCEPT !.mode = new.mode])
  BY <1>2, <1>6 DEF Base, RowsOK, Live, Owned, Row
<1>10. [view[v] EXCEPT !.mode = new.mode] \in Row
  BY <1>5, <1>6 DEF Row
<1>11. v \notin Live => view[v] = NoView
  BY <1>2 DEF Base, RowsOK
<1>12. row \in Row /\ Patched(q, row) /\ (row = NoView \/ Owned(row))
  <2> HIDE DEF v, Effect
  <2>1. row \in Row /\ (row = NoView \/ Owned(row))
    BY <1>6, <1>7, <1>8, <1>9, <1>10, <1>11
  <2> QED BY <1>7, <1>8, <1>11, <2>1 DEF Patched, v
<1> QED BY <1>7, <1>12

LEMMA WriteRowKeepsBase ==
    ASSUME Base, NEW r \in Requests, WriteRow(r)
    PROVE  Base'
<1> DEFINE q == req[r]
           v == q.ids[1]
           new == Overlay(q.row, q.change)
           p == [q EXCEPT !.at = "tell"]
<1>1. q.at = "write" /\ UNCHANGED <<queue, client>> /\ Entered(v, FALSE, new, q.user)
  BY DEF WriteRow
<1>2. /\ q \in Request /\ q.user \in Users /\ v \in Views /\ v \in KnownIds
      /\ ToSet(q.ids) = {v} /\ Len(q.ids) = 1 /\ Len(q.before) = 1
  BY <1>1, NamedView
<1>3. RequestShape(q) /\ req \in [Requests -> Request]
  BY DEF Base, RequestsOK, ViewsTypeOK
<1>4. Owned(q.row) /\ q.row \in Row /\ q.change \in Changes
  BY <1>1, <1>2, <1>3 DEF RequestShape, Request
<1>5. new \in Row /\ Owned(new) /\ new.mode \in Modes
  BY <1>4, Overlaid DEF Owned, Row
<1>8. PICK row \in Row :
        /\ row = NoView \/ Owned(row)
        /\ Store(r, [view EXCEPT ![v] = row], "tell")
        /\ excused' \subseteq excused \cup {"stale", "crossed"}
  BY RowPatched DEF When
<1>9. Moves(r, p) /\ view' = [view EXCEPT ![v] = row]
  <2>1. Moves(r, After(req[r], "tell")) /\ view' = [view EXCEPT ![v] = row]
    BY <1>3, <1>8, StoreMoves
  <2> QED BY <2>1 DEF After
<1>10. /\ last' \in [Views -> Entry] /\ KnownIds' = KnownIds \cup {v}
       /\ \A w \in Views : w # v => last'[w] = last[w]
       /\ last'[v].gone = FALSE
  <2> DEFINE e == [gone |-> FALSE, mode |-> new.mode, by |-> q.user]
  <2>1. e \in Entry /\ e.by \in Users /\ e.gone = FALSE
    BY <1>2, <1>5 DEF Entry
  <2>2. last' = [last EXCEPT ![v] = e]
    BY <1>1 DEF Entered
  <2> HIDE DEF e, q, v, new
  <2> QED BY <1>2, <2>1, <2>2, EntryKnown DEF Base
<1>11. view' \in [Views -> Row] /\ RowsOK'
  BY <1>2, <1>8, <1>9, <1>10, RowWritten
<1>12. RequestShape(p) /\ ToSet(p.ids) \subseteq KnownIds'
  BY <1>1, <1>2, <1>3, <1>10 DEF RequestShape, Request
<1>13. RequestsOK' /\ req' \in [Requests -> Request]
  BY <1>9, <1>10, <1>12, RequestsKept DEF Base, Moves
<1>14. NewsOK'
  BY <1>1, <1>10, NewsStays DEF Base
<1>15. ViewsTypeOK'
  BY <1>1, <1>8, <1>10, <1>11, <1>13 DEF Base, ViewsTypeOK, Excuses
<1> QED BY <1>11, <1>13, <1>14, <1>15 DEF Base

\* The request r ends and writes no row.
LEMMA DoneKeepsBase ==
    ASSUME Base, NEW r \in Requests, Done(r), UNCHANGED <<view, last, client>>,
           excused' \subseteq Excuses, queue' \in Seq(News), NewsOK'
    PROVE  Base'
<1>1. Moves(r, NoReq)
  BY DoneMoves DEF Base, ViewsTypeOK
<1>2. KnownIds' = KnownIds
  BY DEF KnownIds
<1>3. RequestsOK'
  BY <1>1, <1>2, NoReqShape, RequestsKept DEF Base
<1>4. ViewsTypeOK' /\ RowsOK'
  BY <1>1, <1>2 DEF Base, ViewsTypeOK, RowsOK, Live, Moves
<1> QED BY <1>3, <1>4 DEF Base

\* News of one view.
LEMMA NewsOfOne ==
    ASSUME NEW kind \in {"changed", "deleted"}, NEW ids \in Seq(Views), Len(ids) = 1,
           NEW before \in Seq(Row), Len(before) = 1, NEW after \in Row,
           kind = "changed" => Owned(after),
           NEW news, news = [kind |-> kind, ids |-> ids, before |-> before, after |-> after]
    PROVE  news \in News /\ NewsShape(news) /\ news.ids = ids
<1>1. Distinct(ids)
  BY OneId DEF Distinct
<1> QED BY <1>1 DEF News, NewsShape

LEMMA TellChangeKeepsBase ==
    ASSUME Base, NEW r \in Requests, TellChange(r)
    PROVE  Base'
<1> DEFINE q == req[r]
           v == q.ids[1]
           ids == <<v>>
           news == [kind |-> "changed", ids |-> ids, before |-> q.before, after |-> view[v]]
<1>1. /\ q.at = "tell" /\ Done(r) /\ UNCHANGED <<view, last, client>>
      /\ queue' = IF v \in Live THEN Append(queue, news) ELSE queue
      /\ excused' \subseteq excused \cup {"untold"}
  BY DEF TellChange, Excuse, When
<1>2. /\ v \in Views /\ v \in KnownIds /\ q.before \in Seq(Row) /\ Len(q.before) = 1
      /\ view[v] \in Row
  BY <1>1, NamedView DEF Base, ViewsTypeOK
<1>3. KnownIds' = KnownIds
  BY <1>1 DEF KnownIds
<1>4. queue' \in Seq(News) /\ NewsOK'
  <2>1. CASE v \in Live
    <3>1. Owned(view[v])
      BY <2>1 DEF Base, RowsOK, Owned, Live
    <3>2. ids \in Seq(Views) /\ Len(ids) = 1 /\ ToSet(ids) \subseteq KnownIds
      BY <1>2, One
    <3>3. news \in News /\ NewsShape(news) /\ news.ids = ids
      <4> HIDE DEF ids, v, q
      <4> QED BY <1>2, <3>1, <3>2, NewsOfOne
    <3> HIDE DEF news, ids, v
    <3> QED BY <1>1, <1>3, <2>1, <3>2, <3>3, NewsAppended DEF Base, ViewsTypeOK
  <2>2. CASE v \notin Live
    BY <1>1, <1>3, <2>2, NewsStays DEF Base, ViewsTypeOK
  <2> QED BY <2>1, <2>2
<1>5. excused' \subseteq Excuses
  BY <1>1 DEF Base, ViewsTypeOK, Excuses
<1> QED BY <1>1, <1>4, <1>5, DoneKeepsBase

LEMMA TellDeletionKeepsBase ==
    ASSUME Base, NEW r \in Requests, TellDeletion(r)
    PROVE  Base'
<1> DEFINE q == req[r]
           news == [kind |-> "deleted", ids |-> q.ids, before |-> q.before, after |-> NoView]
<1>1. /\ q.at = "told" /\ Done(r) /\ UNCHANGED <<view, last, client>>
      /\ queue' = Append(queue, news)
      /\ excused' \subseteq excused \cup {"told late"}
  BY DEF TellDeletion, Excuse, When
<1>2. /\ q.ids \in Seq(Views) /\ Len(q.ids) = 1 /\ ToSet(q.ids) \subseteq KnownIds
      /\ q.before \in Seq(Row) /\ Len(q.before) = 1
  <2>1. q.at \notin {"idle", "insert", "batch"}
    BY <1>1
  <2>2. q.ids[1] \in KnownIds /\ ToSet(q.ids) = {q.ids[1]}
    BY <2>1, NamedView
  <2> QED BY <2>1, <2>2, NamedView
<1>3. KnownIds' = KnownIds
  BY <1>1 DEF KnownIds
<1>4. news \in News /\ NewsShape(news) /\ news.ids = q.ids
  <2> HIDE DEF q
  <2> QED BY <1>2, NoReqTyped, NewsOfOne
<1>5. queue' \in Seq(News) /\ NewsOK'
  <2> HIDE DEF news
  <2> QED BY <1>1, <1>2, <1>3, <1>4, NewsAppended DEF Base, ViewsTypeOK
<1>6. excused' \subseteq Excuses
  BY <1>1 DEF Base, ViewsTypeOK, Excuses
<1> QED BY <1>1, <1>5, <1>6, DoneKeepsBase

LEMMA FailToClearKeepsBase ==
    ASSUME Base, NEW r \in Requests, FailToClear(r)
    PROVE  Base'
<1>1. /\ Done(r) /\ UNCHANGED <<view, last, queue, client>>
      /\ excused' = excused \cup {"half done"}
  BY DEF FailToClear, Excuse
<1>2. KnownIds' = KnownIds
  BY <1>1 DEF KnownIds
<1>3. queue' \in Seq(News) /\ NewsOK' /\ excused' \subseteq Excuses
  BY <1>1, <1>2, NewsStays DEF Base, ViewsTypeOK, Excuses
<1> QED BY <1>1, <1>3, DoneKeepsBase

\* What the clients are sent is a copy of a row that somebody owns.
LEMMA ToldTyped ==
    ASSUME NEW pages \in [Users -> [Views -> Copies \cup {Absent}]], NEW v \in Views,
           NEW row \in Row, Owned(row)
    PROVE  Told(pages, v, row) \in [Users -> [Views -> Copies \cup {Absent}]]
<1>1. [mode |-> row.mode, by |-> row.by] \in Copies
  BY DEF Copies, Row, Owned
<1> QED BY <1>1 DEF Told

LEMMA InsertViewKeepsBase ==
    ASSUME Base, NEW r \in Requests, InsertView(r)
    PROVE  Base'
<1> DEFINE q == req[r]
           row == [live |-> TRUE, mode |-> q.change, by |-> q.user]
<1>1. /\ q.at = "insert" /\ UNCHANGED <<queue, excused>>
  BY DEF InsertView
<1>2. PICK v \in Views :
        /\ Fresh(v)
        /\ Store(r, [view EXCEPT ![v] = row], "idle")
        /\ Entered(v, FALSE, row, q.user)
        /\ client' = Told(client, v, row)
  BY DEF InsertView
<1>3. q \in Request /\ q.user \in Users /\ q.change \in Modes /\ req \in [Requests -> Request]
  BY <1>1 DEF Base, ViewsTypeOK, RequestsOK, RequestShape
<1>4. row \in Row /\ Owned(row) /\ row.mode = q.change
  BY <1>3 DEF Row, Owned
<1>5. Moves(r, NoReq) /\ view' = [view EXCEPT ![v] = row]
  <2>1. Moves(r, After(req[r], "idle")) /\ view' = [view EXCEPT ![v] = row]
    BY <1>2, <1>3, StoreMoves
  <2> QED BY <2>1 DEF After
<1>6. /\ last' \in [Views -> Entry] /\ KnownIds' = KnownIds \cup {v}
      /\ \A w \in Views : w # v => last'[w] = last[w]
      /\ last'[v].gone = FALSE
  <2> DEFINE e == [gone |-> FALSE, mode |-> row.mode, by |-> q.user]
  <2>1. e \in Entry /\ e.by \in Users /\ e.gone = FALSE
    BY <1>3, <1>4 DEF Entry
  <2>2. last' = [last EXCEPT ![v] = e]
    BY <1>2 DEF Entered
  <2> HIDE DEF e, q, row
  <2> QED BY <1>2, <2>1, <2>2, EntryKnown DEF Base
<1> HIDE DEF row
<1>7. view' \in [Views -> Row] /\ RowsOK'
  BY <1>4, <1>5, <1>6, RowWritten
<1>8. client' \in [Users -> [Views -> Copies \cup {Absent}]]
  BY <1>2, <1>4, ToldTyped DEF Base, ViewsTypeOK
<1>9. RequestsOK' /\ req' \in [Requests -> Request]
  BY <1>5, <1>6, NoReqShape, RequestsKept DEF Base, Moves
<1>10. NewsOK'
  BY <1>1, <1>6, NewsStays DEF Base
<1>11. ViewsTypeOK'
  BY <1>1, <1>6, <1>7, <1>8, <1>9 DEF Base, ViewsTypeOK
<1> QED BY <1>7, <1>9, <1>10, <1>11 DEF Base

LEMMA CopyNews ==
    ASSUME NEW v \in Views, NEW row \in Row, Owned(row),
           NEW news, news = NewsOfCopy(v, row)
    PROVE  news \in News /\ NewsShape(news) /\ ToSet(news.ids) = {v}
<1> DEFINE ids == <<v>>
           before == <<row>>
<1>1. ids \in Seq(Views) /\ Len(ids) = 1 /\ ToSet(ids) = {v}
  BY One
<1>2. before \in Seq(Row) /\ Len(before) = 1
  BY One
<1>3. news = [kind |-> "changed", ids |-> ids, before |-> before, after |-> row]
  BY DEF NewsOfCopy
<1> HIDE DEF ids, before
<1> QED BY <1>1, <1>2, <1>3, NewsOfOne

LEMMA CopyViewKeepsBase ==
    ASSUME Base, NEW r \in Requests, CopyView(r)
    PROVE  Base'
<1> DEFINE q == req[r]
           source == view[q.ids[1]]
           row == [source EXCEPT !.by = q.user]
<1>1. q.at = "copy" /\ UNCHANGED <<client, excused>>
  BY DEF CopyView
<1>2. /\ q \in Request /\ q.user \in Users /\ q.ids[1] \in Views
      /\ Len(q.before) = 1 /\ q.before \in Seq(Row) /\ source \in Row
      /\ RequestShape(q) /\ req \in [Requests -> Request]
  BY <1>1, NamedView DEF Base, ViewsTypeOK, RequestsOK
<1>3. CASE q.ids[1] \notin Live
  <2>1. Done(r) /\ UNCHANGED <<view, last, queue>>
    BY <1>3 DEF CopyView
  <2>2. KnownIds' = KnownIds
    BY <2>1 DEF KnownIds
  <2>3. NewsOK'
    BY <2>1, <2>2, NewsStays DEF Base
  <2> QED BY <1>1, <2>1, <2>3, DoneKeepsBase DEF Base, ViewsTypeOK
<1>4. CASE q.ids[1] \in Live
  <2>1. PICK v \in Views :
          /\ Fresh(v)
          /\ Entered(v, FALSE, row, q.user)
          /\ view' = [view EXCEPT ![v] = row]
          /\ IF row.mode = "everyone"
             THEN queue' = Append(queue, NewsOfCopy(v, row)) /\ Done(r)
             ELSE /\ req' = [req EXCEPT ![r].at = "clear", ![r].ids = <<v>>]
                  /\ UNCHANGED queue
    BY <1>4 DEF CopyView
  <2>2. row \in Row /\ Owned(row)
    BY <1>2, <1>4 DEF Row, Owned, Live
  <2>3. /\ last' \in [Views -> Entry] /\ KnownIds' = KnownIds \cup {v}
        /\ \A w \in Views : w # v => last'[w] = last[w]
        /\ last'[v].gone = FALSE
    <3> DEFINE e == [gone |-> FALSE, mode |-> row.mode, by |-> q.user]
    <3>1. e \in Entry /\ e.by \in Users /\ e.gone = FALSE
      BY <1>2, <2>2 DEF Entry, Row
    <3>2. last' = [last EXCEPT ![v] = e]
      BY <2>1 DEF Entered
    <3> HIDE DEF e, q, row
    <3> QED BY <2>1, <3>1, <3>2, EntryKnown DEF Base
  <2> HIDE DEF row, source
  <2>4. view' \in [Views -> Row] /\ RowsOK'
    BY <2>1, <2>2, <2>3, RowWritten
  <2>5. CASE row.mode = "everyone"
    <3>1. queue' = Append(queue, NewsOfCopy(v, row)) /\ Moves(r, NoReq)
      BY <1>2, <2>1, <2>5, DoneMoves
    <3>2. queue' \in Seq(News) /\ NewsOK'
      BY <2>2, <2>3, <3>1, CopyNews, NewsAppended DEF Base, ViewsTypeOK
    <3>3. RequestsOK'
      BY <2>3, <3>1, NoReqShape, RequestsKept DEF Base
    <3> QED BY <1>1, <2>3, <2>4, <3>1, <3>2, <3>3 DEF Base, ViewsTypeOK, Moves
  <2>6. CASE row.mode # "everyone"
    <3> DEFINE ids == <<v>>
               p == [q EXCEPT !.at = "clear", !.ids = ids]
    <3>1. ids \in Seq(Views) /\ Len(ids) = 1 /\ ToSet(ids) \subseteq KnownIds'
      BY <2>3, One
    <3>2. req' = [req EXCEPT ![r] = p] /\ UNCHANGED queue
      BY <1>2, <2>1, <2>6
    <3> HIDE DEF ids
    <3>3. p \in Request /\ RequestShape(p) /\ ToSet(p.ids) \subseteq KnownIds'
      BY <1>1, <1>2, <3>1 DEF Request, RequestShape
    <3> HIDE DEF p
    <3>4. Moves(r, p)
      BY <1>2, <3>2, <3>3, SetMoves
    <3>5. RequestsOK' /\ NewsOK'
      BY <2>3, <3>2, <3>3, <3>4, RequestsKept, NewsStays DEF Base
    <3> QED BY <1>1, <2>3, <2>4, <3>2, <3>4, <3>5 DEF Base, ViewsTypeOK, Moves
  <2> QED BY <2>5, <2>6
<1> QED BY <1>3, <1>4

LEMMA ClearModeKeepsBase ==
    ASSUME Base, NEW r \in Requests, ClearMode(r)
    PROVE  Base'
<1> DEFINE q == req[r]
           v == q.ids[1]
           row == [view[v] EXCEPT !.mode = "everyone"]
<1>1. q.at = "clear" /\ UNCHANGED <<client, excused>>
  BY DEF ClearMode
<1>2. /\ q.user \in Users /\ v \in Views /\ view[v] \in Row
      /\ req \in [Requests -> Request]
  BY <1>1, NamedView DEF Base, ViewsTypeOK
<1>3. CASE v \notin Live
  <2>1. Done(r) /\ UNCHANGED <<view, last, queue>>
    BY <1>3 DEF ClearMode
  <2>2. KnownIds' = KnownIds
    BY <2>1 DEF KnownIds
  <2>3. NewsOK'
    BY <2>1, <2>2, NewsStays DEF Base
  <2> QED BY <1>1, <2>1, <2>3, DoneKeepsBase DEF Base, ViewsTypeOK
<1>4. CASE v \in Live
  <2>1. /\ Store(r, [view EXCEPT ![v] = row], "idle")
        /\ Entered(v, FALSE, row, q.user)
        /\ queue' = Append(queue, NewsOfCopy(v, row))
    BY <1>4 DEF ClearMode
  <2>2. row \in Row /\ Owned(row)
    <3>1. "everyone" \in Modes
      BY DEF Modes
    <3> QED BY <1>2, <1>4, <3>1 DEF Row, Owned, Live, Base, RowsOK
  <2>3. /\ last' \in [Views -> Entry] /\ KnownIds' = KnownIds \cup {v}
        /\ \A w \in Views : w # v => last'[w] = last[w]
        /\ last'[v].gone = FALSE
    <3> DEFINE e == [gone |-> FALSE, mode |-> row.mode, by |-> q.user]
    <3>1. e \in Entry /\ e.by \in Users /\ e.gone = FALSE
      BY <1>2, <2>2 DEF Entry, Row
    <3>2. last' = [last EXCEPT ![v] = e]
      BY <2>1 DEF Entered
    <3> HIDE DEF e, q, v, row
    <3> QED BY <1>2, <3>1, <3>2, EntryKnown DEF Base
  <2> HIDE DEF row, v
  <2>4. Moves(r, NoReq) /\ view' = [view EXCEPT ![v] = row]
    <3>1. Moves(r, After(req[r], "idle")) /\ view' = [view EXCEPT ![v] = row]
      BY <1>2, <2>1, StoreMoves
    <3> QED BY <3>1 DEF After
  <2>5. view' \in [Views -> Row] /\ RowsOK'
    BY <1>2, <2>2, <2>3, <2>4, RowWritten
  <2>6. queue' \in Seq(News) /\ NewsOK'
    BY <1>2, <2>1, <2>2, <2>3, CopyNews, NewsAppended DEF Base, ViewsTypeOK
  <2>7. RequestsOK'
    BY <2>3, <2>4, NoReqShape, RequestsKept DEF Base
  <2> QED BY <1>1, <2>3, <2>4, <2>5, <2>6, <2>7 DEF Base, ViewsTypeOK, Moves
<1> QED BY <1>3, <1>4

LEMMA DeleteRowKeepsBase ==
    ASSUME Base, NEW r \in Requests, DeleteRow(r)
    PROVE  Base'
<1> DEFINE q == req[r]
           v == q.ids[1]
           p == [q EXCEPT !.at = "told"]
<1>1. /\ q.at = "delete" /\ UNCHANGED <<queue, client>>
      /\ Store(r, [view EXCEPT ![v] = NoView], "told")
      /\ IF v \in Live THEN Entered(v, TRUE, view[v], view[v].by) ELSE UNCHANGED last
      /\ excused' \subseteq excused \cup {"stale", "crossed"}
  BY DEF DeleteRow, Excuse, When
<1>2. /\ q \in Request /\ q.user \in Users /\ v \in Views /\ v \in KnownIds
      /\ ToSet(q.ids) = {v} /\ view[v] \in Row
      /\ req \in [Requests -> Request] /\ RequestShape(q)
  BY <1>1, NamedView DEF Base, ViewsTypeOK, RequestsOK
<1>3. /\ last' \in [Views -> Entry] /\ KnownIds' = KnownIds
      /\ \A w \in Views : w # v => last'[w] = last[w]
  <2>1. CASE v \in Live
    <3> DEFINE e == [gone |-> TRUE, mode |-> view[v].mode, by |-> view[v].by]
    <3>1. e \in Entry /\ e.by \in Users
      BY <1>2, <2>1 DEF Entry, Row, Base, RowsOK
    <3>2. last' = [last EXCEPT ![v] = e]
      BY <1>1, <2>1 DEF Entered
    <3> HIDE DEF e, q, v
    <3>3. /\ last' \in [Views -> Entry] /\ KnownIds' = KnownIds \cup {v}
          /\ \A w \in Views : last'[w] = IF w = v THEN e ELSE last[w]
      BY <1>2, <3>1, <3>2, EntryKnown DEF Base
    <3> QED BY <1>2, <3>3
  <2>2. CASE v \notin Live
    BY <1>1, <2>2 DEF KnownIds, Base, ViewsTypeOK
  <2> QED BY <2>1, <2>2
<1>4. Moves(r, p) /\ view' = [view EXCEPT ![v] = NoView]
  <2>1. Moves(r, After(req[r], "told")) /\ view' = [view EXCEPT ![v] = NoView]
    BY <1>1, <1>2, StoreMoves
  <2> QED BY <2>1 DEF After
<1>5. view' \in [Views -> Row] /\ RowsOK'
  <2>1. ~NoView.live /\ NoView \in Row
    BY NoReqTyped DEF NoView
  <2> QED BY <1>2, <1>3, <1>4, <2>1, RowWritten
<1>6. RequestShape(p) /\ ToSet(p.ids) \subseteq KnownIds'
  BY <1>1, <1>2, <1>3 DEF RequestShape, Request
<1>7. RequestsOK' /\ req' \in [Requests -> Request]
  BY <1>3, <1>4, <1>6, RequestsKept DEF Base, Moves
<1>8. NewsOK'
  BY <1>1, <1>3, NewsStays DEF Base
<1> QED BY <1>1, <1>3, <1>5, <1>7, <1>8 DEF Base, ViewsTypeOK, Excuses

LEMMA RestoreRowKeepsBase ==
    ASSUME Base, NEW r \in Requests, RestoreRow(r)
    PROVE  Base'
<1> DEFINE q == req[r]
           v == q.ids[1]
           row == [live |-> TRUE, mode |-> last[v].mode, by |-> last[v].by]
           p == [q EXCEPT !.at = "tell"]
<1>1. q.at = "restore" /\ UNCHANGED <<queue, client>>
  BY DEF RestoreRow
<1>2. /\ q \in Request /\ v \in Views /\ v \in KnownIds
      /\ ToSet(q.ids) = {v}
      /\ req \in [Requests -> Request] /\ RequestShape(q)
  BY <1>1, NamedView DEF Base, ViewsTypeOK, RequestsOK
<1>3. row \in Row /\ Owned(row) /\ last[v].by \in Users
  BY <1>2 DEF Row, Owned, Base, ViewsTypeOK, Entry, KnownIds
<1>4. CASE last[v].gone
  <2>1. /\ Store(r, [view EXCEPT ![v] = row], "tell")
        /\ Entered(v, FALSE, row, row.by)
        /\ excused' \subseteq excused \cup {"stale"}
    BY <1>4 DEF RestoreRow, Excuse, When
  <2>2. /\ last' \in [Views -> Entry] /\ KnownIds' = KnownIds \cup {v}
        /\ \A w \in Views : w # v => last'[w] = last[w]
        /\ last'[v].gone = FALSE
    <3> DEFINE e == [gone |-> FALSE, mode |-> row.mode, by |-> row.by]
    <3>1. e \in Entry /\ e.by \in Users /\ e.gone = FALSE
      BY <1>3 DEF Entry, Row
    <3>2. last' = [last EXCEPT ![v] = e]
      BY <2>1 DEF Entered
    <3> HIDE DEF e, q, v, row
    <3> QED BY <1>2, <3>1, <3>2, EntryKnown DEF Base
  <2>3. Moves(r, p) /\ view' = [view EXCEPT ![v] = row]
    <3>1. Moves(r, After(req[r], "tell")) /\ view' = [view EXCEPT ![v] = row]
      BY <1>2, <2>1, StoreMoves
    <3> QED BY <3>1 DEF After
  <2>4. RequestShape(p) /\ ToSet(p.ids) \subseteq KnownIds'
    BY <1>1, <1>2, <2>2 DEF RequestShape, Request
  <2> HIDE DEF row, v, p
  <2>5. view' \in [Views -> Row] /\ RowsOK'
    BY <1>2, <1>3, <2>2, <2>3, RowWritten
  <2>6. RequestsOK' /\ req' \in [Requests -> Request] /\ NewsOK'
    BY <1>1, <2>2, <2>3, <2>4, RequestsKept, NewsStays DEF Base, Moves
  <2> QED BY <1>1, <2>1, <2>2, <2>5, <2>6 DEF Base, ViewsTypeOK, Excuses
<1>5. CASE ~last[v].gone
  <2>1. Goto(r, "tell") /\ UNCHANGED <<view, last, excused>>
    BY <1>5 DEF RestoreRow
  <2>2. Moves(r, p)
    BY <1>2, <2>1, GotoMoves
  <2>3. KnownIds' = KnownIds
    BY <2>1 DEF KnownIds
  <2>4. RequestShape(p) /\ ToSet(p.ids) \subseteq KnownIds'
    BY <1>1, <1>2, <2>3 DEF RequestShape, Request
  <2> HIDE DEF p
  <2>5. RequestsOK' /\ req' \in [Requests -> Request] /\ NewsOK'
    BY <1>1, <2>2, <2>3, <2>4, RequestsKept, NewsStays DEF Base, Moves
  <2> QED BY <1>1, <2>1, <2>3, <2>5 DEF Base, ViewsTypeOK, RowsOK, Live
<1> QED BY <1>4, <1>5

\* What u is shown of a row, and whether a change from one to another reaches u.
Shown(u, row) == IF Hears(u, row) THEN [mode |-> row.mode, by |-> row.by] ELSE Absent
Reaches(u, before, after) == Hears(u, after) \/ before.mode # "private"

Pages == [Users -> [Views -> Copies \cup {Absent}]]

\* The change and the tombstone together show everyone reached what the row is.
LEMMA Announced ==
    ASSUME NEW pages \in Pages, NEW v \in Views, NEW before, NEW after \in Row,
           Owned(after)
    PROVE  /\ AnnouncedPrivate(pages, v, before, after) \in Pages
           /\ \A u \in Users, w \in Views :
                AnnouncedPrivate(pages, v, before, after)[u][w] =
                  IF w = v /\ Reaches(u, before, after) THEN Shown(u, after)
                  ELSE pages[u][w]
<1> DEFINE copy == [mode |-> after.mode, by |-> after.by]
           told == Told(pages, v, after)
<1>1. copy \in Copies
  BY DEF Copies, Row, Owned
<1>2. /\ told \in Pages
      /\ \A u \in Users : told[u] = IF Hears(u, after) THEN [pages[u] EXCEPT ![v] = copy]
                                    ELSE pages[u]
  BY <1>1 DEF Told, Pages
<1>3. \A u \in Users, w \in Views :
        told[u][w] = IF w = v /\ Hears(u, after) THEN copy ELSE pages[u][w]
  BY <1>2 DEF Pages
<1> HIDE DEF told
<1>4. CASE before.mode # "private" /\ after.mode = "private"
  <2> DEFINE forgot == Forgot(told, v, Users \ {after.by})
  <2>1. AnnouncedPrivate(pages, v, before, after) = forgot
    BY <1>4 DEF AnnouncedPrivate, told
  <2>2. /\ forgot \in Pages
        /\ \A u \in Users : forgot[u] = IF u # after.by THEN [told[u] EXCEPT ![v] = Absent]
                                        ELSE told[u]
    BY <1>2 DEF Forgot, Pages
  <2> HIDE DEF forgot
  <2>3. \A u \in Users, w \in Views :
          forgot[u][w] = IF w = v /\ u # after.by THEN Absent ELSE told[u][w]
    BY <1>2, <2>2 DEF Pages
  <2>4. \A u \in Users : Hears(u, after) <=> u = after.by
    BY <1>4 DEF Hears
  <2> QED BY <1>3, <1>4, <2>1, <2>2, <2>3, <2>4 DEF Reaches, Shown
<1>5. CASE ~(before.mode # "private" /\ after.mode = "private")
  <2>1. AnnouncedPrivate(pages, v, before, after) = told
    BY <1>5 DEF AnnouncedPrivate, told
  <2>2. \A u \in Users : Reaches(u, before, after) <=> Hears(u, after)
    BY <1>5 DEF Reaches, Hears
  <2> QED BY <1>2, <1>3, <2>1, <2>2 DEF Shown
<1> QED BY <1>4, <1>5

\* Views that are gone are forgotten by whom the news of it reaches.
LEMMA Forgotten ==
    ASSUME NEW pages \in Pages, NEW v \in Views, NEW users
    PROVE  /\ Forgot(pages, v, users) \in Pages
           /\ \A u \in Users, w \in Views :
                Forgot(pages, v, users)[u][w] =
                  IF w = v /\ u \in users THEN Absent ELSE pages[u][w]
<1>1. /\ Forgot(pages, v, users) \in Pages
      /\ \A u \in Users : Forgot(pages, v, users)[u] =
           IF u \in users THEN [pages[u] EXCEPT ![v] = Absent] ELSE pages[u]
  BY DEF Forgot, Pages
<1> QED BY <1>1 DEF Pages

\* The callback of a batch: each view it reaches is announced as it is now.
LEMMA BatchAnnounced ==
    ASSUME Base, NEW news \in News, NewsShape(news)
    PROVE  /\ AfterBatch(news) \in Pages
           /\ ToSet(news.ids) \subseteq Live =>
                \A u \in Users, i \in 1..Len(news.ids) :
                  AfterBatch(news)[u][news.ids[i]] =
                    IF Reaches(u, news.before[i], view[news.ids[i]])
                    THEN Shown(u, view[news.ids[i]]) ELSE client[u][news.ids[i]]
           /\ \A u \in Users, v \in Views :
                v \notin ToSet(news.ids) => AfterBatch(news)[u][v] = client[u][v]
<1> DEFINE reached == {i \in DOMAIN news.ids : \A j \in 1..i : news.ids[j] \in Live}
           place(v) == CHOOSE i \in reached : news.ids[i] = v
           pages(v) == AnnouncedPrivate(client, v, news.before[place(v)], view[v])
           isReached(v) == \E i \in reached : news.ids[i] = v
<1>1. news.ids \in Seq(Views) /\ DOMAIN news.ids = 1..Len(news.ids) /\ Len(news.ids) \in Nat
  BY LenProperties DEF News
<1>2. AfterBatch(news) = [u \in Users |-> [v \in Views |->
            IF isReached(v) THEN pages(v)[u][v] ELSE client[u][v]]]
  BY DEF AfterBatch
<1>3. client \in Pages
  BY DEF Base, ViewsTypeOK, Pages
<1>4. ASSUME NEW v \in Views, isReached(v)
      PROVE  /\ place(v) \in reached /\ news.ids[place(v)] = v
             /\ pages(v) \in Pages
             /\ \A u \in Users : pages(v)[u][v] =
                  IF Reaches(u, news.before[place(v)], view[v]) THEN Shown(u, view[v])
                  ELSE client[u][v]
  <2>1. place(v) \in reached /\ news.ids[place(v)] = v
    BY <1>4
  <2> HIDE DEF place
  <2>2. v \in Live
    BY <1>1, <2>1
  <2>3. view[v] \in Row /\ Owned(view[v])
    BY <2>2 DEF Base, ViewsTypeOK, RowsOK, Owned, Live
  <2> QED BY <1>3, <2>1, <2>3, Announced
<1> HIDE DEF pages, isReached, place
<1>5. AfterBatch(news) \in Pages
  BY <1>2, <1>3, <1>4 DEF Pages
<1>6. ASSUME ToSet(news.ids) \subseteq Live, NEW i \in 1..Len(news.ids), NEW u \in Users
      PROVE  AfterBatch(news)[u][news.ids[i]] =
                    IF Reaches(u, news.before[i], view[news.ids[i]])
                    THEN Shown(u, view[news.ids[i]]) ELSE client[u][news.ids[i]]
  <2>1. \A j \in 1..Len(news.ids) : news.ids[j] \in Live
    BY <1>1, <1>6 DEF ToSet
  <2>2. i \in reached /\ news.ids[i] \in Views
    BY <1>1, <2>1 DEF Live
  <2>3. isReached(news.ids[i])
    BY <2>2 DEF isReached
  <2>4. place(news.ids[i]) = i
    <3>1. place(news.ids[i]) \in 1..Len(news.ids) /\ news.ids[place(news.ids[i])] = news.ids[i]
      BY <1>1, <1>4, <2>2, <2>3
    <3> QED BY <3>1 DEF NewsShape, Distinct
  <2> QED BY <1>2, <1>4, <2>2, <2>3, <2>4
<1>7. ASSUME NEW v \in Views, v \notin ToSet(news.ids), NEW u \in Users
      PROVE  AfterBatch(news)[u][v] = client[u][v]
  <2>1. ~isReached(v)
    BY <1>7 DEF ToSet, isReached
  <2> QED BY <1>2, <2>1
<1> QED BY <1>5, <1>6, <1>7

\* What a batch leaves, with the news of it.
BatchRows(q) ==
    [v \in Views |-> IF v \in ToSet(q.ids) THEN Overlay(view[v], q.change) ELSE view[v]]

BatchNews(q) == [kind |-> "batch", ids |-> q.ids, before |-> q.before, after |-> NoView]

\* What WriteBatch does when every view it names is there.
LEMMA BatchWritten ==
    ASSUME Base, NEW r \in Requests, WriteBatch(r), ToSet(req[r].ids) \subseteq Live
    PROVE  /\ req[r].at = "batch" /\ req[r] \in Request /\ req[r].user \in Users
           /\ Store(r, BatchRows(req[r]), "idle")
           /\ Moves(r, NoReq) /\ view' = BatchRows(req[r])
           /\ view' \in [Views -> Row]
           /\ last' \in [Views -> Entry] /\ KnownIds' = KnownIds
           /\ \A v \in Views : v \notin ToSet(req[r].ids) => last'[v] = last[v]
           /\ \A v \in ToSet(req[r].ids) : last'[v].gone = FALSE
           /\ \A v \in ToSet(req[r].ids) : view'[v] = Overlay(view[v], req[r].change)
           /\ Live' = Live
           /\ queue' = Append(queue, BatchNews(req[r]))
           /\ BatchNews(req[r]) \in News /\ NewsShape(BatchNews(req[r]))
           /\ UNCHANGED client
<1> DEFINE q == req[r]
           named == ToSet(q.ids)
           after == BatchRows(q)
<1>1. /\ q \in Request /\ RequestShape(q) /\ named \subseteq KnownIds
      /\ req \in [Requests -> Request] /\ view \in [Views -> Row]
  BY DEF Base, ViewsTypeOK, RequestsOK
<1>2. /\ q.at = "batch" /\ UNCHANGED client
      /\ Store(r, after, "idle")
      /\ last' = [v \in Views |-> IF v \in named
                                  THEN [gone |-> FALSE, mode |-> after[v].mode, by |-> q.user]
                                  ELSE last[v]]
      /\ queue' = Append(queue, BatchNews(q))
  BY DEF WriteBatch, BatchRows, BatchNews
<1>3. q.user \in Users /\ Len(q.before) = Len(q.ids) /\ Distinct(q.ids)
  BY <1>1, <1>2 DEF RequestShape
<1>4. Moves(r, NoReq) /\ view' = after
  <2>1. Moves(r, After(q, "idle")) /\ view' = after
    BY <1>1, <1>2, StoreMoves
  <2> QED BY <2>1 DEF After
<1>5. /\ after \in [Views -> Row]
      /\ \A v \in Views : after[v].live = view[v].live
      /\ \A v \in named : after[v] = Overlay(view[v], q.change)
  <2>1. q.change \in Changes
    BY <1>1 DEF Request
  <2>2. \A v \in Views : /\ after[v] = IF v \in named THEN Overlay(view[v], q.change) ELSE view[v]
                         /\ after[v] \in Row /\ after[v].live = view[v].live
    BY <1>1, <2>1, Overlaid DEF BatchRows
  <2>3. after = [v \in Views |-> after[v]]
    BY DEF BatchRows
  <2>4. named \subseteq Views
    BY DEF Live
  <2> HIDE DEF after, named
  <2> QED BY <2>2, <2>3, <2>4
<1> HIDE DEF after
<1>6. Live' = Live
  BY <1>4, <1>5 DEF Live
<1>7. last' \in [Views -> Entry] /\ KnownIds' = KnownIds
  <2>1. \A v \in Views : after[v].mode \in Modes
    BY <1>5 DEF Row
  <2>2. last' \in [Views -> Entry]
    BY <1>1, <1>2, <1>3, <2>1 DEF Entry, Base, ViewsTypeOK
  <2>3. q.user # Nobody
    BY <1>3, MembersAssumption DEF Nobody
  <2>4. \A v \in Views : last'[v].by = IF v \in named THEN q.user ELSE last[v].by
    BY <1>2
  <2> QED BY <1>1, <2>2, <2>3, <2>4 DEF KnownIds
<1>8. BatchNews(q) \in News /\ NewsShape(BatchNews(q))
  BY <1>1, <1>3, NoReqTyped DEF BatchNews, News, NewsShape, Request
<1>9. named \subseteq Views
  BY DEF Live
<1>10. /\ \A v \in Views : v \notin named => last'[v] = last[v]
       /\ \A v \in named : last'[v].gone = FALSE
  BY <1>2, <1>9
<1> QED BY <1>1, <1>2, <1>3, <1>4, <1>5, <1>6, <1>7, <1>8, <1>10 DEF after

LEMMA WriteBatchKeepsBase ==
    ASSUME Base, NEW r \in Requests, WriteBatch(r)
    PROVE  Base'
<1> DEFINE q == req[r]
<1>1. CASE ~(ToSet(q.ids) \subseteq Live)
  <2>1. Done(r) /\ UNCHANGED <<view, last, queue, excused, client>>
    BY <1>1 DEF WriteBatch
  <2>2. KnownIds' = KnownIds
    BY <2>1 DEF KnownIds
  <2>3. NewsOK'
    BY <2>1, <2>2, NewsStays DEF Base
  <2> QED BY <2>1, <2>3, DoneKeepsBase DEF Base, ViewsTypeOK
<1>2. CASE ToSet(q.ids) \subseteq Live
  <2> DEFINE news == BatchNews(q)
  <2>1. /\ Moves(r, NoReq) /\ view' = BatchRows(q) /\ view' \in [Views -> Row]
        /\ last' \in [Views -> Entry] /\ KnownIds' = KnownIds
        /\ \A v \in Views : v \notin ToSet(q.ids) => last'[v] = last[v]
        /\ \A v \in ToSet(q.ids) : last'[v].gone = FALSE
        /\ Live' = Live
        /\ queue' = Append(queue, news)
        /\ news \in News /\ NewsShape(news)
        /\ UNCHANGED client
    BY <1>2, BatchWritten
  <2>2. news.ids = q.ids /\ ToSet(q.ids) \subseteq KnownIds
    BY DEF BatchNews, Base, RequestsOK
  <2>3. queue' \in Seq(News) /\ NewsOK'
    <3> HIDE DEF news
    <3> QED BY <2>1, <2>2, NewsAppended DEF Base, ViewsTypeOK
  <2>4. RequestsOK'
    BY <2>1, NoReqShape, RequestsKept DEF Base
  <2>5. RowsOK'
    <3>1. \A v \in Views : view'[v].by = view[v].by
      <4>1. q.change \in Changes
        BY DEF Base, ViewsTypeOK, Request
      <4>2. \A v \in Views : Overlay(view[v], q.change).by = view[v].by
        BY <4>1, Overlaid DEF Base, ViewsTypeOK
      <4> QED BY <2>1, <4>2 DEF BatchRows
    <3>2. \A v \in Views : v \notin Live' => view'[v] = NoView
      BY <1>2, <2>1 DEF BatchRows, Base, RowsOK
    <3>3. \A v \in Live' : v \in Views
      BY DEF Live
    <3> QED BY <2>1, <3>1, <3>2, <3>3 DEF Base, RowsOK
  <2>6. excused' \subseteq Excuses
    BY <1>2 DEF WriteBatch, Excuse, When, Excuses, Base, ViewsTypeOK
  <2>7. ViewsTypeOK'
    BY <2>1, <2>3, <2>6 DEF Base, ViewsTypeOK, Moves
  <2> QED BY <2>3, <2>4, <2>5, <2>7 DEF Base
<1> QED BY <1>1, <1>2

LEMMA CallbackKeepsBase ==
    ASSUME Base, NEW i \in DOMAIN queue, Callback(i)
    PROVE  Base'
<1> DEFINE news == queue[i]
           v == news.ids[1]
<1>1. /\ queue \in Seq(News) /\ Len(queue) \in Nat /\ i \in 1..Len(queue)
      /\ DOMAIN queue = 1..Len(queue)
  BY LenProperties DEF Base, ViewsTypeOK
<1>2. /\ news \in News /\ NewsShape(news) /\ client \in Pages
  BY <1>1, ElementOfSeq DEF Base, NewsOK, ViewsTypeOK, Pages
<1>3. /\ UNCHANGED <<view, last, req>> /\ queue' = RemoveAt(queue, i)
      /\ excused' \subseteq excused \cup {"cut short"}
      /\ client' = CASE news.kind = "changed" ->
                            AnnouncedPrivate(client, v, news.before[1], news.after)
                     [] news.kind = "deleted" ->
                            Forgot(client, v, {u \in Users : Hears(u, news.before[1])})
                     [] news.kind = "batch" -> AfterBatch(news)
  BY DEF Callback, Excuse, When
<1>4. client' \in Pages
  <2>1. CASE news.kind = "batch"
    BY <1>2, <1>3, <2>1, BatchAnnounced
  <2>2. CASE news.kind # "batch"
    <3>1. v \in Views
      BY <1>2, <2>2, OneId DEF News, NewsShape
    <3>2. CASE news.kind = "changed"
      <4>1. news.after \in Row /\ Owned(news.after)
        BY <1>2, <3>2 DEF News, NewsShape
      <4> QED BY <1>2, <1>3, <3>1, <3>2, <4>1, Announced
    <3>3. CASE news.kind = "deleted"
      BY <1>2, <1>3, <3>1, <3>3, Forgotten
    <3> QED BY <1>2, <2>2, <3>2, <3>3 DEF News
  <2> QED BY <2>1, <2>2
<1>5. /\ queue' \in Seq(News) /\ Len(queue') = Len(queue) - 1
      /\ \A j \in 1..Len(queue) - 1 : queue'[j] = IF j < i THEN queue[j] ELSE queue[j + 1]
  BY <1>1, <1>3, Removed
<1>6. KnownIds' = KnownIds
  BY <1>3 DEF KnownIds
<1>7. NewsOK'
  <2> SUFFICES ASSUME NEW j \in 1..Len(queue')
               PROVE  NewsShape(queue'[j]) /\ ToSet(queue'[j].ids) \subseteq KnownIds'
      BY DEF NewsOK
  <2>1. j \in 1..Len(queue) /\ j + 1 \in 1..Len(queue) /\ queue'[j] \in {queue[j], queue[j + 1]}
    BY <1>1, <1>5
  <2> QED BY <1>6, <2>1 DEF Base, NewsOK
<1>8. RequestsOK' /\ RowsOK'
  BY <1>3, <1>6 DEF Base, RequestsOK, RowsOK, Live
<1> QED BY <1>3, <1>4, <1>5, <1>7, <1>8 DEF Base, ViewsTypeOK, Pages, Excuses

\* What a page shows that is just opened.
LEMMA PageTyped ==
    ASSUME Base, NEW u \in Users
    PROVE  PageOf(u) \in [Views -> Copies \cup {Absent}]
<1>1. \A v \in Live : v \in Views /\ [mode |-> view[v].mode, by |-> view[v].by] \in Copies
  BY DEF Live, Base, RowsOK, ViewsTypeOK, Row, Copies
<1> QED BY <1>1 DEF PageOf

LEMMA ReloadKeepsBase ==
    ASSUME Base, NEW u \in Users, Reload(u)
    PROVE  Base'
<1>1. UNCHANGED <<view, last, req, queue, excused>> /\ client' = [client EXCEPT ![u] = PageOf(u)]
  BY DEF Reload
<1>2. client' \in [Users -> [Views -> Copies \cup {Absent}]]
  BY <1>1, PageTyped DEF Base, ViewsTypeOK
<1>3. KnownIds' = KnownIds
  BY <1>1 DEF KnownIds
<1> QED BY <1>1, <1>2, <1>3 DEF Base, ViewsTypeOK, RowsOK, RequestsOK, NewsOK, Live

LEMMA InitBase == Init => Base
<1> SUFFICES ASSUME Init PROVE Base
    OBVIOUS
<1>1. /\ req = [r \in Requests |-> NoReq] /\ queue = <<>> /\ excused = {}
      /\ client = [u \in Users |-> PageOf(u)]
      /\ last = [v \in Views |-> [gone |-> FALSE, mode |-> view[v].mode, by |-> view[v].by]]
  BY DEF Init
<1>2. PICK mode \in [FirstViews -> Modes] :
        view = [v \in Views |-> IF v \in FirstViews
                                THEN [live |-> TRUE, mode |-> mode[v], by |-> Creator]
                                ELSE NoView]
  BY DEF Init
<1>3. Creator \in Users /\ Creator # Nobody
  BY MembersAssumption DEF Nobody
<1>4. view \in [Views -> Row]
  BY <1>2, <1>3, NoReqTyped DEF Row
<1>5. \A v \in Views : v \in Live <=> v \in FirstViews
  BY <1>2 DEF Live, NoView
<1>6. \A v \in Views : /\ v \notin Live => view[v] = NoView
                       /\ v \in Live => view[v].by = Creator /\ v \in KnownIds
  BY <1>1, <1>2, <1>3, <1>5 DEF KnownIds
<1>7. RowsOK
  BY <1>1, <1>3, <1>6 DEF RowsOK, Live
<1>8. RequestsOK /\ NewsOK
  BY <1>1, NoReqShape DEF RequestsOK, NewsOK
<1>9. \A u \in Users : PageOf(u) \in [Views -> Copies \cup {Absent}]
  <2>1. \A v \in Live : v \in Views /\ [mode |-> view[v].mode, by |-> view[v].by] \in Copies
    BY <1>3, <1>4, <1>6 DEF Live, Row, Copies
  <2> QED BY <2>1 DEF PageOf
<1>10. ViewsTypeOK
  BY <1>1, <1>4, <1>9, NoReqTyped, EmptySeq DEF ViewsTypeOK, Row, Entry
<1> QED BY <1>7, <1>8, <1>10 DEF Base

\* The views in one step: a request, a callback or a page.
LEMMA ViewStepKeepsBase == Base /\ ViewStep => Base'
<1> SUFFICES ASSUME Base, ViewStep PROVE Base'
    OBVIOUS
<1>1. ASSUME NEW r \in Requests, Step(r) PROVE Base'
  BY <1>1, ReadRowKeepsBase, WriteRowKeepsBase, TellChangeKeepsBase, WriteBatchKeepsBase,
     InsertViewKeepsBase, CopyViewKeepsBase, ClearModeKeepsBase, FailToClearKeepsBase,
     DeleteRowKeepsBase, TellDeletionKeepsBase, RestoreRowKeepsBase DEF Step
<1> QED BY <1>1, StartKeepsBase, CallbackKeepsBase, ReloadKeepsBase DEF ViewStep

LEMMA BaseStays ==
    ASSUME Base, UNCHANGED viewVars
    PROVE  Base'
BY DEF viewVars, Base, ViewsTypeOK, RowsOK, RequestsOK, NewsOK, Live, KnownIds

LEMMA StepKeepsBase == Base /\ [Next]_vars => Base'
BY ViewStepKeepsBase, BaseStays DEF Next, MemberStep, vars

\* The members take the steps of BoardMembers, and no others.
LEMMA SpecRefines == Spec => MembersSpec
<1>1. Init => MembersInit
  BY DEF Init
<1>2. [Next]_vars => [MembersNext]_memberVars
  BY DEF Next, MemberStep, ViewStep, vars
<1> QED BY <1>1, <1>2, PTL DEF Spec, MembersSpec

(* The rows of the members and of the views, the requests, the callbacks   *)
(* and the pages keep their types.                                         *)
THEOREM ViewsTypeCorrect == Spec => []TypeOK
<1>1. Base => ViewsTypeOK
  BY DEF Base
<1>2. Spec => []MembersTypeOK
  BY SpecRefines, TypeCorrect
<1>3. MembersTypeOK /\ ViewsTypeOK => TypeOK
  BY DEF TypeOK
<1> QED BY <1>1, <1>2, <1>3, InitBase, StepKeepsBase, PTL DEF Spec

(* While views are changed as well, a board keeps a manager, unless a      *)
(* write landed on members its request had not judged.                     *)
THEOREM BoardKeepsManager == Spec => []ManagerRemains
BY SpecRefines, ManagerRemainsHolds

-----------------------------------------------------------------------------
(* The last shared view.                                                   *)
(*                                                                         *)
(* That a shared view remains is not inductive: a request in flight may    *)
(* take one.  The invariant adds what such a request was let through with, *)
(* a shared view besides each one it takes, as long as nobody has crossed  *)
(* it.                                                                     *)

Unexcused(names) == excused \cap names = {}

Spares(v) == Shared \ {v} # {}

Careful(q) ==
    /\ q.at = "read" /\ q.change = "private" => Spares(q.ids[1])
    /\ q.at = "write" /\ Overlay(q.row, q.change).mode = "private" => Spares(q.ids[1])
    /\ q.at = "delete" => Spares(q.ids[1])
    /\ q.at = "batch" /\ q.change = "private" => \A v \in ToSet(q.ids) : Spares(v)

SharedInv ==
    Unexcused({"crossed", "batch"}) =>
      /\ Shared # {}
      /\ \A r \in Requests : ~req[r].crossed => Careful(req[r])

LEMMA SpareStays ==
    ASSUME Shared \subseteq Shared', NEW v, Spares(v)
    PROVE  Spares(v)'
BY DEF Spares

LEMMA CarefulStays ==
    ASSUME Shared \subseteq Shared', NEW x, NEW q, Careful(q), Alike(q, req'[x])
    PROVE  Careful(req[x])'
BY DEF Spares, Careful, Alike

\* A step that takes no shared view from the others.
LEMMA SharedKept ==
    ASSUME SharedInv, NEW r \in Requests, NEW p, Moves(r, p),
           excused \subseteq excused', Shared \subseteq Shared',
           Unexcused({"crossed", "batch"}) /\ ~p.crossed => Careful(p)
    PROVE  SharedInv'
<1> SUFFICES ASSUME Unexcused({"crossed", "batch"})'
             PROVE  Shared' # {} /\ \A x \in Requests : ~req'[x].crossed => Careful(req[x])'
    BY DEF SharedInv
<1>1. Unexcused({"crossed", "batch"})
  BY DEF Unexcused
<1>2. Shared' # {}
  BY <1>1 DEF SharedInv
<1>3. ASSUME NEW x \in Requests, ~req'[x].crossed
      PROVE  Careful(req[x])'
  <2>1. CASE x = r
    <3>1. req'[x] = p
      BY <2>1 DEF Moves
    <3>2. Careful(p)
      BY <1>1, <1>3, <3>1
    <3> QED BY <3>1, <3>2 DEF Careful, Spares
  <2>2. CASE x # r
    <3>1. Alike(req[x], req'[x])
      BY <2>2 DEF Moves
    <3>2. Careful(req[x])
      BY <1>1, <1>3, <3>1 DEF Alike, SharedInv
    <3> QED BY <3>1, <3>2, CarefulStays
  <2> QED BY <2>1, <2>2
<1> QED BY <1>2, <1>3

\* A step that writes `after`, and takes a shared view only if one remains.
LEMMA SharedWritten ==
    ASSUME Base, SharedInv, NEW r \in Requests, NEW after,
           NEW at \in {"idle", "tell", "told"}, Store(r, after, at),
           excused \subseteq excused',
           Unexcused({"crossed", "batch"})' /\ Loses(after) =>
             ~req[r].crossed /\ \E v \in Shared : after[v].live /\ after[v].mode # "private"
    PROVE  SharedInv'
<1>1. req \in [Requests -> Request]
  BY DEF Base, ViewsTypeOK
<1>2. Moves(r, After(req[r], at)) /\ view' = after
  BY <1>1, StoreMoves
<1>3. Shared' = {v \in Views : after[v].live /\ after[v].mode # "private"}
  BY <1>2 DEF Shared, Live
<1>4. \A v \in Shared : v \in Views
  BY DEF Shared, Live
<1>5. ~Loses(after) => Shared \subseteq Shared'
  BY <1>3, <1>4 DEF Loses
<1> SUFFICES ASSUME Unexcused({"crossed", "batch"})'
             PROVE  Shared' # {} /\ \A x \in Requests : ~req'[x].crossed => Careful(req[x])'
    BY DEF SharedInv
<1>6. Unexcused({"crossed", "batch"})
  BY DEF Unexcused
<1>7. Shared' # {}
  BY <1>3, <1>4, <1>5, <1>6 DEF SharedInv
<1>8. ASSUME NEW x \in Requests, ~req'[x].crossed
      PROVE  Careful(req[x])'
  <2>1. CASE x = r
    <3>1. req'[x] = After(req[r], at)
      BY <1>2, <2>1 DEF Moves
    <3>2. req'[x].at = at
      BY <1>1, <3>1, NoReqShape DEF After, Request
    <3> QED BY <3>2 DEF Careful
  <2>2. CASE x # r /\ req[x].at = "idle"
    <3>1. req'[x].at = "idle"
      BY <1>2, <2>2 DEF Moves, Alike
    <3> QED BY <3>1 DEF Careful
  <2>3. CASE x # r /\ req[x].at # "idle"
    <3> DEFINE takes == \E v \in Views : v \in Shared /\ ~(after[v].live /\ after[v].mode # "private")
    <3>1. req'[x] = [req[x] EXCEPT !.crossed = @ \/ takes]
      BY <2>3 DEF Store
    <3>2. ~takes
      <4> DEFINE crossed == req[x].crossed \/ takes
      <4>1. req'[x] = [req[x] EXCEPT !.crossed = crossed]
        BY <3>1
      <4> HIDE DEF crossed
      <4>2. req'[x].crossed = crossed
        BY <1>1, <4>1 DEF Request
      <4> QED BY <1>8, <4>2 DEF crossed
    <3>3. Shared \subseteq Shared'
      BY <1>3, <1>4, <3>2
    <3>4. Alike(req[x], req'[x])
      BY <1>2, <2>3 DEF Moves
    <3>5. Careful(req[x])
      BY <1>6, <1>8, <3>4 DEF Alike, SharedInv
    <3> QED BY <3>3, <3>4, <3>5, CarefulStays
  <2> QED BY <2>1, <2>2, <2>3
<1> QED BY <1>7, <1>8

LEMMA Untouched ==
    ASSUME UNCHANGED view
    PROVE  Shared' = Shared /\ Live' = Live
BY DEF Shared, Live

LEMMA StartKeepsShared ==
    ASSUME Base, SharedInv, NEW r \in Requests, Start(r)
    PROVE  SharedInv'
<1>0. req \in [Requests -> Request] /\ \A v \in Live : v \in Views /\ view[v] \in Row
  BY DEF Base, ViewsTypeOK, Live
<1>1. ASSUME NEW u \in Users, NEW at \in {"read", "batch", "insert", "copy", "delete", "restore"},
             NEW ids \in Seq(Views), NEW change \in Changes, NEW before \in Seq(Row),
             Begin(r, u, at, ids, change, before),
             at = "batch" /\ change = "private" /\ Unexcused({"crossed", "batch"})
               => \A v \in ToSet(ids) : Spares(v),
             at = "read" /\ change = "private" /\ Unexcused({"crossed", "batch"})
               => Spares(ids[1]),
             at = "delete" /\ Unexcused({"crossed", "batch"}) => Spares(ids[1])
      PROVE  SharedInv'
  <2> DEFINE p == Begun(u, at, ids, change, before)
  <2>1. Moves(r, p)
    BY <1>0, <1>1, BeginMoves
  <2>2. p.at = at /\ p.ids = ids /\ p.change = change
    BY DEF Begun, NoReq
  <2>3. Shared' = Shared /\ excused' = excused
    BY <1>1, Untouched DEF Begin
  <2> HIDE DEF p
  <2>4. Unexcused({"crossed", "batch"}) => Careful(p)
    BY <1>1, <2>2 DEF Careful
  <2> QED BY <2>1, <2>3, <2>4, SharedKept
<1>2. ASSUME NEW v \in Live, Unexcused({"crossed", "batch"}), view[v].mode = "private" \/ ~LastShared(v)
      PROVE  Spares(v)
  <2>1. view[v].mode = "private" => v \notin Shared
    BY DEF Shared
  <2>2. view[v].mode # "private" => v \in Shared
    BY DEF Shared
  <2> QED BY <1>2, <2>1, <2>2 DEF Spares, SharedInv, LastShared
<1>3. ASSUME NEW u \in Users, NEW v \in Live, MayPatch(u, v, view[v], "private"),
             Unexcused({"crossed", "batch"})
      PROVE  Spares(v)
  BY <1>2, <1>3 DEF MayPatch, MayMove, Modes
<1>4. ASSUME NEW u \in Users, NEW v \in Live, NEW at \in {"read", "copy", "delete", "restore"},
             NEW change \in Changes, NEW row \in Row,
             Begin(r, u, at, <<v>>, change, <<row>>),
             at = "read" /\ change = "private" /\ Unexcused({"crossed", "batch"}) => Spares(v),
             at = "delete" /\ Unexcused({"crossed", "batch"}) => Spares(v)
      PROVE  SharedInv'
  <2> DEFINE ids == <<v>>
             before == <<row>>
  <2>1. ids \in Seq(Views) /\ before \in Seq(Row) /\ ids[1] = v
    BY <1>0, One
  <2>2. Begin(r, u, at, ids, change, before)
    BY <1>4
  <2> HIDE DEF ids, before
  <2> QED BY <1>1, <1>4, <2>1, <2>2
<1>5. ASSUME NEW u \in Users, NEW v \in Views, NEW change \in Changes,
             PatchView(r, u, v, change)
      PROVE  SharedInv'
  <2>1. v \in Live /\ MayPatch(u, v, view[v], change) /\ Begin(r, u, "read", <<v>>, change, <<view[v]>>)
    BY <1>5 DEF PatchView
  <2>2. change = "private" /\ Unexcused({"crossed", "batch"}) => Spares(v)
    BY <1>3, <2>1
  <2> QED BY <1>0, <1>4, <2>1, <2>2
<1>6. ASSUME NEW u \in Users, NEW v \in Views, NEW w \in Views, NEW change \in Changes,
             v # w, PatchViews(r, u, <<v, w>>, change)
      PROVE  SharedInv'
  <2> DEFINE ids == <<v, w>>
             at == "batch"
  <2>1. ids \in Seq(Views) /\ Len(ids) = 2 /\ ids[1] = v /\ ids[2] = w /\ DOMAIN ids = 1..2
    OBVIOUS
  <2>2. ToSet(ids) = {v, w}
    BY <2>1 DEF ToSet
  <2>3. /\ ToSet(ids) \subseteq Live
        /\ \A x \in ToSet(ids) : MayPatch(u, x, view[x], change)
    BY <1>6 DEF PatchViews
  <2>4. PICK order \in {ids, Reverse(ids)} :
          Begin(r, u, "batch", ids, change, [i \in DOMAIN order |-> view[order[i]]])
    BY <1>6 DEF PatchViews
  <2> DEFINE before == [i \in DOMAIN order |-> view[order[i]]]
  <2>5. before \in Seq(Row)
    <3>1. DOMAIN order = 1..2 /\ \A i \in 1..2 : order[i] \in {v, w}
      BY <2>1, <2>4 DEF Reverse
    <3>2. before \in [1..2 -> Row]
      BY <1>0, <2>2, <2>3, <3>1
    <3> HIDE DEF before
    <3> QED BY <3>2, Listed
  <2>6. Begin(r, u, at, ids, change, before) /\ at = "batch"
    BY <2>4
  <2>7. change = "private" /\ Unexcused({"crossed", "batch"}) => \A x \in ToSet(ids) : Spares(x)
    BY <1>3, <2>3
  <2> HIDE DEF ids, at, before
  <2> QED BY <1>1, <2>1, <2>5, <2>6, <2>7
<1>7. ASSUME NEW u \in Users, NEW mode \in Modes, PostView(r, u, mode)
      PROVE  SharedInv'
  <2> DEFINE at == "insert"
             none == <<>>
  <2>1. at = "insert" /\ Begin(r, u, at, none, mode, none)
    BY <1>7 DEF PostView
  <2>2. none \in Seq(Views) /\ none \in Seq(Row) /\ mode \in Changes
    BY EmptySeq DEF Changes
  <2> HIDE DEF at, none
  <2> QED BY <1>1, <2>1, <2>2
<1>8. ASSUME NEW u \in Users, NEW v \in Views, DuplicateView(r, u, v)
      PROVE  SharedInv'
  <2>1. v \in Live /\ Begin(r, u, "copy", <<v>>, "everyone", <<view[v]>>)
    BY <1>8 DEF DuplicateView
  <2>2. "everyone" \in Changes
    BY DEF Changes, Modes
  <2> QED BY <1>0, <1>4, <2>1, <2>2
<1>9. ASSUME NEW u \in Users, NEW v \in Views,
             DeleteView(r, u, v) \/ DeletePrivateViewAsAdmin(r, u, v)
      PROVE  SharedInv'
  <2>1. /\ v \in Live /\ Begin(r, u, "delete", <<v>>, "config", <<view[v]>>)
        /\ view[v].mode = "private" \/ ~LastShared(v)
    BY <1>9 DEF DeleteView, DeletePrivateViewAsAdmin, MayDelete
  <2>2. "config" \in Changes
    BY DEF Changes
  <2>3. Unexcused({"crossed", "batch"}) => Spares(v)
    BY <1>2, <2>1
  <2> QED BY <1>0, <1>4, <2>1, <2>2, <2>3
<1>10. ASSUME NEW u \in Users, NEW v \in Views, UndeleteView(r, u, v)
      PROVE  SharedInv'
  <2> DEFINE stored == [live |-> TRUE, mode |-> last[v].mode, by |-> last[v].by]
             ids == <<v>>
             before == <<stored>>
             at == "restore"
  <2>1. at = "restore" /\ Begin(r, u, at, ids, "config", before)
    BY <1>10 DEF UndeleteView
  <2>2. stored \in Row /\ "config" \in Changes
    BY DEF Row, Base, ViewsTypeOK, Entry, Changes
  <2>3. ids \in Seq(Views) /\ before \in Seq(Row)
    BY <2>2, One
  <2> HIDE DEF stored, ids, before, at
  <2> QED BY <1>1, <2>1, <2>2, <2>3
<1> QED BY <1>5, <1>6, <1>7, <1>8, <1>9, <1>10 DEF Start

LEMMA ReadRowKeepsShared ==
    ASSUME Base, SharedInv, NEW r \in Requests, ReadRow(r)
    PROVE  SharedInv'
<1> DEFINE q == req[r]
           v == q.ids[1]
           p == [q EXCEPT !.at = "write", !.row = view[v]]
<1>1. /\ q \in Request /\ req \in [Requests -> Request]
      /\ q.at = "read" /\ v \in Views /\ view[v] \in Row
      /\ UNCHANGED <<view, excused>>
      /\ IF v \in Live THEN req' = [req EXCEPT ![r] = p] ELSE Done(r)
  <2>1. q.at = "read"
    BY DEF ReadRow
  <2>2. q \in Request /\ v \in Views
    BY <2>1, NamedView
  <2> QED BY <2>1, <2>2 DEF ReadRow, Base, ViewsTypeOK
<1>2. Shared' = Shared
  BY <1>1, Untouched
<1>3. CASE v \in Live
  <2>1. p \in Request
    BY <1>1 DEF Request
  <2>2. p.at = "write" /\ p.ids = q.ids /\ p.crossed = q.crossed /\ p.row = view[v] /\ p.change = q.change
    BY <1>1 DEF Request
  <2> HIDE DEF p
  <2>3. Moves(r, p)
    BY <1>1, <1>3, <2>1, SetMoves
  <2>4. ASSUME Unexcused({"crossed", "batch"}), ~p.crossed
        PROVE  Careful(p)
    <3>1. Careful(q) /\ Shared # {}
      BY <2>2, <2>4 DEF SharedInv
    <3>2. CASE q.change = "private"
      BY <1>1, <2>2, <3>1, <3>2 DEF Careful
    <3>3. CASE q.change # "private"
      <4>1. Overlay(p.row, p.change).mode = "private" => view[v].mode = "private"
        BY <1>1, <2>2, <3>3, Overlaid DEF Request
      <4>2. view[v].mode = "private" => v \notin Shared
        BY DEF Shared
      <4> QED BY <2>2, <3>1, <4>1, <4>2 DEF Careful, Spares
    <3> QED BY <3>2, <3>3
  <2> QED BY <1>1, <1>2, <2>3, <2>4, SharedKept
<1>4. CASE v \notin Live
  <2>1. Moves(r, NoReq)
    BY <1>1, <1>4, DoneMoves
  <2>2. Careful(NoReq)
    BY NoReqShape DEF Careful
  <2> QED BY <1>1, <1>2, <2>1, <2>2, SharedKept
<1> QED BY <1>3, <1>4

\* A row written over the view v takes no other view.
LEMMA OneLost ==
    ASSUME Base, NEW v \in Views, NEW row, NEW after, after = [view EXCEPT ![v] = row],
           Loses(after)
    PROVE  /\ v \in Shared /\ (~row.live \/ row.mode = "private")
           /\ \A w \in Shared \ {v} : after[w].live /\ after[w].mode # "private"
<1>1. \A w \in Views : after[w] = IF w = v THEN row ELSE view[w]
  BY DEF Base, ViewsTypeOK
<1>2. \A w \in Shared : w \in Views /\ view[w].live /\ view[w].mode # "private"
  BY DEF Shared, Live
<1> QED BY <1>1, <1>2 DEF Loses

LEMMA WriteRowKeepsShared ==
    ASSUME Base, SharedInv, NEW r \in Requests, WriteRow(r)
    PROVE  SharedInv'
<1> DEFINE q == req[r]
           v == q.ids[1]
<1>1. q.at = "write" /\ v \in Views /\ q \in Request
  BY NamedView DEF WriteRow
<1>2. PICK row \in Row :
        /\ Patched(q, row)
        /\ Store(r, [view EXCEPT ![v] = row], "tell")
        /\ excused' = excused \cup
                      (When(view[v] # q.row \/ view[v] # q.before[1], "stale")
                       \cup When(q.crossed /\ Loses([view EXCEPT ![v] = row]), "crossed"))
  BY RowPatched
<1> DEFINE after == [view EXCEPT ![v] = row]
<1>3. ASSUME Unexcused({"crossed", "batch"})', Loses(after)
      PROVE  ~q.crossed /\ \E w \in Shared : after[w].live /\ after[w].mode # "private"
  <2>1. ~q.crossed
    BY <1>2, <1>3 DEF Unexcused, When
  <2>2. /\ v \in Shared /\ (~row.live \/ row.mode = "private")
        /\ \A w \in Shared \ {v} : after[w].live /\ after[w].mode # "private"
    <3> HIDE DEF v
    <3> QED BY <1>1, <1>3, OneLost
  <2>3. v \in Live /\ view[v] \in Row
    BY <1>1, <2>2 DEF Shared, Base, ViewsTypeOK
  <2>4. row = [view[v] EXCEPT !.mode = Overlay(q.row, q.change).mode]
    BY <1>2, <2>3 DEF Patched
  <2>5. Overlay(q.row, q.change).mode = "private"
    BY <2>2, <2>3, <2>4 DEF Row, Live
  <2>6. Unexcused({"crossed", "batch"})
    BY <1>2, <1>3 DEF Unexcused
  <2>7. Spares(v)
    BY <1>1, <2>1, <2>5, <2>6 DEF SharedInv, Careful
  <2> QED BY <2>1, <2>2, <2>7 DEF Spares
<1>4. excused \subseteq excused'
  BY <1>2
<1> HIDE DEF after
<1>5. Store(r, after, "tell")
  BY <1>2 DEF after
<1> QED BY <1>3, <1>4, <1>5, SharedWritten

LEMMA DeleteRowKeepsShared ==
    ASSUME Base, SharedInv, NEW r \in Requests, DeleteRow(r)
    PROVE  SharedInv'
<1> DEFINE q == req[r]
           v == q.ids[1]
           after == [view EXCEPT ![v] = NoView]
<1>1. q.at = "delete" /\ v \in Views
  BY NamedView DEF DeleteRow
<1>2. /\ Store(r, after, "told")
      /\ excused' = excused \cup
                      (When(v \in Live /\ view[v] # q.before[1], "stale")
                       \cup When(q.crossed /\ Loses(after), "crossed"))
  BY DEF DeleteRow, Excuse
<1>3. ASSUME Unexcused({"crossed", "batch"})', Loses(after)
      PROVE  ~q.crossed /\ \E w \in Shared : after[w].live /\ after[w].mode # "private"
  <2>1. ~q.crossed
    BY <1>2, <1>3 DEF Unexcused, When
  <2>2. \A w \in Shared \ {v} : after[w].live /\ after[w].mode # "private"
    <3> HIDE DEF v
    <3> QED BY <1>1, <1>3, OneLost
  <2>3. Unexcused({"crossed", "batch"})
    BY <1>2, <1>3 DEF Unexcused
  <2>4. Spares(v)
    BY <1>1, <2>1, <2>3 DEF SharedInv, Careful
  <2> QED BY <2>1, <2>2, <2>4 DEF Spares
<1>4. excused \subseteq excused'
  BY <1>2
<1> HIDE DEF after
<1> QED BY <1>2, <1>3, <1>4, SharedWritten

\* At most one view is taken, or the batch is excused.
LEMMA AtMostOne ==
    ASSUME NEW S, IsFiniteSet(S), ~(Cardinality(S) > 1), NEW x \in S, NEW y \in S
    PROVE  x = y
<1> SUFFICES ASSUME x # y PROVE FALSE
    OBVIOUS
<1>1. Cardinality({x}) = 1 /\ IsFiniteSet({x})
  BY FS_Singleton
<1>2. Cardinality({x} \cup {y}) = 2
  BY <1>1, FS_AddElement
<1>3. Cardinality({x} \cup {y}) <= Cardinality(S)
  BY FS_Subset
<1>4. Cardinality(S) \in Nat
  BY FS_CardinalityType
<1> QED BY <1>2, <1>3, <1>4

LEMMA WriteBatchKeepsShared ==
    ASSUME Base, SharedInv, NEW r \in Requests, WriteBatch(r)
    PROVE  SharedInv'
<1> DEFINE q == req[r]
           after == BatchRows(q)
           taken == {v \in Shared : after[v].mode = "private"}
<1>1. CASE ~(ToSet(q.ids) \subseteq Live)
  <2>1. Done(r) /\ UNCHANGED <<view, excused>>
    BY <1>1 DEF WriteBatch
  <2>2. Moves(r, NoReq) /\ Shared' = Shared
    BY <2>1, DoneMoves, Untouched DEF Base, ViewsTypeOK
  <2>3. Careful(NoReq)
    BY NoReqShape DEF Careful
  <2> QED BY <2>1, <2>2, <2>3, SharedKept
<1>2. CASE ToSet(q.ids) \subseteq Live
  <2>1. /\ q.at = "batch" /\ q \in Request
        /\ Store(r, after, "idle") /\ view' = after /\ Live' = Live
    BY <1>2, BatchWritten
  <2>2. /\ excused \subseteq excused'
        /\ q.crossed /\ Loses(after) => "crossed" \in excused'
        /\ Cardinality(taken) > 1 => "batch" \in excused'
    BY <1>2 DEF WriteBatch, Excuse, When, BatchRows
  <2>3. \A v \in Shared : v \in Views /\ view[v].live /\ view[v].mode # "private"
    BY DEF Shared, Live
  <2>4. \A v \in Shared : after[v].live
    BY <2>1, <2>3 DEF Live
  <2>5. ASSUME Unexcused({"crossed", "batch"})', Loses(after)
        PROVE  ~q.crossed /\ \E w \in Shared : after[w].live /\ after[w].mode # "private"
    <3>1. ~q.crossed /\ ~(Cardinality(taken) > 1)
      BY <2>2, <2>5 DEF Unexcused
    <3>2. PICK v \in Shared : after[v].mode = "private"
      BY <2>4, <2>5 DEF Loses
    <3>3. v \in taken /\ v \in ToSet(q.ids)
      BY <2>3, <3>2 DEF BatchRows
    <3>4. q.change = "private"
      <4>1. after[v] = Overlay(view[v], q.change) /\ view[v] \in Row /\ q.change \in Changes
        BY <2>1, <2>3, <3>3 DEF BatchRows, Base, ViewsTypeOK, Request
      <4> QED BY <2>3, <3>2, <4>1, Overlaid
    <3>5. Unexcused({"crossed", "batch"})
      BY <2>2, <2>5 DEF Unexcused
    <3>6. Spares(v)
      BY <2>1, <3>1, <3>3, <3>4, <3>5 DEF SharedInv, Careful
    <3>7. IsFiniteSet(taken)
      <4>1. taken \subseteq Views
        BY <2>3
      <4> HIDE DEF taken
      <4> QED BY <4>1, ViewsAssumption, FS_Subset
    <3>8. PICK w \in Shared : w # v
      BY <3>6 DEF Spares
    <3>9. w \notin taken
      <4> HIDE DEF taken
      <4> QED BY <3>1, <3>3, <3>7, <3>8, AtMostOne
    <3> QED BY <2>4, <3>1, <3>8, <3>9
  <2> HIDE DEF after
  <2> QED BY <2>1, <2>2, <2>5, SharedWritten
<1> QED BY <1>1, <1>2

\* A row written over a view that is gone, or one that is everyone's, takes none.
LEMMA NoneLost ==
    ASSUME Base, NEW v \in Views, NEW row, NEW after, after = [view EXCEPT ![v] = row],
           v \notin Live \/ (row.live /\ row.mode # "private")
    PROVE  ~Loses(after) /\ (view' = after => Shared \subseteq Shared')
<1>1. \A w \in Views : after[w] = IF w = v THEN row ELSE view[w]
  BY DEF Base, ViewsTypeOK
<1>2. \A w \in Shared : w \in Views /\ w \in Live /\ view[w].live /\ view[w].mode # "private"
  BY DEF Shared, Live
<1>3. \A w \in Shared : after[w].live /\ after[w].mode # "private"
  BY <1>1, <1>2
<1> QED BY <1>2, <1>3 DEF Loses, Shared, Live

\* A request ends and writes no row.
LEMMA DoneKeepsShared ==
    ASSUME Base, SharedInv, NEW r \in Requests, Done(r), UNCHANGED view,
           excused \subseteq excused'
    PROVE  SharedInv'
<1>1. Moves(r, NoReq) /\ Shared' = Shared
  BY DoneMoves, Untouched DEF Base, ViewsTypeOK
<1>2. Careful(NoReq)
  BY NoReqShape DEF Careful
<1> QED BY <1>1, <1>2, SharedKept

\* A request writes a row that takes no shared view.
LEMMA StoreKeepsShared ==
    ASSUME Base, SharedInv, NEW r \in Requests, NEW v \in Views, NEW row,
           NEW at \in {"idle", "tell", "told"},
           Store(r, [view EXCEPT ![v] = row], at), excused \subseteq excused',
           v \notin Live \/ (row.live /\ row.mode # "private")
    PROVE  SharedInv'
<1> DEFINE after == [view EXCEPT ![v] = row]
<1>1. ~Loses(after)
  BY NoneLost
<1>2. Store(r, after, at)
  OBVIOUS
<1> HIDE DEF after
<1> QED BY <1>1, <1>2, SharedWritten

LEMMA InsertViewKeepsShared ==
    ASSUME Base, SharedInv, NEW r \in Requests, InsertView(r)
    PROVE  SharedInv'
<1> DEFINE row == [live |-> TRUE, mode |-> req[r].change, by |-> req[r].user]
           at == "idle"
<1>1. PICK v \in Views : Fresh(v) /\ Store(r, [view EXCEPT ![v] = row], at)
  BY DEF InsertView
<1>2. v \notin Live /\ excused' = excused /\ at \in {"idle"}
  BY <1>1 DEF Fresh, InsertView
<1> HIDE DEF row, at
<1> QED BY <1>1, <1>2, StoreKeepsShared

LEMMA CopyViewKeepsShared ==
    ASSUME Base, SharedInv, NEW r \in Requests, CopyView(r)
    PROVE  SharedInv'
<1> DEFINE q == req[r]
           row == [view[q.ids[1]] EXCEPT !.by = q.user]
<1>1. excused' = excused
  BY DEF CopyView
<1>2. CASE q.ids[1] \notin Live
  BY <1>1, <1>2, DoneKeepsShared DEF CopyView
<1>3. CASE q.ids[1] \in Live
  <2>1. PICK v \in Views :
          /\ Fresh(v)
          /\ view' = [view EXCEPT ![v] = row]
          /\ \/ Done(r)
             \/ req' = [req EXCEPT ![r].at = "clear", ![r].ids = <<v>>]
    BY <1>3 DEF CopyView
  <2>2. v \notin Live
    BY <2>1 DEF Fresh
  <2>3. Shared \subseteq Shared'
    <3> HIDE DEF row
    <3> QED BY <2>1, <2>2, NoneLost
  <2>4. CASE Done(r)
    <3>1. Moves(r, NoReq)
      BY <2>4, DoneMoves DEF Base, ViewsTypeOK
    <3>2. Careful(NoReq)
      BY NoReqShape DEF Careful
    <3> QED BY <1>1, <2>3, <3>1, <3>2, SharedKept
  <2>5. CASE req' = [req EXCEPT ![r].at = "clear", ![r].ids = <<v>>]
    <3> DEFINE ids == <<v>>
               p == [q EXCEPT !.at = "clear", !.ids = ids]
    <3>1. ids \in Seq(Views)
      BY One
    <3>2. q \in Request /\ req \in [Requests -> Request]
      BY DEF Base, ViewsTypeOK
    <3>3. req' = [req EXCEPT ![r] = p]
      BY <2>5, <3>2
    <3> HIDE DEF ids
    <3>4. p \in Request /\ p.at = "clear"
      BY <3>1, <3>2 DEF Request
    <3> HIDE DEF p
    <3>5. Moves(r, p) /\ Careful(p)
      BY <3>2, <3>3, <3>4, SetMoves DEF Careful
    <3> QED BY <1>1, <2>3, <3>5, SharedKept
  <2> QED BY <2>1, <2>4, <2>5
<1> QED BY <1>2, <1>3

LEMMA ClearModeKeepsShared ==
    ASSUME Base, SharedInv, NEW r \in Requests, ClearMode(r)
    PROVE  SharedInv'
<1> DEFINE v == req[r].ids[1]
           row == [view[v] EXCEPT !.mode = "everyone"]
           at == "idle"
<1>1. excused' = excused /\ v \in Views
  BY NamedView DEF ClearMode
<1>2. CASE v \notin Live
  BY <1>1, <1>2, DoneKeepsShared DEF ClearMode
<1>3. CASE v \in Live
  <2>1. Store(r, [view EXCEPT ![v] = row], at) /\ at \in {"idle"}
    BY <1>3 DEF ClearMode
  <2>2. row.live /\ row.mode # "private"
    BY <1>1, <1>3 DEF Base, ViewsTypeOK, Row, Live
  <2> HIDE DEF v, row, at
  <2> QED BY <1>1, <2>1, <2>2, StoreKeepsShared
<1> QED BY <1>2, <1>3

LEMMA RestoreRowKeepsShared ==
    ASSUME Base, SharedInv, NEW r \in Requests, RestoreRow(r)
    PROVE  SharedInv'
<1> DEFINE v == req[r].ids[1]
           row == [live |-> TRUE, mode |-> last[v].mode, by |-> last[v].by]
           at == "tell"
<1>1. req[r].at = "restore" /\ v \in Views
  BY NamedView DEF RestoreRow
<1>2. CASE last[v].gone
  <2>1. /\ Store(r, [view EXCEPT ![v] = row], at) /\ at \in {"tell"}
        /\ excused \subseteq excused'
    BY <1>2 DEF RestoreRow, Excuse
  <2>2. v \notin Live
    BY <1>1, <1>2 DEF Base, RowsOK
  <2> HIDE DEF v, row, at
  <2> QED BY <1>1, <2>1, <2>2, StoreKeepsShared
<1>3. CASE ~last[v].gone
  <2> DEFINE p == [req[r] EXCEPT !.at = "tell"]
  <2>1. Goto(r, "tell") /\ UNCHANGED <<view, excused>>
    BY <1>3 DEF RestoreRow
  <2>2. Moves(r, p) /\ Shared' = Shared
    BY <2>1, GotoMoves, Untouched DEF Base, ViewsTypeOK
  <2>3. p.at = "tell"
    BY DEF Base, ViewsTypeOK, Request
  <2> HIDE DEF p
  <2>4. Careful(p)
    BY <2>3 DEF Careful
  <2> QED BY <2>1, <2>2, <2>4, SharedKept
<1> QED BY <1>2, <1>3

LEMMA SharedStays ==
    ASSUME SharedInv, UNCHANGED <<view, req>>, excused \subseteq excused'
    PROVE  SharedInv'
<1>1. Shared' = Shared
  BY Untouched
<1>2. Unexcused({"crossed", "batch"})' => Unexcused({"crossed", "batch"})
  BY DEF Unexcused
<1> QED BY <1>1, <1>2 DEF SharedInv, Careful, Spares

LEMMA StepKeepsShared == Base /\ SharedInv /\ [Next]_vars => SharedInv'
<1> SUFFICES ASSUME Base, SharedInv, [Next]_vars PROVE SharedInv'
    OBVIOUS
<1>1. ASSUME NEW r \in Requests, Step(r) PROVE SharedInv'
  <2>1. CASE TellChange(r) \/ TellDeletion(r) \/ FailToClear(r)
    <3>1. Done(r) /\ UNCHANGED view /\ excused \subseteq excused'
      BY <2>1 DEF TellChange, TellDeletion, FailToClear, Excuse
    <3> QED BY <3>1, DoneKeepsShared
  <2> QED BY <1>1, <2>1, ReadRowKeepsShared, WriteRowKeepsShared, WriteBatchKeepsShared,
     InsertViewKeepsShared, CopyViewKeepsShared, ClearModeKeepsShared,
     DeleteRowKeepsShared, RestoreRowKeepsShared DEF Step
<1>2. ASSUME NEW i \in DOMAIN queue, Callback(i) PROVE SharedInv'
  BY <1>2, SharedStays DEF Callback, Excuse
<1>3. ASSUME NEW u \in Users, Reload(u) PROVE SharedInv'
  BY <1>3, SharedStays DEF Reload
<1>4. CASE UNCHANGED viewVars
  BY <1>4, SharedStays DEF viewVars
<1>5. CASE ViewStep
  BY <1>1, <1>2, <1>3, <1>5, StartKeepsShared DEF ViewStep
<1> QED BY <1>4, <1>5 DEF Next, MemberStep, vars

LEMMA InitShared == Init => SharedInv
<1> SUFFICES ASSUME Init PROVE SharedInv
    OBVIOUS
<1>1. PICK mode \in [FirstViews -> Modes] :
        /\ \E v \in FirstViews : mode[v] # "private"
        /\ view = [v \in Views |-> IF v \in FirstViews
                                   THEN [live |-> TRUE, mode |-> mode[v], by |-> Creator]
                                   ELSE NoView]
  BY DEF Init
<1>2. PICK v \in FirstViews : mode[v] # "private"
  BY <1>1
<1>3. v \in Views
  BY ViewsAssumption
<1>4. v \in Shared
  BY <1>1, <1>2, <1>3 DEF Shared, Live
<1>5. \A r \in Requests : Careful(req[r])
  BY NoReqShape DEF Init, Careful
<1> QED BY <1>4, <1>5 DEF SharedInv

(* The board keeps a view the others can see, whatever requests on views   *)
(* and members come and overlap, but for two that were each let through on *)
(* the strength of the other's view, a batch that takes several, and a     *)
(* patch that writes back a row it read before.                            *)
THEOREM SharedViewRemainsHolds == Spec => []SharedViewRemains
<1>1. SharedInv => SharedViewRemains
  BY DEF SharedInv, SharedViewRemains, Unexcused
<1> QED BY <1>1, InitBase, StepKeepsBase, InitShared, StepKeepsShared, PTL DEF Spec

-----------------------------------------------------------------------------
(* The pages agree.                                                        *)
(*                                                                         *)
(* While requests and callbacks are under way a page may be behind.  The   *)
(* invariant says by what: for every user and view, either the last news   *)
(* in the queue that reaches the user's copy gives it what is true (or     *)
(* there is none and the copy is true already), or a request has yet to    *)
(* queue such news.                                                        *)

PageExcuses == {"stale", "by position", "cut short", "told late", "untold", "half done"}

\* What the page of u is to hold of v.
Truth(u, v) == IF v \in Live THEN Shown(u, view[v]) ELSE Absent

\* The news changes the copy of v on the page of u, now that `truth` is true:
\* the callback of a batch loads the views again.
Touches(news, u, v, truth) ==
    \/ /\ news.kind = "changed" /\ v = news.ids[1]
       /\ Reaches(u, news.before[1], news.after)
    \/ /\ news.kind = "deleted" /\ v = news.ids[1]
       /\ Hears(u, news.before[1])
    \/ /\ news.kind = "batch"
       /\ \E i \in 1..Len(news.ids) :
            v = news.ids[i] /\ (truth # Absent \/ news.before[i].mode # "private")

\* What the copy is after it.
Gives(news, u, truth) ==
    IF news.kind = "changed" THEN Shown(u, news.after)
    ELSE IF news.kind = "deleted" THEN Absent ELSE truth

\* The copy will be true once the news in q is called back, in order.
Settles(q, copy, u, v, truth) ==
    \E i \in 0..Len(q) :
      /\ i = 0 => copy = truth
      /\ i # 0 => Touches(q[i], u, v, truth) /\ Gives(q[i], u, truth) = truth
      /\ \A j \in i + 1..Len(q) : Touches(q[j], u, v, truth) => Gives(q[j], u, truth) = truth

\* The request has yet to queue news that makes the copy true.
Announces(q, u, v) ==
    \/ /\ q.at = "tell" /\ v = q.ids[1]
       /\ Truth(u, v) # Absent \/ q.before[1].mode # "private"
    \/ q.at = "clear" /\ v = q.ids[1] /\ Truth(u, v) # Absent
    \/ /\ q.at = "told" /\ v = q.ids[1] /\ v \notin Live
       /\ Hears(u, q.before[1]) /\ Hears(u, last[v])

Pending(u, v) == \E r \in Requests : Announces(req[r], u, v)

Kept(u, v) == Settles(queue, client[u][v], u, v, Truth(u, v)) \/ Pending(u, v)

PagesInv == Unexcused(PageExcuses) => \A u \in Users, v \in Views : Kept(u, v)

-----------------------------------------------------------------------------
(* Facts about the queue alone.                                            *)

LEMMA TouchesNamed ==
    ASSUME NEW news \in News, NewsShape(news), NEW u, NEW v, NEW truth,
           Touches(news, u, v, truth)
    PROVE  v \in ToSet(news.ids)
<1>1. DOMAIN news.ids = 1..Len(news.ids) /\ Len(news.ids) \in Nat
  BY LenProperties DEF News
<1>2. news.kind # "batch" => 1 \in 1..Len(news.ids)
  BY <1>1 DEF NewsShape
<1> QED BY <1>1, <1>2 DEF Touches, ToSet

LEMMA SettledByCopy ==
    ASSUME NEW q \in Seq(News), NEW copy, NEW u, NEW v, NEW truth,
           Settles(q, copy, u, v, truth)
    PROVE  Settles(q, truth, u, v, truth)
BY DEF Settles

LEMMA SettlesAppended ==
    ASSUME NEW q \in Seq(News), NEW news \in News, NEW copy, NEW u, NEW v, NEW truth,
           Settles(q, copy, u, v, truth),
           Touches(news, u, v, truth) => Gives(news, u, truth) = truth
    PROVE  Settles(Append(q, news), copy, u, v, truth)
<1> DEFINE s == Append(q, news)
<1>1. /\ Len(s) = Len(q) + 1 /\ s[Len(q) + 1] = news
      /\ \A i \in 1..Len(q) : s[i] = q[i]
  BY AppendProperties
<1>2. Len(q) \in Nat
  BY LenProperties
<1>3. PICK i \in 0..Len(q) :
        /\ i = 0 => copy = truth
        /\ i # 0 => Touches(q[i], u, v, truth) /\ Gives(q[i], u, truth) = truth
        /\ \A j \in i + 1..Len(q) : Touches(q[j], u, v, truth) => Gives(q[j], u, truth) = truth
  BY DEF Settles
<1> HIDE DEF s
<1>4. ASSUME NEW j \in i + 1..Len(s), Touches(s[j], u, v, truth)
      PROVE  Gives(s[j], u, truth) = truth
  <2>1. CASE j = Len(q) + 1
    BY <1>1, <1>4, <2>1
  <2>2. CASE j # Len(q) + 1
    <3>1. j \in i + 1..Len(q) /\ j \in 1..Len(q)
      BY <1>1, <1>2, <2>2
    <3> QED BY <1>1, <1>3, <1>4, <3>1
  <2> QED BY <2>1, <2>2
<1>5. i \in 0..Len(s) /\ (i # 0 => i \in 1..Len(q))
  BY <1>1, <1>2
<1>6. i # 0 => Touches(s[i], u, v, truth) /\ Gives(s[i], u, truth) = truth
  BY <1>1, <1>3, <1>5
<1>7. Settles(s, copy, u, v, truth)
  BY <1>3, <1>4, <1>5, <1>6 DEF Settles
<1> QED BY <1>7 DEF s

LEMMA SettlesByLast ==
    ASSUME NEW q \in Seq(News), NEW news \in News, NEW copy, NEW u, NEW v, NEW truth,
           Touches(news, u, v, truth), Gives(news, u, truth) = truth
    PROVE  Settles(Append(q, news), copy, u, v, truth)
<1> DEFINE s == Append(q, news)
           i == Len(q) + 1
<1>1. Len(s) = i /\ s[i] = news
  BY AppendProperties
<1>2. Len(q) \in Nat
  BY LenProperties
<1> HIDE DEF s
<1>3. i \in 0..Len(s) /\ i # 0 /\ i + 1..Len(s) = {}
  BY <1>1, <1>2
<1> HIDE DEF i
<1>4. Settles(s, copy, u, v, truth)
  BY <1>1, <1>3 DEF Settles
<1> QED BY <1>4 DEF s

LEMMA SettlesRemoved ==
    ASSUME NEW q \in Seq(News), 1 \in 1..Len(q), NEW copy, NEW u, NEW v, NEW truth,
           Settles(q, copy, u, v, truth), NEW next,
           next = IF Touches(q[1], u, v, truth) THEN Gives(q[1], u, truth) ELSE copy
    PROVE  Settles(RemoveAt(q, 1), next, u, v, truth)
<1> DEFINE s == RemoveAt(q, 1)
<1>1. Len(q) \in Nat /\ Len(q) >= 1
  BY LenProperties
<1>2. Len(s) = Len(q) - 1 /\ \A j \in 1..Len(q) - 1 : s[j] = q[j + 1]
  <2>1. /\ Len(s) = Len(q) - 1
        /\ \A j \in 1..Len(q) - 1 : s[j] = IF j < 1 THEN q[j] ELSE q[j + 1]
    BY Removed
  <2> QED BY <1>1, <2>1
<1>3. PICK i \in 0..Len(q) :
        /\ i = 0 => copy = truth
        /\ i # 0 => Touches(q[i], u, v, truth) /\ Gives(q[i], u, truth) = truth
        /\ \A j \in i + 1..Len(q) : Touches(q[j], u, v, truth) => Gives(q[j], u, truth) = truth
  BY DEF Settles
<1> HIDE DEF s
<1> DEFINE k == IF i = 0 THEN 0 ELSE i - 1
<1>4. k \in 0..Len(s) /\ k \in Int /\ (k # 0 => k \in 1..Len(q) - 1 /\ k + 1 = i)
  BY <1>1, <1>2
<1>5. k = 0 => next = truth
  <2>1. CASE i = 0
    <3>1. 1 \in i + 1..Len(q)
      BY <1>1, <2>1
    <3> QED BY <1>3, <2>1, <3>1
  <2>2. CASE i = 1
    BY <1>3, <2>2
  <2>3. i = 0 \/ i = 1 \/ k # 0
    BY <1>1
  <2> QED BY <2>1, <2>2, <2>3
<1>6. \A j \in k + 1..Len(s) : j + 1 \in i + 1..Len(q) /\ s[j] = q[j + 1]
  BY <1>1, <1>2
<1>7. k # 0 => Touches(s[k], u, v, truth) /\ Gives(s[k], u, truth) = truth
  <2>1. ASSUME k # 0 PROVE s[k] = q[i] /\ i # 0
    BY <1>1, <1>2, <1>4, <2>1
  <2> QED BY <1>3, <2>1
<1> HIDE DEF k
<1>8. \A j \in k + 1..Len(s) : Touches(s[j], u, v, truth) => Gives(s[j], u, truth) = truth
  BY <1>3, <1>6
<1>9. Settles(s, next, u, v, truth)
  BY <1>4, <1>5, <1>7, <1>8 DEF Settles
<1> QED BY <1>9 DEF s

\* Of a view that no news names, the copy is true already.
LEMMA SettlesUnnamed ==
    ASSUME NEW q \in Seq(News), NEW u, NEW v, NEW copy, NEW truth,
           \A i \in 1..Len(q) : NewsShape(q[i]) /\ v \notin ToSet(q[i].ids)
    PROVE  Settles(q, copy, u, v, truth) <=> copy = truth
<1>1. Len(q) \in Nat
  BY LenProperties
<1>2. \A i \in 1..Len(q) : ~Touches(q[i], u, v, truth)
  BY ElementOfSeq, TouchesNamed
<1>3. \A i \in 0..Len(q) : i # 0 => i \in 1..Len(q)
  BY <1>1
<1>4. ASSUME Settles(q, copy, u, v, truth) PROVE copy = truth
  BY <1>2, <1>3, <1>4 DEF Settles
<1>5. ASSUME copy = truth PROVE Settles(q, copy, u, v, truth)
  <2>1. 0 \in 0..Len(q) /\ \A j \in 0 + 1..Len(q) : j \in 1..Len(q)
    BY <1>1
  <2> QED BY <1>2, <1>5, <2>1 DEF Settles
<1> QED BY <1>4, <1>5

-----------------------------------------------------------------------------
(* Facts about the steps.                                                  *)

\* A user hears about a view that is there just when the truth is a copy.
LEMMA TruthHeard ==
    ASSUME Base, NEW u \in Users, NEW v \in Views
    PROVE  /\ Truth(u, v) # Absent <=> v \in Live /\ Hears(u, view[v])
           /\ Truth(u, v) = PageOf(u)[v]
<1>1. ASSUME v \in Live PROVE [mode |-> view[v].mode, by |-> view[v].by] # Absent
  <2>1. view[v].by \in Users
    BY <1>1 DEF Base, RowsOK
  <2>2. view[v].by # Nobody
    BY <2>1, MembersAssumption DEF Nobody
  <2> QED BY <2>2 DEF Absent
<1> QED BY <1>1 DEF Truth, Shown, PageOf

LEMMA TruthStays ==
    ASSUME NEW u \in Users, NEW v \in Views, view'[v] = view[v]
    PROVE  /\ Truth(u, v)' = Truth(u, v)
           /\ v \in Live' <=> v \in Live
BY DEF Truth, Live, Shown, Hears

\* The requests but r are as they were.
Others(r) == \A x \in Requests : x # r => Alike(req[x], req'[x])

LEMMA PendingStays ==
    ASSUME NEW r \in Requests, Others(r), NEW u \in Users, NEW v \in Views,
           ~Announces(req[r], u, v), Pending(u, v), Truth(u, v)' = Truth(u, v),
           v \notin Live /\ Hears(u, last[v]) => v \notin Live' /\ last'[v] = last[v]
    PROVE  Pending(u, v)'
<1>1. PICK x \in Requests : Announces(req[x], u, v)
  BY DEF Pending
<1>2. x # r
  BY <1>1
<1>3. Alike(req[x], req'[x])
  BY <1>2 DEF Others
<1>4. Announces(req[x], u, v)'
  BY <1>1, <1>3 DEF Announces, Alike, Hears
<1> QED BY <1>4 DEF Pending

\* Nothing happened to v and to the copy of u.
LEMMA KeptElsewhere ==
    ASSUME Base, NEW r \in Requests, Others(r),
           NEW u \in Users, NEW v \in Views, Kept(u, v), ~Announces(req[r], u, v),
           view'[v] = view[v], last'[v] = last[v], client'[u][v] = client[u][v],
           \/ queue' = queue
           \/ \E news \in News : /\ queue' = Append(queue, news)
                                 /\ NewsShape(news) /\ v \notin ToSet(news.ids)
    PROVE  Kept(u, v)'
<1>1. Truth(u, v)' = Truth(u, v) /\ (v \in Live' <=> v \in Live)
  BY TruthStays
<1>2. queue \in Seq(News)
  BY DEF Base, ViewsTypeOK
<1>3. CASE Pending(u, v)
  BY <1>1, <1>3, PendingStays DEF Kept
<1>4. CASE Settles(queue, client[u][v], u, v, Truth(u, v))
  <2>1. Settles(queue', client[u][v], u, v, Truth(u, v))
    BY <1>2, <1>4, TouchesNamed, SettlesAppended
  <2> QED BY <1>1, <2>1 DEF Kept
<1> QED BY <1>3, <1>4 DEF Kept

\* The request was not about to announce anything.
LEMMA Quiet ==
    ASSUME NEW q, q.at \notin {"tell", "clear", "told"}, NEW u, NEW v
    PROVE  ~Announces(q, u, v)
BY DEF Announces

LEMMA QuietKept ==
    ASSUME Base, NEW r \in Requests, Others(r), req[r].at \notin {"tell", "clear", "told"},
           UNCHANGED <<view, last, queue, client>>, NEW u \in Users, NEW v \in Views, Kept(u, v)
    PROVE  Kept(u, v)'
BY Quiet, KeptElsewhere

\* A request that ends.
LEMMA DoneOthers ==
    ASSUME Base, NEW r \in Requests, Done(r)
    PROVE  Others(r)
BY DoneMoves DEF Base, ViewsTypeOK, Moves, Others

LEMMA StartKeepsPages ==
    ASSUME Base, NEW r \in Requests, Start(r), NEW u \in Users, NEW v \in Views, Kept(u, v)
    PROVE  Kept(u, v)'
<1>1. PICK x, at, ids, change, before : Begin(r, x, at, ids, change, before)
  BY DEF Start, PatchView, PatchViews, PostView, DuplicateView, DeleteView,
     DeletePrivateViewAsAdmin, UndeleteView
<1>2. req[r].at = "idle"
  BY DEF Start, PatchView, PatchViews, PostView, DuplicateView, DeleteView,
     DeletePrivateViewAsAdmin, UndeleteView, Starts
<1>3. UNCHANGED <<view, last, queue, client>>
  BY <1>1 DEF Begin
<1>4. Others(r)
  BY <1>1 DEF Begin, Others, Alike, Base, ViewsTypeOK
<1> QED BY <1>2, <1>3, <1>4, QuietKept

LEMMA ReadRowKeepsPages ==
    ASSUME Base, NEW r \in Requests, ReadRow(r), NEW u \in Users, NEW v \in Views, Kept(u, v)
    PROVE  Kept(u, v)'
<1>1. req[r].at = "read" /\ UNCHANGED <<view, last, queue, client>>
  BY DEF ReadRow
<1>2. Others(r)
  BY DEF ReadRow, Done, Others, Alike, Base, ViewsTypeOK
<1> QED BY <1>1, <1>2, QuietKept

\* The views that r does not name, when it writes at most the row of w.
LEMMA OtherViewKept ==
    ASSUME Base, NEW r \in Requests, Others(r), NEW w \in Views, NEW row,
           view' = [view EXCEPT ![w] = row] \/ view' = view,
           \A x \in Views : x # w => last'[x] = last[x],
           req[r].at \notin {"idle", "batch", "insert", "copy"}, req[r].ids[1] = w,
           queue' = queue, client' = client,
           NEW u \in Users, NEW v \in Views, v # w, Kept(u, v)
    PROVE  Kept(u, v)'
<1>1. view'[v] = view[v]
  BY DEF Base, ViewsTypeOK
<1>2. ~Announces(req[r], u, v)
  BY DEF Announces
<1> QED BY <1>1, <1>2, KeptElsewhere

\* The truth of a view that is patched, for a user the change does not reach.
LEMMA UnheardPatch ==
    ASSUME Base, NEW v \in Views, v \in Live, NEW row \in Row, row.by = view[v].by, row.live,
           view' = [view EXCEPT ![v] = row],
           NEW u \in Users, ~Hears(u, row), view[v].mode = "private"
    PROVE  Truth(u, v)' = Absent /\ Truth(u, v) = Absent /\ v \in Live'
<1>1. view'[v] = row /\ v \in Live'
  BY DEF Base, ViewsTypeOK, Live
<1>2. ~Hears(u, view[v])
  BY DEF Hears
<1> QED BY <1>1, <1>2 DEF Truth, Shown, Hears

LEMMA WriteRowKeepsPages ==
    ASSUME Base, NEW r \in Requests, WriteRow(r), "stale" \notin excused',
           NEW u \in Users, NEW v \in Views, Kept(u, v)
    PROVE  Kept(u, v)'
<1> DEFINE q == req[r]
           w == q.ids[1]
           new == Overlay(q.row, q.change)
<1>1. /\ q.at = "write" /\ UNCHANGED <<queue, client>>
      /\ last' = [last EXCEPT ![w] = [gone |-> FALSE, mode |-> new.mode, by |-> q.user]]
  BY DEF WriteRow, Entered
<1>2. w \in Views /\ q \in Request /\ RequestShape(q) /\ req \in [Requests -> Request]
  BY <1>1, NamedView DEF Base, RequestsOK, ViewsTypeOK
<1>3. PICK row \in Row :
        /\ Patched(q, row)
        /\ Store(r, [view EXCEPT ![w] = row], "tell")
        /\ excused' = excused \cup
                      (When(view[w] # q.row \/ view[w] # q.before[1], "stale")
                       \cup When(q.crossed /\ Loses([view EXCEPT ![w] = row]), "crossed"))
  BY RowPatched
<1>4. view[w] = q.row /\ view[w] = q.before[1]
  BY <1>3 DEF When
<1>5. Moves(r, [q EXCEPT !.at = "tell"]) /\ view' = [view EXCEPT ![w] = row]
  <2>1. Moves(r, After(req[r], "tell")) /\ view' = [view EXCEPT ![w] = row]
    BY <1>2, <1>3, StoreMoves
  <2> QED BY <2>1 DEF After
<1>6. Others(r)
  BY <1>5 DEF Moves, Others
<1>7. w \in Live /\ view[w] \in Row
  <2>1. q.row.live
    BY <1>1, <1>2 DEF RequestShape, Owned
  <2> QED BY <1>2, <1>4, <2>1 DEF Live, Base, ViewsTypeOK
<1>8. row.live /\ row.by = view[w].by
  BY <1>3, <1>7 DEF Patched, Row, Live
<1>9. CASE v # w
  <2>1. \A x \in Views : x # w => last'[x] = last[x]
    BY <1>1 DEF Base, ViewsTypeOK
  <2> QED BY <1>1, <1>2, <1>5, <1>6, <1>9, <2>1, OtherViewKept
<1>10. CASE v = w
  <2>1. /\ req'[r].at = "tell" /\ req'[r].ids[1] = w /\ req'[r].before[1] = view[w]
    BY <1>2, <1>4, <1>5 DEF Moves, Request
  <2>2. CASE view[w].mode # "private" \/ Truth(u, v)' # Absent
    <3>1. Announces(req[r], u, v)'
      BY <1>10, <2>1, <2>2 DEF Announces
    <3> QED BY <3>1 DEF Kept, Pending
  <2>3. CASE view[w].mode = "private" /\ Truth(u, v)' = Absent
    <3>1. Base'
      BY WriteRowKeepsBase
    <3>2. ~Hears(u, row)
      <4>1. row.by \in Users /\ row.by # Nobody
        BY <1>2, <1>7, <1>8, MembersAssumption DEF Base, RowsOK, Nobody
      <4>2. view'[w] = row /\ w \in Live'
        BY <1>2, <1>5, <1>8 DEF Base, ViewsTypeOK, Live
      <4> QED BY <1>10, <2>3, <4>1, <4>2 DEF Truth, Shown, Absent, Hears
    <3>3. Truth(u, v)' = Absent /\ Truth(u, v) = Absent /\ v \in Live'
      BY <1>2, <1>5, <1>7, <1>8, <1>10, <2>3, <3>2, UnheardPatch
    <3>4. ~Announces(req[r], u, v)
      BY <1>1, Quiet
    <3>5. CASE Pending(u, v)
      BY <1>6, <1>7, <1>10, <3>3, <3>4, <3>5, PendingStays DEF Kept
    <3>6. CASE Settles(queue, client[u][v], u, v, Truth(u, v))
      BY <1>1, <3>3, <3>6 DEF Kept
    <3> QED BY <3>5, <3>6 DEF Kept
  <2> QED BY <2>2, <2>3
<1> QED BY <1>9, <1>10

\* A request queues news of its view and ends, and the rows stay: it does no
\* harm if the news gives what is true to whom it reaches, and the others are
\* kept if it reaches all whom the request was to tell.
LEMMA TellKeeps ==
    ASSUME Base, NEW r \in Requests, Done(r), UNCHANGED <<view, last, client>>,
           req[r].at \in {"tell", "told"},
           NEW news \in News, queue' = Append(queue, news), NewsShape(news),
           NEW u \in Users, NEW v \in Views, Kept(u, v),
           Touches(news, u, v, Truth(u, v)) => Gives(news, u, Truth(u, v)) = Truth(u, v),
           Announces(req[r], u, v) => Touches(news, u, v, Truth(u, v))
    PROVE  Kept(u, v)'
<1>1. Truth(u, v)' = Truth(u, v) /\ (v \in Live' <=> v \in Live)
  BY TruthStays
<1>2. queue \in Seq(News)
  BY DEF Base, ViewsTypeOK
<1>3. Others(r)
  BY DoneOthers
<1>4. CASE Touches(news, u, v, Truth(u, v))
  <2>1. Settles(queue', client[u][v], u, v, Truth(u, v))
    BY <1>2, <1>4, SettlesByLast
  <2> QED BY <1>1, <2>1 DEF Kept
<1>5. CASE ~Touches(news, u, v, Truth(u, v))
  <2>1. CASE Pending(u, v)
    BY <1>1, <1>3, <1>5, <2>1, PendingStays DEF Kept
  <2>2. CASE Settles(queue, client[u][v], u, v, Truth(u, v))
    <3>1. Settles(queue', client[u][v], u, v, Truth(u, v))
      BY <1>2, <1>5, <2>2, SettlesAppended
    <3> QED BY <1>1, <3>1 DEF Kept
  <2> QED BY <2>1, <2>2 DEF Kept
<1> QED BY <1>4, <1>5

LEMMA TellChangeKeepsPages ==
    ASSUME Base, NEW r \in Requests, TellChange(r), "untold" \notin excused',
           NEW u \in Users, NEW v \in Views, Kept(u, v)
    PROVE  Kept(u, v)'
<1> DEFINE q == req[r]
           w == q.ids[1]
           ids == <<w>>
           news == [kind |-> "changed", ids |-> ids, before |-> q.before, after |-> view[w]]
<1>1. /\ q.at = "tell" /\ Done(r) /\ UNCHANGED <<view, last, client>> /\ w \in Live
      /\ queue' = Append(queue, news)
  BY DEF TellChange, Excuse, When
<1>2. /\ w \in Views /\ q.before \in Seq(Row) /\ Len(q.before) = 1 /\ view[w] \in Row
  BY <1>1, NamedView DEF Base, ViewsTypeOK
<1>3. Owned(view[w])
  BY <1>1, <1>2 DEF Base, RowsOK, Owned, Live
<1>4. ids \in Seq(Views) /\ Len(ids) = 1 /\ ids[1] = w
  BY <1>2, One
<1>5. news \in News /\ NewsShape(news)
  <2> HIDE DEF ids, w, q
  <2> QED BY <1>2, <1>3, <1>4, NewsOfOne
<1>6. news.kind = "changed" /\ news.ids = ids /\ news.before = q.before /\ news.after = view[w]
  OBVIOUS
<1> HIDE DEF news, ids
<1>7. Touches(news, u, v, Truth(u, v)) => Gives(news, u, Truth(u, v)) = Truth(u, v)
  BY <1>1, <1>4, <1>6 DEF Touches, Gives, Truth
<1>8. Announces(q, u, v) => Touches(news, u, v, Truth(u, v))
  <2>1. ASSUME Announces(q, u, v) PROVE v = w /\ (Truth(u, v) # Absent \/ q.before[1].mode # "private")
    BY <1>1, <2>1 DEF Announces
  <2>2. Truth(u, w) # Absent => Hears(u, view[w])
    BY <1>2, TruthHeard
  <2> QED BY <1>4, <1>6, <2>1, <2>2 DEF Touches, Reaches
<1> QED BY <1>1, <1>5, <1>7, <1>8, TellKeeps

LEMMA TellDeletionKeepsPages ==
    ASSUME Base, NEW r \in Requests, TellDeletion(r), "told late" \notin excused',
           NEW u \in Users, NEW v \in Views, Kept(u, v)
    PROVE  Kept(u, v)'
<1> DEFINE q == req[r]
           w == q.ids[1]
           news == [kind |-> "deleted", ids |-> q.ids, before |-> q.before, after |-> NoView]
<1>1. /\ q.at = "told" /\ Done(r) /\ UNCHANGED <<view, last, client>> /\ w \notin Live
      /\ queue' = Append(queue, news)
  BY DEF TellDeletion, Excuse, When
<1>2. q.at \notin {"idle", "insert", "batch"}
  BY <1>1
<1>3. /\ q.ids \in Seq(Views) /\ Len(q.ids) = 1
      /\ q.before \in Seq(Row) /\ Len(q.before) = 1
  BY <1>2, NamedView
<1>4. news \in News /\ NewsShape(news) /\ news.ids = q.ids
  <2> HIDE DEF q, w
  <2>1. "deleted" \in {"changed", "deleted"} /\ "deleted" # "changed" /\ NoView \in Row
    BY NoReqTyped
  <2>2. news = [kind |-> "deleted", ids |-> q.ids, before |-> q.before, after |-> NoView]
    OBVIOUS
  <2> HIDE DEF news
  <2> QED BY <1>3, <2>1, <2>2, NewsOfOne
<1>5. news.kind = "deleted" /\ news.ids = q.ids /\ news.before = q.before
  OBVIOUS
<1> HIDE DEF news
<1>6. Touches(news, u, v, Truth(u, v)) => Gives(news, u, Truth(u, v)) = Truth(u, v)
  BY <1>1, <1>5 DEF Touches, Gives, Truth
<1>7. Announces(q, u, v) => Touches(news, u, v, Truth(u, v))
  BY <1>1, <1>5 DEF Touches, Announces
<1> QED BY <1>1, <1>4, <1>6, <1>7, TellKeeps

\* A new view is mentioned by nobody yet: whoever sees it has it, the others
\* hold no copy of it.
LEMMA FreshUnknown ==
    ASSUME Base, NEW v \in Views, Fresh(v)
    PROVE  /\ v \notin Live
           /\ \A i \in 1..Len(queue) : NewsShape(queue[i]) /\ v \notin ToSet(queue[i].ids)
           /\ \A u \in Users : Kept(u, v) => client[u][v] = Absent
<1>1. v \notin Live /\ v \notin KnownIds
  BY DEF Fresh, KnownIds
<1>2. \A i \in 1..Len(queue) : NewsShape(queue[i]) /\ v \notin ToSet(queue[i].ids)
  BY <1>1 DEF Base, NewsOK
<1>3. ASSUME NEW u \in Users, NEW r \in Requests PROVE ~Announces(req[r], u, v)
  <2> SUFFICES ASSUME req[r].at \in {"tell", "clear", "told"}
               PROVE  v # req[r].ids[1]
      BY DEF Announces
  <2>1. req[r].ids[1] \in KnownIds
    BY NamedView
  <2> QED BY <1>1, <2>1
<1>4. ASSUME NEW u \in Users, Kept(u, v) PROVE client[u][v] = Absent
  <2>1. Settles(queue, client[u][v], u, v, Truth(u, v))
    BY <1>3, <1>4 DEF Kept, Pending
  <2>2. queue \in Seq(News)
    BY DEF Base, ViewsTypeOK
  <2>3. client[u][v] = Truth(u, v)
    BY <1>2, <2>1, <2>2, SettlesUnnamed
  <2> QED BY <1>1, <2>3 DEF Truth
<1> QED BY <1>1, <1>2, <1>4

LEMMA InsertViewKeepsPages ==
    ASSUME Base, NEW r \in Requests, InsertView(r),
           NEW u \in Users, NEW v \in Views, Kept(u, v)
    PROVE  Kept(u, v)'
<1> DEFINE q == req[r]
           row == [live |-> TRUE, mode |-> q.change, by |-> q.user]
<1>1. q.at = "insert" /\ queue' = queue
  BY DEF InsertView
<1>2. PICK w \in Views :
        /\ Fresh(w)
        /\ Store(r, [view EXCEPT ![w] = row], "idle")
        /\ last' = [last EXCEPT ![w] = [gone |-> FALSE, mode |-> row.mode, by |-> q.user]]
        /\ client' = Told(client, w, row)
  BY DEF InsertView, Entered
<1>3. q.user \in Users /\ q.change \in Modes /\ req \in [Requests -> Request]
  BY <1>1 DEF Base, ViewsTypeOK, RequestsOK, RequestShape
<1>4. row \in Row /\ Owned(row)
  BY <1>3 DEF Row, Owned
<1>5. Moves(r, NoReq) /\ view' = [view EXCEPT ![w] = row]
  <2>1. Moves(r, After(req[r], "idle")) /\ view' = [view EXCEPT ![w] = row]
    BY <1>2, <1>3, StoreMoves
  <2> QED BY <2>1 DEF After
<1> HIDE DEF row
<1>6. client'[u][v] = IF v = w /\ Hears(u, row) THEN Shown(u, row) ELSE client[u][v]
  <2>1. client'[u] = IF Hears(u, row) THEN [client[u] EXCEPT ![w] = [mode |-> row.mode, by |-> row.by]]
                     ELSE client[u]
    BY <1>2 DEF Told
  <2> QED BY <2>1 DEF Shown, Base, ViewsTypeOK
<1>7. CASE v # w
  <2>1. view'[v] = view[v] /\ last'[v] = last[v] /\ client'[u][v] = client[u][v]
    BY <1>2, <1>5, <1>6, <1>7 DEF Base, ViewsTypeOK
  <2>2. Others(r) /\ ~Announces(req[r], u, v)
    BY <1>1, <1>5, Quiet DEF Moves, Others
  <2> QED BY <1>1, <2>1, <2>2, KeptElsewhere
<1>8. CASE v = w
  <2>1. /\ \A i \in 1..Len(queue) : NewsShape(queue[i]) /\ v \notin ToSet(queue[i].ids)
        /\ client[u][v] = Absent
    BY <1>2, <1>8, FreshUnknown
  <2>2. v \in Live' /\ view'[v] = row
    BY <1>4, <1>5, <1>8 DEF Live, Base, ViewsTypeOK, Owned
  <2>3. Truth(u, v)' = Shown(u, row)
    BY <2>2 DEF Truth, Shown, Hears
  <2>4. client'[u][v] = Truth(u, v)'
    BY <1>6, <1>8, <2>1, <2>3 DEF Shown
  <2>5. queue \in Seq(News)
    BY DEF Base, ViewsTypeOK
  <2>6. Settles(queue, client'[u][v], u, v, Truth(u, v)')
    BY <2>1, <2>4, <2>5, SettlesUnnamed
  <2> QED BY <1>1, <2>6 DEF Kept
<1> QED BY <1>7, <1>8

LEMMA CopyNewsReaches ==
    ASSUME NEW v \in Views, NEW row \in Row, row.mode # "private",
           NEW news, news = NewsOfCopy(v, row), NEW u, NEW truth, truth = Shown(u, row)
    PROVE  Touches(news, u, v, truth) /\ Gives(news, u, truth) = truth
<1> DEFINE ids == <<v>>
           before == <<row>>
<1>1. ids[1] = v /\ before[1] = row
  BY One
<1>2. news.kind = "changed" /\ news.ids = ids /\ news.before = before /\ news.after = row
  BY DEF NewsOfCopy
<1> HIDE DEF ids, before
<1> QED BY <1>1, <1>2 DEF Touches, Gives, Reaches

LEMMA CopyViewKeepsPages ==
    ASSUME Base, NEW r \in Requests, CopyView(r),
           NEW u \in Users, NEW v \in Views, Kept(u, v)
    PROVE  Kept(u, v)'
<1> DEFINE q == req[r]
           row == [view[q.ids[1]] EXCEPT !.by = q.user]
<1>1. q.at = "copy" /\ client' = client
  BY DEF CopyView
<1>2. /\ q \in Request /\ q.user \in Users /\ q.ids[1] \in Views /\ view[q.ids[1]] \in Row
      /\ req \in [Requests -> Request] /\ queue \in Seq(News)
  BY <1>1, NamedView DEF Base, ViewsTypeOK
<1>3. ~Announces(q, u, v)
  BY <1>1, Quiet
<1>4. CASE q.ids[1] \notin Live
  <2>1. Done(r) /\ UNCHANGED <<view, last, queue>>
    BY <1>4 DEF CopyView
  <2> QED BY <1>1, <2>1, DoneOthers, QuietKept
<1>5. CASE q.ids[1] \in Live
  <2>1. PICK w \in Views :
          /\ Fresh(w)
          /\ last' = [last EXCEPT ![w] = [gone |-> FALSE, mode |-> row.mode, by |-> q.user]]
          /\ view' = [view EXCEPT ![w] = row]
          /\ IF row.mode = "everyone"
             THEN queue' = Append(queue, NewsOfCopy(w, row)) /\ Done(r)
             ELSE /\ req' = [req EXCEPT ![r].at = "clear", ![r].ids = <<w>>]
                  /\ UNCHANGED queue
    BY <1>5 DEF CopyView, Entered
  <2>2. row \in Row /\ Owned(row)
    BY <1>2, <1>5 DEF Row, Owned, Live
  <2>3. v # w => view'[v] = view[v] /\ last'[v] = last[v]
    BY <2>1 DEF Base, ViewsTypeOK
  <2>4. Others(r)
    BY <2>1, DoneOthers DEF Others, Alike, Base, ViewsTypeOK
  <2> DEFINE news == NewsOfCopy(w, row)
  <2> HIDE DEF row
  <2>5. news \in News /\ NewsShape(news) /\ ToSet(news.ids) = {w}
    BY <2>2, CopyNews
  <2>6. queue' = queue \/ queue' = Append(queue, news)
    BY <2>1
  <2>7. CASE v # w
    BY <1>1, <1>3, <2>3, <2>4, <2>5, <2>6, <2>7, KeptElsewhere
  <2>8. CASE v = w
    <3>1. /\ \A i \in 1..Len(queue) : NewsShape(queue[i]) /\ v \notin ToSet(queue[i].ids)
          /\ client[u][v] = Absent
      BY <2>1, <2>8, FreshUnknown
    <3>2. v \in Live' /\ view'[v] = row
      BY <2>1, <2>2, <2>8 DEF Live, Base, ViewsTypeOK, Owned
    <3>3. Truth(u, v)' = Shown(u, row)
      BY <3>2 DEF Truth, Shown, Hears
    <3>4. CASE row.mode = "everyone"
      <4>1. Touches(news, u, v, Truth(u, v)') /\ Gives(news, u, Truth(u, v)') = Truth(u, v)'
        BY <2>2, <2>8, <3>3, <3>4, CopyNewsReaches
      <4>2. Settles(queue', client'[u][v], u, v, Truth(u, v)')
        BY <1>2, <2>1, <2>5, <3>4, <4>1, SettlesByLast
      <4> QED BY <4>2 DEF Kept
    <3>5. CASE row.mode # "everyone" /\ Truth(u, v)' = Absent
      <4>1. Settles(queue, client[u][v], u, v, Truth(u, v)')
        BY <1>2, <3>1, <3>5, SettlesUnnamed
      <4> QED BY <1>1, <2>1, <3>5, <4>1 DEF Kept
    <3>6. CASE row.mode # "everyone" /\ Truth(u, v)' # Absent
      <4> DEFINE ids == <<w>>
      <4>1. req' = [req EXCEPT ![r].at = "clear", ![r].ids = ids] /\ ids[1] = w
        BY <2>1, <3>6
      <4> HIDE DEF ids
      <4>2. req'[r].at = "clear" /\ req'[r].ids[1] = w
        BY <1>2, <4>1 DEF Request
      <4> QED BY <2>8, <3>6, <4>2 DEF Kept, Pending, Announces
    <3> QED BY <3>4, <3>5, <3>6
  <2> QED BY <2>7, <2>8
<1> QED BY <1>4, <1>5

LEMMA ClearModeKeepsPages ==
    ASSUME Base, NEW r \in Requests, ClearMode(r),
           NEW u \in Users, NEW v \in Views, Kept(u, v)
    PROVE  Kept(u, v)'
<1> DEFINE q == req[r]
           w == q.ids[1]
           row == [view[w] EXCEPT !.mode = "everyone"]
<1>1. q.at = "clear" /\ client' = client
  BY DEF ClearMode
<1>2. /\ w \in Views /\ view[w] \in Row
      /\ req \in [Requests -> Request] /\ queue \in Seq(News)
  BY <1>1, NamedView DEF Base, ViewsTypeOK
<1>3. CASE w \notin Live
  <2>1. Done(r) /\ UNCHANGED <<view, last, queue>>
    BY <1>3 DEF ClearMode
  <2>2. ~Announces(q, u, v)
    BY <1>1, <1>3 DEF Announces, Truth
  <2> QED BY <1>1, <2>1, <2>2, DoneOthers, KeptElsewhere
<1>4. CASE w \in Live
  <2> DEFINE news == NewsOfCopy(w, row)
  <2>1. /\ Store(r, [view EXCEPT ![w] = row], "idle")
        /\ last' = [last EXCEPT ![w] = [gone |-> FALSE, mode |-> row.mode, by |-> q.user]]
        /\ queue' = Append(queue, news)
    BY <1>4 DEF ClearMode, Entered
  <2>2. row \in Row /\ Owned(row) /\ row.mode = "everyone"
    <3>1. "everyone" \in Modes
      BY DEF Modes
    <3> QED BY <1>2, <1>4, <3>1 DEF Row, Owned, Live, Base, RowsOK
  <2>3. Moves(r, After(req[r], "idle")) /\ view' = [view EXCEPT ![w] = row]
    BY <1>2, <2>1, StoreMoves
  <2> HIDE DEF row
  <2>4. news \in News /\ NewsShape(news) /\ ToSet(news.ids) = {w}
    <3> HIDE DEF w
    <3> QED BY <1>2, <2>2, CopyNews
  <2>5. CASE v # w
    <3>1. view'[v] = view[v] /\ last'[v] = last[v]
      BY <2>1, <2>3, <2>5 DEF Base, ViewsTypeOK
    <3>2. Others(r) /\ ~Announces(q, u, v)
      BY <1>1, <2>3, <2>5 DEF Moves, Others, Announces
    <3> HIDE DEF news, w
    <3> QED BY <1>1, <2>1, <2>4, <2>5, <3>1, <3>2, KeptElsewhere
  <2>6. CASE v = w
    <3>1. v \in Live' /\ view'[v] = row
      BY <1>2, <2>2, <2>3, <2>6 DEF Live, Base, ViewsTypeOK, Owned
    <3>2. Truth(u, v)' = Shown(u, row)
      BY <3>1 DEF Truth, Shown, Hears
    <3>3. Touches(news, u, v, Truth(u, v)') /\ Gives(news, u, Truth(u, v)') = Truth(u, v)'
      BY <2>2, <2>6, <3>2, CopyNewsReaches
    <3>4. Settles(queue', client'[u][v], u, v, Truth(u, v)')
      <4> HIDE DEF news
      <4> QED BY <1>2, <2>1, <2>4, <3>3, SettlesByLast
    <3> QED BY <3>4 DEF Kept
  <2> QED BY <2>5, <2>6
<1> QED BY <1>3, <1>4

LEMMA DeleteRowKeepsPages ==
    ASSUME Base, NEW r \in Requests, DeleteRow(r), "stale" \notin excused',
           NEW u \in Users, NEW v \in Views, Kept(u, v)
    PROVE  Kept(u, v)'
<1> DEFINE q == req[r]
           w == q.ids[1]
<1>1. /\ q.at = "delete" /\ queue' = queue /\ client' = client
      /\ Store(r, [view EXCEPT ![w] = NoView], "told")
      /\ w \in Live => view[w] = q.before[1]
      /\ IF w \in Live
         THEN last' = [last EXCEPT ![w] = [gone |-> TRUE, mode |-> view[w].mode, by |-> view[w].by]]
         ELSE UNCHANGED last
  BY DEF DeleteRow, Excuse, When, Entered
<1>2. w \in Views /\ q \in Request /\ req \in [Requests -> Request]
  BY <1>1, NamedView DEF Base, ViewsTypeOK
<1>3. Moves(r, [q EXCEPT !.at = "told"]) /\ view' = [view EXCEPT ![w] = NoView]
  <2>1. Moves(r, After(req[r], "told")) /\ view' = [view EXCEPT ![w] = NoView]
    BY <1>1, <1>2, StoreMoves
  <2> QED BY <2>1 DEF After
<1>4. Others(r)
  BY <1>3 DEF Moves, Others
<1>5. CASE v # w
  <2>1. \A x \in Views : x # w => last'[x] = last[x]
    BY <1>1 DEF Base, ViewsTypeOK
  <2> QED BY <1>1, <1>2, <1>3, <1>4, <1>5, <2>1, OtherViewKept
<1>6. CASE v = w /\ w \notin Live
  <2>1. view'[v] = view[v] /\ last'[v] = last[v] /\ ~Announces(q, u, v)
    BY <1>1, <1>2, <1>3, <1>6, Quiet DEF Base, RowsOK, ViewsTypeOK
  <2> QED BY <1>1, <1>4, <2>1, KeptElsewhere
<1>7. CASE v = w /\ w \in Live
  <2>1. /\ req'[r].at = "told" /\ req'[r].ids[1] = w /\ req'[r].before[1] = view[w]
    BY <1>1, <1>2, <1>3, <1>7 DEF Moves, Request
  <2>2. w \notin Live' /\ Truth(u, v)' = Absent
    BY <1>2, <1>3, <1>7 DEF Live, Truth, NoView, Base, ViewsTypeOK
  <2>3. last'[w].mode = view[w].mode /\ last'[w].by = view[w].by
    BY <1>1, <1>2, <1>7 DEF Base, ViewsTypeOK
  <2>4. CASE Hears(u, view[w])
    <3>1. Announces(req[r], u, v)'
      BY <1>7, <2>1, <2>2, <2>3, <2>4 DEF Announces, Hears
    <3> QED BY <3>1 DEF Kept, Pending
  <2>5. CASE ~Hears(u, view[w])
    <3>1. Truth(u, v) = Absent
      BY <1>7, <2>5 DEF Truth, Shown
    <3>2. CASE Pending(u, v)
      BY <1>1, <1>4, <1>7, <2>2, <3>1, <3>2, Quiet, PendingStays DEF Kept
    <3>3. CASE Settles(queue, client[u][v], u, v, Truth(u, v))
      BY <1>1, <2>2, <3>1, <3>3 DEF Kept
    <3> QED BY <3>2, <3>3 DEF Kept
  <2> QED BY <2>4, <2>5
<1> QED BY <1>5, <1>6, <1>7

LEMMA RestoreRowKeepsPages ==
    ASSUME Base, NEW r \in Requests, RestoreRow(r), "stale" \notin excused',
           NEW u \in Users, NEW v \in Views, Kept(u, v)
    PROVE  Kept(u, v)'
<1> DEFINE q == req[r]
           w == q.ids[1]
           row == [live |-> TRUE, mode |-> last[w].mode, by |-> last[w].by]
<1>1. /\ q.at = "restore" /\ queue' = queue /\ client' = client
  BY DEF RestoreRow
<1>2. w \in Views /\ q \in Request /\ req \in [Requests -> Request] /\ w \in KnownIds
  BY <1>1, NamedView DEF Base, ViewsTypeOK
<1>3. CASE ~last[w].gone
  <2>1. Goto(r, "tell") /\ UNCHANGED <<view, last>>
    BY <1>3 DEF RestoreRow
  <2>2. Others(r)
    BY <1>2, <2>1, GotoMoves DEF Moves, Others
  <2> QED BY <1>1, <2>1, <2>2, QuietKept
<1>4. CASE last[w].gone
  <2>1. /\ Store(r, [view EXCEPT ![w] = row], "tell")
        /\ row = q.before[1]
        /\ last' = [last EXCEPT ![w] = [gone |-> FALSE, mode |-> row.mode, by |-> row.by]]
    BY <1>4 DEF RestoreRow, Excuse, When, Entered
  <2>2. Moves(r, [q EXCEPT !.at = "tell"]) /\ view' = [view EXCEPT ![w] = row]
    <3>1. Moves(r, After(req[r], "tell")) /\ view' = [view EXCEPT ![w] = row]
      BY <1>2, <2>1, StoreMoves
    <3> QED BY <3>1 DEF After
  <2>3. Others(r)
    BY <2>2 DEF Moves, Others
  <2>4. w \notin Live
    BY <1>2, <1>4 DEF Base, RowsOK
  <2>5. CASE v # w
    <3>1. \A x \in Views : x # w => last'[x] = last[x]
      BY <2>1 DEF Base, ViewsTypeOK
    <3> HIDE DEF row
    <3> QED BY <1>1, <1>2, <2>2, <2>3, <2>5, <3>1, OtherViewKept
  <2>6. CASE v = w
    <3>1. /\ req'[r].at = "tell" /\ req'[r].ids[1] = w /\ req'[r].before[1] = row
      BY <1>2, <2>1, <2>2 DEF Moves, Request
    <3>2. view'[w] = row /\ w \in Live'
      BY <1>2, <2>2 DEF Live, Base, ViewsTypeOK
    <3>3. CASE row.mode # "private" \/ Truth(u, v)' # Absent
      <4>1. Announces(req[r], u, v)'
        BY <2>6, <3>1, <3>3 DEF Announces
      <4> QED BY <4>1 DEF Kept, Pending
    <3>4. CASE row.mode = "private" /\ Truth(u, v)' = Absent
      <4>1. Truth(u, v) = Absent
        BY <2>4, <2>6 DEF Truth
      <4>2. ~Hears(u, last[w])
        <5>1. row.by # Nobody
          BY <1>2 DEF KnownIds
        <5> QED BY <2>6, <3>2, <3>4, <5>1 DEF Truth, Shown, Absent, Hears
      <4>3. CASE Pending(u, v)
        BY <1>1, <2>3, <2>6, <3>4, <4>1, <4>2, <4>3, Quiet, PendingStays DEF Kept
      <4>4. CASE Settles(queue, client[u][v], u, v, Truth(u, v))
        BY <1>1, <3>4, <4>1, <4>4 DEF Kept
      <4> QED BY <4>3, <4>4 DEF Kept
    <3> QED BY <3>3, <3>4
  <2> QED BY <2>5, <2>6
<1> QED BY <1>3, <1>4

LEMMA WriteBatchKeepsPages ==
    ASSUME Base, NEW r \in Requests, WriteBatch(r), "by position" \notin excused',
           NEW u \in Users, NEW v \in Views, Kept(u, v)
    PROVE  Kept(u, v)'
<1> DEFINE q == req[r]
           named == ToSet(q.ids)
           news == BatchNews(q)
<1>1. q.at = "batch"
  BY DEF WriteBatch
<1>2. CASE ~(named \subseteq Live)
  <2>1. Done(r) /\ UNCHANGED <<view, last, queue, client>>
    BY <1>2 DEF WriteBatch
  <2> QED BY <1>1, <2>1, DoneOthers, QuietKept
<1>3. CASE named \subseteq Live
  <2>1. /\ q \in Request /\ Moves(r, NoReq) /\ client' = client
        /\ \A x \in Views : x \notin named => last'[x] = last[x]
        /\ view' = BatchRows(q) /\ Live' = Live
        /\ \A x \in named : view'[x] = Overlay(view[x], q.change)
        /\ queue' = Append(queue, news)
        /\ news \in News /\ NewsShape(news)
    BY <1>3, BatchWritten
  <2>2. news.kind = "batch" /\ news.ids = q.ids /\ news.before = q.before
    BY DEF BatchNews
  <2>3. Others(r) /\ ~Announces(q, u, v)
    BY <1>1, <2>1, Quiet DEF Moves, Others
  <2>4. queue \in Seq(News)
    BY DEF Base, ViewsTypeOK
  <2> HIDE DEF news
  <2>5. CASE v \notin named
    <3>1. view'[v] = view[v]
      BY <2>1, <2>5 DEF BatchRows
    <3> QED BY <2>1, <2>2, <2>3, <2>5, <3>1, KeptElsewhere
  <2>6. CASE v \in named
    <3>1. PICK i \in 1..Len(q.ids) : q.ids[i] = v
      BY <2>1, <2>6, LenProperties DEF ToSet, Request
    <3>2. q.before[i] = view[v]
      <4>1. q.before = [k \in DOMAIN q.ids |-> view[q.ids[k]]]
        BY <1>3 DEF WriteBatch, Excuse, When
      <4>2. i \in DOMAIN q.ids
        BY <2>1, LenProperties DEF Request
      <4> QED BY <3>1, <4>1, <4>2
    <3>3. v \in Live /\ v \in Live'
      BY <1>3, <2>1, <2>6
    <3>4. CASE Touches(news, u, v, Truth(u, v)')
      <4>1. Gives(news, u, Truth(u, v)') = Truth(u, v)'
        BY <2>2 DEF Gives
      <4>2. Settles(queue', client'[u][v], u, v, Truth(u, v)')
        BY <2>1, <2>4, <3>4, <4>1, SettlesByLast
      <4> QED BY <4>2 DEF Kept
    <3>5. CASE ~Touches(news, u, v, Truth(u, v)')
      <4>1. Truth(u, v)' = Absent /\ view[v].mode = "private"
        BY <2>2, <3>1, <3>2, <3>5 DEF Touches
      <4>2. view[v] \in Row /\ view[v].by \in Users /\ q.change \in Changes
        BY <2>1, <3>3 DEF Base, ViewsTypeOK, RowsOK, Request
      <4>3. view'[v].by = view[v].by
        <5>1. Overlay(view[v], q.change).by = view[v].by
          <6> HIDE DEF q
          <6> QED BY <4>2, Overlaid
        <5>2. view'[v] = Overlay(view[v], q.change)
          BY <2>1, <2>6
        <5> QED BY <5>1, <5>2
      <4>4. ~Hears(u, view[v])
        <5>1. view[v].by # Nobody
          BY <4>2, MembersAssumption DEF Nobody
        <5> QED BY <3>3, <4>1, <4>3, <5>1 DEF Truth, Shown, Absent, Hears
      <4>5. Truth(u, v) = Absent
        BY <4>4 DEF Truth, Shown
      <4>6. CASE Pending(u, v)
        BY <2>3, <3>3, <4>1, <4>5, <4>6, PendingStays DEF Kept
      <4>7. CASE Settles(queue, client[u][v], u, v, Truth(u, v))
        <5>1. Settles(queue', client[u][v], u, v, Truth(u, v)')
          BY <2>1, <2>4, <3>5, <4>1, <4>5, <4>7, SettlesAppended
        <5> QED BY <2>1, <5>1 DEF Kept
      <4> QED BY <4>6, <4>7 DEF Kept
    <3> QED BY <3>4, <3>5
  <2> QED BY <2>5, <2>6
<1> QED BY <1>2, <1>3

\* What a callback does to a copy is what the invariant says of its news.
LEMMA CalledBack ==
    ASSUME Base, NEW i \in DOMAIN queue, Callback(i),
           queue[i].kind = "batch" => ToSet(queue[i].ids) \subseteq Live,
           NEW u \in Users, NEW v \in Views
    PROVE  client'[u][v] = IF Touches(queue[i], u, v, Truth(u, v))
                           THEN Gives(queue[i], u, Truth(u, v)) ELSE client[u][v]
<1> DEFINE news == queue[i]
<1>1. /\ queue \in Seq(News) /\ i \in 1..Len(queue)
  BY LenProperties DEF Base, ViewsTypeOK
<1>2. /\ news \in News /\ NewsShape(news) /\ client \in Pages
  BY <1>1, ElementOfSeq DEF Base, NewsOK, ViewsTypeOK, Pages
<1>3. /\ client' = CASE news.kind = "changed" ->
                            AnnouncedPrivate(client, news.ids[1], news.before[1], news.after)
                     [] news.kind = "deleted" ->
                            Forgot(client, news.ids[1], {x \in Users : Hears(x, news.before[1])})
                     [] news.kind = "batch" -> AfterBatch(news)
      /\ news.kind = "batch" => ToSet(news.ids) \subseteq Live
  BY DEF Callback
<1>4. news.kind \in {"changed", "deleted", "batch"}
  BY <1>2 DEF News
<1> HIDE DEF news
<1>5. CASE news.kind = "batch"
  <2>1. client' = AfterBatch(news) /\ ToSet(news.ids) \subseteq Live
    BY <1>3, <1>5
  <2>2. CASE v \notin ToSet(news.ids)
    <3>1. client'[u][v] = client[u][v]
      BY <1>2, <2>1, <2>2, BatchAnnounced
    <3>2. ~Touches(news, u, v, Truth(u, v))
      BY <1>2, <2>2, TouchesNamed
    <3> QED BY <3>1, <3>2 DEF news
  <2>3. CASE v \in ToSet(news.ids)
    <3>1. PICK k \in 1..Len(news.ids) : news.ids[k] = v
      BY <1>2, <2>3, LenProperties DEF ToSet, News
    <3>2. v \in Live
      BY <2>1, <2>3
    <3>3. client'[u][v] = IF Reaches(u, news.before[k], view[v]) THEN Shown(u, view[v])
                          ELSE client[u][v]
      BY <1>2, <2>1, <3>1, BatchAnnounced
    <3>4. Truth(u, v) = Shown(u, view[v]) /\ (Truth(u, v) # Absent <=> Hears(u, view[v]))
      BY <3>2, TruthHeard DEF Truth
    <3>5. \A j \in 1..Len(news.ids) : v = news.ids[j] => j = k
      BY <1>2, <3>1 DEF NewsShape, Distinct
    <3>6. Touches(news, u, v, Truth(u, v)) <=> Reaches(u, news.before[k], view[v])
      BY <1>5, <3>1, <3>4, <3>5 DEF Touches, Reaches
    <3>7. Gives(news, u, Truth(u, v)) = Truth(u, v)
      BY <1>5 DEF Gives
    <3> QED BY <3>3, <3>4, <3>6, <3>7 DEF news
  <2> QED BY <2>2, <2>3
<1>6. CASE news.kind = "changed"
  <2>1. PICK id \in Views : id = news.ids[1]
    BY <1>2, <1>6, OneId DEF News, NewsShape
  <2>2. PICK before : before = news.before[1]
    OBVIOUS
  <2>3. PICK after \in Row : after = news.after /\ Owned(after)
    BY <1>2, <1>6 DEF News, NewsShape
  <2>4. client' = AnnouncedPrivate(client, id, before, after)
    BY <1>3, <1>6, <2>1, <2>2, <2>3
  <2>5. AnnouncedPrivate(client, id, before, after)[u][v] =
          IF v = id /\ Reaches(u, before, after) THEN Shown(u, after) ELSE client[u][v]
    BY <1>2, <2>3, Announced
  <2>6. Touches(news, u, v, Truth(u, v)) <=> v = id /\ Reaches(u, before, after)
    BY <1>6, <2>1, <2>2, <2>3 DEF Touches
  <2>7. Gives(news, u, Truth(u, v)) = Shown(u, after)
    BY <1>6, <2>3 DEF Gives
  <2> QED BY <2>4, <2>5, <2>6, <2>7 DEF news
<1>7. CASE news.kind = "deleted"
  <2>1. PICK id \in Views : id = news.ids[1]
    BY <1>2, <1>7, OneId DEF News, NewsShape
  <2>2. PICK users : users = {x \in Users : Hears(x, news.before[1])}
    OBVIOUS
  <2>3. client' = Forgot(client, id, users)
    BY <1>3, <1>7, <2>1, <2>2
  <2>4. Forgot(client, id, users)[u][v] = IF v = id /\ u \in users THEN Absent ELSE client[u][v]
    BY <1>2, Forgotten
  <2>5. Touches(news, u, v, Truth(u, v)) <=> v = id /\ u \in users
    BY <1>7, <2>1, <2>2 DEF Touches
  <2>6. Gives(news, u, Truth(u, v)) = Absent
    BY <1>7 DEF Gives
  <2> QED BY <2>3, <2>4, <2>5, <2>6 DEF news
<1> QED BY <1>4, <1>5, <1>6, <1>7

\* The oldest callback is the one that runs.
LEMMA CallbackKeepsPages ==
    ASSUME Base, InOrder, NEW i \in DOMAIN queue, Callback(i), "cut short" \notin excused',
           NEW u \in Users, NEW v \in Views, Kept(u, v)
    PROVE  Kept(u, v)'
<1>1. /\ UNCHANGED <<view, last, req>> /\ i = 1 /\ queue' = RemoveAt(queue, i)
  BY DEF Callback
<1>2. Truth(u, v)' = Truth(u, v) /\ (v \in Live' <=> v \in Live)
  BY <1>1, TruthStays
<1>3. CASE Pending(u, v)
  <2>1. PICK r \in Requests : Announces(req[r], u, v)
    BY <1>3 DEF Pending
  <2>2. Announces(req[r], u, v)'
    BY <1>1, <1>2, <2>1 DEF Announces, Hears
  <2> QED BY <2>2 DEF Kept, Pending
<1>4. CASE Settles(queue, client[u][v], u, v, Truth(u, v))
  <2>1. queue \in Seq(News) /\ 1 \in 1..Len(queue)
    BY <1>1, LenProperties DEF Base, ViewsTypeOK
  <2>2. client'[u][v] = IF Touches(queue[1], u, v, Truth(u, v))
                        THEN Gives(queue[1], u, Truth(u, v)) ELSE client[u][v]
    <3>1. queue[i].kind = "batch" => ToSet(queue[i].ids) \subseteq Live
      BY DEF Callback, Excuse, When
    <3> QED BY <1>1, <3>1, CalledBack
  <2>3. Settles(queue', client'[u][v], u, v, Truth(u, v))
    BY <1>1, <1>4, <2>1, <2>2, SettlesRemoved
  <2> QED BY <1>2, <2>3 DEF Kept
<1> QED BY <1>3, <1>4 DEF Kept

LEMMA ReloadKeepsPages ==
    ASSUME Base, NEW x \in Users, Reload(x), NEW u \in Users, NEW v \in Views, Kept(u, v)
    PROVE  Kept(u, v)'
<1>1. /\ UNCHANGED <<view, last, req, queue>>
      /\ client'[u][v] = IF u = x THEN PageOf(x)[v] ELSE client[u][v]
  BY DEF Reload, Base, ViewsTypeOK
<1>2. Truth(u, v)' = Truth(u, v) /\ (v \in Live' <=> v \in Live) /\ Truth(u, v) = PageOf(u)[v]
  BY <1>1, TruthStays, TruthHeard
<1>3. CASE Pending(u, v)
  <2>1. PICK r \in Requests : Announces(req[r], u, v)
    BY <1>3 DEF Pending
  <2>2. Announces(req[r], u, v)'
    BY <1>1, <1>2, <2>1 DEF Announces, Hears
  <2> QED BY <2>2 DEF Kept, Pending
<1>4. CASE Settles(queue, client[u][v], u, v, Truth(u, v))
  <2>1. queue \in Seq(News)
    BY DEF Base, ViewsTypeOK
  <2>2. Settles(queue, Truth(u, v), u, v, Truth(u, v))
    BY <1>4, <2>1, SettledByCopy
  <2>3. Settles(queue, client'[u][v], u, v, Truth(u, v))
    BY <1>1, <1>2, <1>4, <2>2
  <2> QED BY <1>1, <1>2, <2>3 DEF Kept
<1> QED BY <1>3, <1>4 DEF Kept

LEMMA StillKept ==
    ASSUME UNCHANGED viewVars, NEW u \in Users, NEW v \in Views, Kept(u, v)
    PROVE  Kept(u, v)'
<1>1. UNCHANGED <<view, last, req, queue, client>>
  BY DEF viewVars
<1>2. Truth(u, v)' = Truth(u, v) /\ Live' = Live
  BY <1>1, TruthStays, Untouched
<1>3. Pending(u, v) => Pending(u, v)'
  BY <1>1, <1>2 DEF Pending, Announces, Hears
<1> QED BY <1>1, <1>2, <1>3 DEF Kept

LEMMA StepKeepsPages == InOrder /\ Base /\ PagesInv /\ [Next]_vars => PagesInv'
<1> SUFFICES ASSUME InOrder, Base, PagesInv, [Next]_vars, Unexcused(PageExcuses)',
                    NEW u \in Users, NEW v \in Views
             PROVE  Kept(u, v)'
    BY DEF PagesInv
<1>1. excused \subseteq excused'
  <2>1. CASE UNCHANGED viewVars
    BY <2>1 DEF viewVars
  <2>2. ASSUME NEW r \in Requests, Step(r) PROVE excused \subseteq excused'
    BY <2>2 DEF Step, ReadRow, WriteRow, TellChange, WriteBatch, InsertView, CopyView,
       ClearMode, FailToClear, DeleteRow, TellDeletion, RestoreRow, Excuse
  <2>3. ASSUME NEW r \in Requests, Start(r) PROVE excused \subseteq excused'
    BY <2>3 DEF Start, PatchView, PatchViews, PostView, DuplicateView, DeleteView,
     DeletePrivateViewAsAdmin, UndeleteView, Begin
  <2>4. ASSUME NEW i \in DOMAIN queue, Callback(i) PROVE excused \subseteq excused'
    BY <2>4 DEF Callback, Excuse
  <2>5. ASSUME NEW x \in Users, Reload(x) PROVE excused \subseteq excused'
    BY <2>5 DEF Reload
  <2> QED BY <2>1, <2>2, <2>3, <2>4, <2>5 DEF Next, MemberStep, ViewStep, vars
<1>2. Kept(u, v)
  BY <1>1 DEF PagesInv, Unexcused
<1>3. /\ "stale" \notin excused' /\ "by position" \notin excused' /\ "cut short" \notin excused'
      /\ "told late" \notin excused' /\ "untold" \notin excused' /\ "half done" \notin excused'
  BY DEF Unexcused, PageExcuses
<1>4. ASSUME NEW r \in Requests, Step(r) PROVE Kept(u, v)'
  <2>1. ~FailToClear(r)
    BY <1>3 DEF FailToClear, Excuse
  <2> QED BY <1>2, <1>3, <1>4, <2>1, ReadRowKeepsPages, WriteRowKeepsPages, TellChangeKeepsPages,
     WriteBatchKeepsPages, InsertViewKeepsPages, CopyViewKeepsPages, ClearModeKeepsPages,
     DeleteRowKeepsPages, TellDeletionKeepsPages, RestoreRowKeepsPages DEF Step
<1>5. CASE ViewStep
  BY <1>2, <1>3, <1>4, <1>5, StartKeepsPages, CallbackKeepsPages, ReloadKeepsPages DEF ViewStep
<1>6. CASE UNCHANGED viewVars
  BY <1>2, <1>6, StillKept
<1> QED BY <1>5, <1>6 DEF Next, MemberStep, vars

LEMMA InitPages == Init => PagesInv
<1> SUFFICES ASSUME Init, NEW u \in Users, NEW v \in Views PROVE Kept(u, v)
    BY DEF PagesInv
<1>1. Base
  BY InitBase
<1>2. queue = <<>> /\ queue \in Seq(News) /\ client[u][v] = Truth(u, v)
  BY <1>1, TruthHeard DEF Init, Base, ViewsTypeOK
<1>3. \A i \in 1..Len(queue) : NewsShape(queue[i]) /\ v \notin ToSet(queue[i].ids)
  BY <1>2
<1>4. Settles(queue, client[u][v], u, v, Truth(u, v))
  BY <1>2, <1>3, SettlesUnnamed
<1> QED BY <1>4 DEF Kept

(* With one thread that calls back, once every request has returned and    *)
(* every callback has run, every page holds the views its user may see, in *)
(* the mode they have, and nobody holds another one's private view: but    *)
(* for what is named.                                                      *)
THEOREM PagesAgreeHolds ==
    ASSUME InOrder
    PROVE  Spec => []PagesAgree
<1>1. Base /\ PagesInv => PagesAgree
  <2> SUFFICES ASSUME Base, PagesInv, Settled, Unexcused(PageExcuses), NEW u \in Users
               PROVE  client[u] = PageOf(u)
      BY DEF PagesAgree, Unexcused, PageExcuses
  <2>1. ASSUME NEW v \in Views PROVE client[u][v] = PageOf(u)[v]
    <3>1. \A r \in Requests : ~Announces(req[r], u, v)
      BY Quiet DEF Settled
    <3>2. Settles(queue, client[u][v], u, v, Truth(u, v))
      BY <3>1 DEF PagesInv, Kept, Pending
    <3>3. queue \in Seq(News) /\ \A i \in 1..Len(queue) : NewsShape(queue[i]) /\ v \notin ToSet(queue[i].ids)
      BY DEF Settled, Base, ViewsTypeOK
    <3>4. client[u][v] = Truth(u, v)
      BY <3>2, <3>3, SettlesUnnamed
    <3> QED BY <3>4, TruthHeard
  <2>2. client[u] \in [Views -> Copies \cup {Absent}] /\ PageOf(u) \in [Views -> Copies \cup {Absent}]
    BY PageTyped DEF Base, ViewsTypeOK
  <2> QED BY <2>1, <2>2
<1>2. Base /\ PagesInv /\ [Next]_vars => PagesInv'
  BY StepKeepsPages
<1> QED BY <1>1, <1>2, InitBase, StepKeepsBase, InitPages, PTL DEF Spec
-----------------------------------------------------------------------------
(* What the menus of a page in step offer.                                 *)

\* The page holds a copy of each view its user may see, in the mode it has.
LEMMA SeenInStep ==
    ASSUME Base, NEW u \in Users, client[u] = PageOf(u)
    PROVE  /\ \A v \in Live : Hears(u, view[v]) =>
                /\ client[u][v] # Absent
                /\ client[u][v].mode = view[v].mode /\ client[u][v].by = view[v].by
           /\ {v \in Seen(u) : client[u][v].mode # "private"} = Shared
<1>1. ASSUME NEW v \in Views
      PROVE  client[u][v] = IF v \in Live /\ Hears(u, view[v])
                            THEN [mode |-> view[v].mode, by |-> view[v].by] ELSE Absent
  BY DEF PageOf
<1>2. ASSUME NEW v \in Live, Hears(u, view[v])
      PROVE  /\ client[u][v] # Absent
             /\ client[u][v].mode = view[v].mode /\ client[u][v].by = view[v].by
  <2>1. v \in Views
    BY DEF Live
  <2>2. PageOf(u)[v] # Absent
    BY <1>2, <2>1, TruthHeard
  <2>3. client[u][v] = [mode |-> view[v].mode, by |-> view[v].by]
    BY <1>1, <1>2, <2>1
  <2> QED BY <2>2, <2>3
<1>3. ASSUME NEW v \in Shared
      PROVE  v \in Seen(u) /\ client[u][v].mode # "private"
  <2>1. v \in Live /\ v \in Views /\ view[v].mode # "private"
    BY DEF Shared, Live
  <2>2. client[u][v] # Absent /\ client[u][v].mode # "private"
    BY <1>2, <2>1 DEF Hears
  <2> QED BY <2>1, <2>2 DEF Seen, Hears
<1>4. ASSUME NEW v \in Seen(u), client[u][v].mode # "private"
      PROVE  v \in Shared
  <2>1. v \in Views /\ client[u][v] # Absent
    BY DEF Seen
  <2>2. v \in Live /\ Hears(u, view[v])
    BY <1>1, <2>1
  <2> QED BY <1>2, <1>4, <2>2 DEF Shared
<1> QED BY <1>2, <1>3, <1>4

\* A menu that counts more than one shared view knows of another one.
LEMMA CountedShared ==
    ASSUME Base, NEW u \in Users, client[u] = PageOf(u), NEW v \in Shared
    PROVE  SharedViewCount(u) > 1 <=> ~LastShared(v)
<1>1. SharedViewCount(u) = Cardinality(Shared)
  BY SeenInStep DEF SharedViewCount
<1>2. IsFiniteSet(Shared)
  BY FS_Subset, ViewsAssumption DEF Shared, Live
<1>3. ASSUME LastShared(v) PROVE ~(Cardinality(Shared) > 1)
  <2>1. Cardinality({v}) = 1
    BY FS_Singleton
  <2> QED BY <1>3, <2>1 DEF LastShared
<1>4. ASSUME ~(Cardinality(Shared) > 1) PROVE LastShared(v)
  <2>1. \A x \in Shared : x = v
    BY <1>2, <1>4, AtMostOne
  <2> QED BY <2>1 DEF LastShared
<1> QED BY <1>1, <1>3, <1>4

(* In every state a page that is in step offers just what the gate lets    *)
(* through: the rules are the same in Go and in TypeScript, for any number *)
(* of views.                                                               *)
THEOREM MenusMatchGateHolds == Spec => []MenusMatchGate
<1>1. Base => MenusMatchGate
  <2> SUFFICES ASSUME Base, NEW u \in Users, NEW v \in Live, client[u] = PageOf(u),
                      Hears(u, view[v])
               PROVE  /\ \A m \in Modes \ {view[v].mode} :
                           m \in AccessModeTargets(u, v) <=> MayPatch(u, v, view[v], m)
                      /\ CanDeleteView(u, v) <=> MayDelete(u, v, view[v])
                      /\ ViewConfigLocked(u, v) <=> ~MayPatch(u, v, view[v], "config")
      BY DEF MenusMatchGate
  <2>1. client[u][v].mode = view[v].mode /\ client[u][v].by = view[v].by
    BY SeenInStep
  <2>2. view[v].mode \in Modes
    BY DEF Base, ViewsTypeOK, Live, Row
  <2>3. view[v].mode # "private" => (SharedViewCount(u) > 1 <=> ~LastShared(v))
    BY CountedShared DEF Shared
  <2>4. ASSUME NEW m \in Modes \ {view[v].mode}
        PROVE  m \in AccessModeTargets(u, v) <=> MayPatch(u, v, view[v], m)
    <3>1. m # "private" \/ view[v].mode # "private"
      OBVIOUS
    <3>2. m \notin {"order", "duplicate", "delete"}
      BY DEF Modes
    <3> QED BY <2>1, <2>2, <2>3, <3>1, <3>2
            DEF AccessModeTargets, MayPatch, MayTouch, MayMove, Modes
  <2>5. CanDeleteView(u, v) <=> MayDelete(u, v, view[v])
    BY <2>1, <2>3 DEF CanDeleteView, ViewConfigLocked, MayDelete, MayTouch, Hears
  <2>6. ViewConfigLocked(u, v) <=> ~MayPatch(u, v, view[v], "config")
    BY <2>1 DEF ViewConfigLocked, MayPatch, MayTouch, MayMove, Modes, Hears
  <2> QED BY <2>4, <2>5, <2>6
<1> QED BY <1>1, InitBase, StepKeepsBase, PTL DEF Spec
=============================================================================
