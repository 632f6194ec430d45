---------------------- MODULE SubscriptionNotifierProofs ----------------------
(***************************************************************************)
(* Proofs about SubscriptionNotifier, for any users, nodes and requests,   *)
(* any number of changes and any clock.                                    *)
(***************************************************************************)
EXTENDS SubscriptionNotifier, FiniteSetTheorems, SequenceTheorems,
        WellFoundedInduction, TLAPS

\* The changes whose transaction has ended.
Stored == {i \in DOMAIN log : log[i].stored}

\* BlockChanged runs at most once for each of them.
Called == events <= Cardinality(Stored)

Inv ==
    /\ TypeOK
    /\ Called

-----------------------------------------------------------------------------
(* The least and the greatest time stamp of a set.                         *)

LEMMA LeastExists ==
    ASSUME NEW T, T \subseteq Nat, T # {}
    PROVE  \E x \in T : \A y \in T : x <= y
<1> DEFINE R == OpToRel(<, Nat)
<1>1. IsWellFoundedOn(R, Nat)
  BY NatLessThanWellFounded
<1>2. \A x, y \in Nat : x < y => <<x, y>> \in R
  BY DEF OpToRel
<1> HIDE DEF R
<1>3. PICK x \in T : \A y \in T : <<y, x>> \notin R
  BY <1>1, WFMin
<1>4. ASSUME NEW y \in T PROVE x <= y
  <2>1. x \in Nat /\ y \in Nat
    OBVIOUS
  <2>2. ~ (y < x)
    BY <1>2, <1>3, <2>1
  <2>3. QED
    BY ONLY <2>1, <2>2
<1>5. QED
  BY <1>4

LEMMA GreatestExists ==
    ASSUME NEW n \in Nat, NEW T, T \subseteq 0 .. n, T # {}
    PROVE  \E x \in T : \A y \in T : x >= y
<1> DEFINE U == {n - x : x \in T}
<1>1. U \subseteq Nat
  <2>1. \A x \in T : x \in 0 .. n
    OBVIOUS
  <2>2. \A x \in T : n - x \in Nat
    BY <2>1
  <2>3. QED
    BY <2>2
<1>2. U # {}
  OBVIOUS
<1>3. \A y \in T : n - y \in U
  OBVIOUS
<1>4. \A u \in U : \E x \in T : u = n - x
  OBVIOUS
<1> HIDE DEF U
<1>5. PICK u \in U : \A v \in U : u <= v
  BY <1>1, <1>2, LeastExists
<1>6. PICK x \in T : u = n - x
  BY <1>4
<1>7. ASSUME NEW y \in T PROVE x >= y
  <2>1. x \in 0 .. n /\ y \in 0 .. n
    OBVIOUS
  <2>2. n - x <= n - y
    BY <1>3, <1>5, <1>6
  <2>3. QED
    BY <2>1, <2>2
<1>8. QED
  BY <1>7

LEMMA LeastStamp ==
    ASSUME NEW T, T \subseteq 0 .. MaxStamp, T # {}
    PROVE  Least(T) \in T /\ \A y \in T : Least(T) <= y
<1>1. T \subseteq Nat
  BY NotifierAssumption
<1>2. \E x \in T : \A y \in T : x <= y
  BY <1>1, LeastExists
<1>3. QED
  BY <1>2 DEF Least

LEMMA GreatestStamp ==
    ASSUME NEW T, T \subseteq 0 .. MaxStamp, T # {}
    PROVE  Greatest(T) \in T /\ \A y \in T : Greatest(T) >= y
<1>1. \E x \in T : \A y \in T : x >= y
  BY GreatestExists, NotifierAssumption
<1>2. QED
  BY <1>1 DEF Greatest

-----------------------------------------------------------------------------
(* What the queries of a run return.                                       *)

LEMMA LogShape ==
    ASSUME TypeOK
    PROVE  /\ DOMAIN log = 1 .. Len(log)
           /\ Len(log) \in Nat
           /\ DOMAIN log \subseteq Changes
           /\ \A i \in DOMAIN log : log[i] \in Version /\ log[i].at \in 0 .. MaxStamp
<1>1. log \in Seq(Version) /\ Len(log) <= MaxChanges
  BY DEF TypeOK
<1>2. /\ DOMAIN log = 1 .. Len(log)
      /\ Len(log) \in Nat
      /\ log \in [1 .. Len(log) -> Version]
  BY <1>1, LenProperties
<1>3. DOMAIN log \subseteq Changes
  BY <1>1, <1>2, NotifierAssumption DEF Changes
<1>4. \A i \in DOMAIN log : log[i] \in Version /\ log[i].at \in 0 .. MaxStamp
  BY <1>2 DEF Version
<1>5. QED
  BY <1>2, <1>3, <1>4

LEMMA OldestStamp ==
    ASSUME TypeOK, Subscribers # {}
    PROVE  /\ Least({notifiedAt[u] : u \in Subscribers}) \in 0 .. MaxStamp
           /\ \E u \in Subscribers : Least({notifiedAt[v] : v \in Subscribers}) = notifiedAt[u]
<1> DEFINE T == {notifiedAt[u] : u \in Subscribers}
<1>1. T \subseteq 0 .. MaxStamp
  BY DEF TypeOK, Subscribers
<1>2. T # {} /\ \A u \in Subscribers : notifiedAt[u] \in T
  OBVIOUS
<1>3. Least(T) \in T /\ \A y \in T : Least(T) <= y
  BY <1>1, <1>2, LeastStamp
<1>4. QED
  BY <1>1, <1>2, <1>3

LEMMA NewestStamp ==
    ASSUME TypeOK, NEW n \in 0 .. MaxStamp, NEW V \in SUBSET DOMAIN log
    PROVE  LET newest == Greatest({n} \cup {log[i].at : i \in V})
           IN  /\ newest \in 0 .. MaxStamp
               /\ newest >= n
               /\ \A i \in V : newest >= log[i].at
<1> DEFINE T == {n} \cup {log[i].at : i \in V}
<1>1. T \subseteq 0 .. MaxStamp /\ T # {} /\ n \in T /\ \A i \in V : log[i].at \in T
  BY LogShape
<1>2. Greatest(T) \in T /\ \A y \in T : Greatest(T) >= y
  BY <1>1, GreatestStamp
<1>3. QED
  BY <1>1, <1>2

LEMMA GotoStep ==
    ASSUME TypeOK, NEW w \in Workers, NEW state \in Run, Goto(w, state)
    PROVE  /\ run' \in [Workers -> Run]
           /\ run'[w] = state
           /\ \A v \in Workers : v # w => run'[v] = run[v]
BY DEF TypeOK, Goto

LEMMA IdleIsRun ==
    /\ Idle \in Run
    /\ Idle.at = "idle"
    /\ \A w : Returned(w) \in Run /\ Returned(w).at \in {"idle", "forget"}
BY NotifierAssumption DEF Idle, Returned, Run

-----------------------------------------------------------------------------
(* The steps of notifySubscribers.                                         *)

LEMMA GetStep ==
    ASSUME TypeOK, NEW w \in Workers, GetSubscribersForBlock(w)
    PROVE  /\ run' \in [Workers -> Run]
           /\ \A v \in Workers : v # w => run'[v] = run[v]
           /\ \/ run'[w].at \in {"idle", "forget"}
              \/ /\ run'[w].at = "diffs"
                 /\ \E u \in Subscribers : run'[w].oldest = notifiedAt[u]
<1> DEFINE oldest == Least({notifiedAt[u] : u \in Subscribers})
           begun == [Idle EXCEPT !.at = "diffs", !.subs = Subscribers, !.oldest = oldest]
<1>1. CASE Subscribers = {}
  <2>1. Goto(w, Returned(w))
    BY <1>1 DEF GetSubscribersForBlock
  <2>2. QED
    BY <2>1, IdleIsRun, GotoStep
<1>2. CASE Subscribers # {}
  <2>1. /\ oldest \in 0 .. MaxStamp
        /\ \E u \in Subscribers : oldest = notifiedAt[u]
    BY <1>2, OldestStamp
  <2>2. Goto(w, begun)
    BY <1>2 DEF GetSubscribersForBlock
  <2> HIDE DEF oldest
  <2>3. begun \in Run /\ begun.at = "diffs" /\ begun.oldest = oldest
    <3>1. Subscribers \in SUBSET Users
      BY DEF Subscribers
    <3>2. QED
      BY <2>1, <3>1, IdleIsRun DEF Run
  <2> HIDE DEF begun
  <2>4. QED
    BY <2>1, <2>2, <2>3, GotoStep
<1>3. QED
  BY <1>1, <1>2

LEMMA DiffCardStep ==
    ASSUME TypeOK, NEW w \in Workers, DiffCard(w)
    PROVE  /\ run' \in [Workers -> Run]
           /\ \A v \in Workers : v # w => run'[v] = run[v]
           /\ run[w].at = "diffs" /\ run'[w].at = "children"
           /\ run'[w].diff = After("card", run[w].oldest)
           /\ \A i \in After("card", 0) : run'[w].newest >= log[i].at
<1> DEFINE versions == After("card", 0)
           newest == Greatest({CreatedAt} \cup {log[i].at : i \in versions})
           read == [run[w] EXCEPT !.at = "children",
                                  !.diff = After("card", run[w].oldest), !.newest = newest]
<1>1. /\ versions \subseteq DOMAIN log
      /\ After("card", run[w].oldest) \subseteq Changes
  BY LogShape DEF After
<1>2. /\ newest \in 0 .. MaxStamp
      /\ \A i \in versions : newest >= log[i].at
  <2>1. CreatedAt \in 0 .. MaxStamp
    BY NotifierAssumption DEF CreatedAt
  <2>2. QED
    BY <1>1, <2>1, NewestStamp
<1>3. Goto(w, read) /\ run[w].at = "diffs"
  BY DEF DiffCard
<1> HIDE DEF newest
<1>4. /\ read \in Run
      /\ read.at = "children" /\ read.newest = newest
      /\ read.diff = After("card", run[w].oldest)
  BY <1>1, <1>2 DEF TypeOK, Run
<1> HIDE DEF read
<1>5. QED
  BY <1>2, <1>3, <1>4, GotoStep

LEMMA DiffChildrenStep ==
    ASSUME TypeOK, NEW w \in Workers, DiffChildren(w)
    PROVE  /\ run' \in [Workers -> Run]
           /\ \A v \in Workers : v # w => run'[v] = run[v]
           /\ run[w].at = "children" /\ run'[w].at = "deliver"
           /\ run'[w].diff = run[w].diff \cup After("child", run[w].oldest)
           /\ run'[w].newest >= run[w].newest
           /\ run'[w].newest \in Nat /\ run[w].newest \in Nat
<1> DEFINE changed == After("child", run[w].oldest)
           newest == Greatest({run[w].newest} \cup {log[i].at : i \in changed})
           read == [run[w] EXCEPT !.at = "deliver",
                                  !.diff = run[w].diff \cup changed, !.newest = newest]
<1>1. changed \subseteq DOMAIN log /\ changed \subseteq Changes
  BY LogShape DEF After
<1>2. run[w].newest \in 0 .. MaxStamp
  BY DEF TypeOK, Run
<1>3. newest \in 0 .. MaxStamp /\ newest >= run[w].newest
  BY <1>1, <1>2, NewestStamp
<1>4. Goto(w, read) /\ run[w].at = "children"
  BY DEF DiffChildren
<1> HIDE DEF newest, changed
<1>5. /\ read \in Run
      /\ read.at = "deliver" /\ read.newest = newest
      /\ read.diff = run[w].diff \cup changed
  BY <1>1, <1>3 DEF TypeOK, Run
<1> HIDE DEF read
<1>6. QED
  BY <1>2, <1>3, <1>4, <1>5, GotoStep, NotifierAssumption DEF changed

LEMMA DeliverStep ==
    ASSUME TypeOK, NEW w \in Workers, Deliver(w)
    PROVE  /\ run' \in [Workers -> Run]
           /\ \A v \in Workers : v # w => run'[v] = run[v]
           /\ run[w].at = "deliver" /\ run'[w].at = "update"
           /\ run'[w].newest = run[w].newest
           /\ told' \in [Receivers -> [Changes -> 0 .. 2]]
           /\ \A r \in Receivers : \A i \in Changes :
                \/ told'[r][i] = told[r][i]
                \/ i \in run[w].diff /\ (told[r][i] = 0 => told'[r][i] = 1)
<1> DEFINE given == [run[w] EXCEPT !.at = "update"]
<1>1. Goto(w, given) /\ run[w].at = "deliver"
  BY DEF Deliver
<1>2. given \in Run /\ given.at = "update" /\ given.newest = run[w].newest
  BY DEF TypeOK, Run
<1> HIDE DEF given
<1>3. \A r \in Receivers : \A i \in Changes :
        /\ told[r][i] \in 0 .. 2
        /\ told'[r][i] = IF r \notin Recipients(w) \/ i \notin run[w].diff THEN told[r][i]
                         ELSE IF told[r][i] = 0 THEN 1 ELSE 2
  BY DEF Deliver, TypeOK
<1>4. told' \in [Receivers -> [Changes -> 0 .. 2]]
  <2>1. \A r \in Receivers : \A i \in Changes :
          (IF r \notin Recipients(w) \/ i \notin run[w].diff THEN told[r][i]
           ELSE IF told[r][i] = 0 THEN 1 ELSE 2) \in 0 .. 2
    BY <1>3
  <2>2. QED
    BY <2>1 DEF Deliver
<1>5. QED
  BY <1>1, <1>2, <1>3, <1>4, GotoStep

LEMMA UpdateStep ==
    ASSUME TypeOK, NEW w \in Workers, UpdateSubscribersNotifiedAt(w)
    PROVE  /\ run' \in [Workers -> Run]
           /\ \A v \in Workers : v # w => run'[v] = run[v]
           /\ run[w].at = "update" /\ run'[w].at \in {"idle", "forget"}
           /\ notifiedAt' \in [Users -> 0 .. MaxStamp]
           /\ \A u \in Users : notifiedAt'[u] = 0 \/ notifiedAt'[u] = run[w].newest
<1>1. Goto(w, Returned(w)) /\ run[w].at = "update"
  BY DEF UpdateSubscribersNotifiedAt
<1>2. notifiedAt' = [u \in Users |-> IF u \in Subscribers THEN run[w].newest ELSE 0]
  BY DEF UpdateSubscribersNotifiedAt
<1>3. run[w].newest \in 0 .. MaxStamp /\ 0 \in 0 .. MaxStamp
  BY NotifierAssumption DEF TypeOK, Run
<1>4. QED
  BY <1>1, <1>2, <1>3, IdleIsRun, GotoStep

-----------------------------------------------------------------------------
(* The steps that write the history.                                       *)

LEMMA ChangeStep ==
    ASSUME TypeOK, NEW u \in Users, NEW kind \in Kinds, Change(u, kind)
    PROVE  /\ now \in 1 .. MaxStamp /\ now' = now + 1
           /\ log' \in Seq(Version) /\ Len(log') <= MaxChanges
           /\ \A i \in DOMAIN log' :
                \/ i \in DOMAIN log /\ log'[i] = log[i]
                \/ i \notin DOMAIN log /\ log'[i].at = now /\ log'[i].kind = kind
           /\ \A i \in DOMAIN log : i \in DOMAIN log' /\ log'[i] = log[i]
           /\ Stored' = Stored
<1> DEFINE new == [at |-> now, kind |-> kind, by |-> u, stored |-> FALSE]
<1>1. now \in 1 .. MaxStamp /\ now' = now + 1 /\ Len(log) < MaxChanges
  BY NotifierAssumption DEF Change, Stamp, TypeOK
<1>2. log' = Append(log, new)
  BY DEF Change
<1>3. new \in Version /\ new.at = now /\ new.kind = kind /\ new.stored = FALSE
  BY <1>1, NotifierAssumption DEF Version
<1> HIDE DEF new
<1>4. log \in Seq(Version) /\ Len(log) \in Nat /\ DOMAIN log = 1 .. Len(log)
  BY LogShape DEF TypeOK
<1>5. /\ log' \in Seq(Version) /\ Len(log') = Len(log) + 1
      /\ \A i \in 1 .. Len(log) : log'[i] = log[i]
      /\ log'[Len(log) + 1] = new
  BY <1>2, <1>3, <1>4, AppendProperties
<1>6. DOMAIN log' = 1 .. Len(log) + 1
  BY <1>5, LenProperties
<1>7. \A i \in DOMAIN log' :
        \/ i \in DOMAIN log /\ log'[i] = log[i]
        \/ i \notin DOMAIN log /\ log'[i] = new
  BY <1>4, <1>5, <1>6
<1>8. \A i \in DOMAIN log : i \in DOMAIN log' /\ log'[i] = log[i]
  BY <1>4, <1>5, <1>6
<1>9. Stored' = Stored
  <2>1. \A i \in DOMAIN log' : log'[i].stored => i \in DOMAIN log /\ log[i].stored
    BY <1>3, <1>7
  <2>2. \A i \in DOMAIN log : log[i].stored => i \in DOMAIN log' /\ log'[i].stored
    BY <1>8
  <2>3. QED
    BY <2>1, <2>2 DEF Stored
<1>10. Len(log') <= MaxChanges
  BY <1>1, <1>4, <1>5, NotifierAssumption
<1>11. QED
  BY <1>1, <1>3, <1>5, <1>7, <1>8, <1>9, <1>10

LEMMA CommitStep ==
    ASSUME TypeOK, Commit
    PROVE  /\ log' \in Seq(Version) /\ Len(log') = Len(log)
           /\ DOMAIN log' = DOMAIN log
           /\ \A j \in DOMAIN log : /\ log'[j].at = log[j].at
                                    /\ log'[j].kind = log[j].kind
           /\ \E i \in DOMAIN log : i \notin Stored /\ Stored' = Stored \cup {i}
           /\ events' = events + 1
<1>1. PICK i \in Open : log' = [log EXCEPT ![i].stored = TRUE]
  BY DEF Commit
<1>2. i \in DOMAIN log /\ ~log[i].stored
  BY <1>1 DEF Open
<1>3. log \in Seq(Version) /\ Len(log) \in Nat /\ DOMAIN log = 1 .. Len(log)
  BY LogShape DEF TypeOK
<1> DEFINE ended == [log[i] EXCEPT !.stored = TRUE]
<1>4. log[i] \in Version
  BY <1>2, LogShape
<1>5. ended \in Version /\ ended.at = log[i].at /\ ended.kind = log[i].kind /\ ended.stored = TRUE
  BY <1>4 DEF Version
<1>6. log' = [log EXCEPT ![i] = ended]
  BY <1>1
<1> HIDE DEF ended
<1>7. /\ log' \in Seq(Version) /\ Len(log') = Len(log)
      /\ \A j \in 1 .. Len(log) : log'[j] = IF j = i THEN ended ELSE log[j]
  BY <1>2, <1>3, <1>5, <1>6, ExceptSeq
<1>8. DOMAIN log' = DOMAIN log
  BY <1>3, <1>7, LenProperties
<1>9. \A j \in DOMAIN log : log'[j].at = log[j].at /\ log'[j].kind = log[j].kind
  BY <1>3, <1>5, <1>7
<1>10. \A j \in DOMAIN log : log'[j].stored <=> j = i \/ log[j].stored
  BY <1>3, <1>4, <1>5, <1>7, LogShape DEF Version
<1>11. i \notin Stored /\ Stored' = Stored \cup {i}
  BY <1>2, <1>8, <1>10 DEF Stored
<1>12. events' = events + 1
  BY DEF Commit
<1>13. QED
  BY <1>2, <1>7, <1>8, <1>9, <1>11, <1>12

LEMMA StoredCount ==
    ASSUME TypeOK
    PROVE  /\ IsFiniteSet(Stored)
           /\ Cardinality(Stored) \in Nat
           /\ Cardinality(Stored) <= MaxChanges
<1>1. /\ IsFiniteSet(1 .. Len(log))
      /\ Cardinality(1 .. Len(log)) <= Len(log)
  BY LogShape, FS_Interval
<1>2. Stored \in SUBSET (1 .. Len(log))
  BY LogShape DEF Stored
<1>3. /\ IsFiniteSet(Stored)
      /\ Cardinality(Stored) <= Cardinality(1 .. Len(log))
  BY <1>1, <1>2, FS_Subset
<1>4. Cardinality(Stored) \in Nat /\ Cardinality(1 .. Len(log)) \in Nat
  BY <1>1, <1>3, FS_CardinalityType
<1>5. QED
  BY <1>1, <1>3, <1>4, LogShape, NotifierAssumption DEF TypeOK

-----------------------------------------------------------------------------
(* The invariant of the shapes.                                            *)

LEMMA InvInit == Init => Inv
<1> SUFFICES ASSUME Init PROVE Inv
  OBVIOUS
<1>1. TypeOK
  <2>1. log = <<>> /\ log \in Seq(Version) /\ Len(log) = 0
    BY DEF Init
  <2>2. run \in [Workers -> Run]
    BY IdleIsRun DEF Init
  <2>3. now \in 1 .. MaxStamp + 1 /\ notifiedAt \in [Users -> 0 .. MaxStamp]
    BY NotifierAssumption DEF Init
  <2>4. /\ owed \in [Receivers -> SUBSET Changes]
        /\ told \in [Receivers -> [Changes -> 0 .. 2]]
        /\ hint \in {"none", "waiting", "due"}
    BY DEF Init
  <2>5. events \in 0 .. MaxChanges /\ 0 <= MaxChanges
    BY NotifierAssumption DEF Init
  <2>6. QED
    BY <2>1, <2>2, <2>3, <2>4, <2>5 DEF TypeOK
<1>2. Called
  BY <1>1, StoredCount DEF Called, Init
<1>3. QED
  BY <1>1, <1>2 DEF Inv

LEMMA InvStep == Inv /\ [Next]_vars => Inv'
<1> SUFFICES ASSUME Inv, [Next]_vars PROVE Inv'
  OBVIOUS
<1>0. TypeOK /\ Called
  BY DEF Inv
<1>a. ASSUME UNCHANGED log, events' \in 0 .. MaxChanges, events' <= events
      PROVE  Called'
  <2>1. Cardinality(Stored) \in Nat /\ Stored' = Stored
    BY <1>0, <1>a, StoredCount DEF Stored
  <2>2. QED
    BY <1>0, <1>a, <2>1, NotifierAssumption DEF Called, TypeOK
<1>b. ASSUME UNCHANGED <<now, log, events>>,
             hint' \in {"none", "waiting", "due"},
             notifiedAt' \in [Users -> 0 .. MaxStamp],
             run' \in [Workers -> Run],
             owed' \in [Receivers -> SUBSET Changes],
             told' \in [Receivers -> [Changes -> 0 .. 2]]
      PROVE  Inv'
  <2>1. TypeOK'
    BY <1>0, <1>b DEF TypeOK
  <2>2. Called'
    BY <1>0, <1>a, <1>b, NotifierAssumption DEF TypeOK
  <2>3. QED
    BY <2>1, <2>2 DEF Inv
<1>1. CASE UNCHANGED vars
  BY <1>0, <1>1, <1>b DEF vars, TypeOK
<1>2. ASSUME NEW u \in Users, NEW kind \in Kinds, Change(u, kind)
      PROVE  Inv'
  <2>1. /\ now' \in 1 .. MaxStamp + 1
        /\ log' \in Seq(Version) /\ Len(log') <= MaxChanges
        /\ Stored' = Stored
    BY <1>0, <1>2, ChangeStep, NotifierAssumption
  <2>2. UNCHANGED <<events, hint, notifiedAt, run, told>>
    BY <1>2 DEF Change
  <2>3. owed' \in [Receivers -> SUBSET Changes]
    <3>1. Len(log) + 1 \in Changes
      BY <1>0, <1>2, LogShape, NotifierAssumption DEF Change, Changes
    <3>2. QED
      BY <1>0, <1>2, <3>1 DEF Change, TypeOK
  <2>4. QED
    BY <1>0, <2>1, <2>2, <2>3 DEF Inv, TypeOK, Called
<1>3. CASE Commit
  <2>1. /\ log' \in Seq(Version) /\ Len(log') = Len(log)
        /\ events' = events + 1
    BY <1>0, <1>3, CommitStep
  <2>2. PICK i \in DOMAIN log : i \notin Stored /\ Stored' = Stored \cup {i}
    BY <1>0, <1>3, CommitStep
  <2>3. UNCHANGED <<now, hint, notifiedAt, run, owed, told>>
    BY <1>3 DEF Commit
  <2>4. Cardinality(Stored') = Cardinality(Stored) + 1
    BY <1>0, <2>2, StoredCount, FS_AddElement
  <2>5. events' <= Cardinality(Stored')
    BY <1>0, <2>1, <2>4, StoredCount, NotifierAssumption DEF Called, TypeOK
  <2>6. Cardinality(Stored') <= MaxChanges
    <3>1. Stored' \subseteq 1 .. Len(log)
      BY <1>0, <2>2, LogShape DEF Stored
    <3>2. /\ IsFiniteSet(1 .. Len(log)) /\ Cardinality(1 .. Len(log)) <= Len(log)
          /\ Cardinality(1 .. Len(log)) \in Nat
      BY <1>0, LogShape, FS_Interval, FS_CardinalityType
    <3>3. /\ IsFiniteSet(Stored')
          /\ Cardinality(Stored') <= Cardinality(1 .. Len(log))
      BY <3>1, <3>2, FS_Subset
    <3>4. Cardinality(Stored') \in Nat
      BY <3>3, FS_CardinalityType
    <3>5. QED
      BY <1>0, <3>2, <3>3, <3>4, LogShape, NotifierAssumption DEF TypeOK
  <2>7. events' \in 0 .. MaxChanges
    BY <1>0, <2>1, <2>4, <2>5, <2>6, StoredCount, NotifierAssumption DEF TypeOK
  <2>8. QED
    BY <1>0, <2>1, <2>3, <2>5, <2>7 DEF Inv, TypeOK, Called
<1>4. CASE BlockChanged
  <2>1. /\ UNCHANGED <<now, log, notifiedAt, run, owed, told>>
        /\ events' \in 0 .. MaxChanges /\ events' <= events
        /\ hint' \in {"none", "waiting", "due"}
    BY <1>0, <1>4, NotifierAssumption DEF BlockChanged, TypeOK
  <2>2. Called'
    BY <1>a, <2>1
  <2>3. QED
    BY <1>0, <2>1, <2>2 DEF Inv, TypeOK
<1>5. CASE HintDue
  BY <1>0, <1>5, <1>b DEF HintDue, TypeOK
<1>6. ASSUME NEW u \in Users, CreateSubscription(u)
      PROVE  Inv'
  <2>1. UNCHANGED <<log, events, hint, run, owed, told>>
    BY <1>6 DEF CreateSubscription
  <2>2. /\ now' \in 1 .. MaxStamp + 1
        /\ notifiedAt' \in [Users -> 0 .. MaxStamp]
    BY <1>0, <1>6, NotifierAssumption DEF CreateSubscription, Stamp, TypeOK
  <2>3. QED
    BY <1>0, <1>a, <2>1, <2>2, NotifierAssumption DEF Inv, TypeOK
<1>7. ASSUME NEW u \in Users, DeleteSubscription(u)
      PROVE  Inv'
  <2>1. UNCHANGED <<now, log, events, hint, run, told>>
    BY <1>7 DEF DeleteSubscription
  <2>2. notifiedAt' \in [Users -> 0 .. MaxStamp]
    <3>1. 0 \in 0 .. MaxStamp
      BY NotifierAssumption
    <3>2. QED
      BY <1>0, <1>7, <3>1 DEF DeleteSubscription, TypeOK
  <2>3. owed' \in [Receivers -> SUBSET Changes]
    BY <1>0, <1>7 DEF DeleteSubscription, TypeOK
  <2>4. QED
    BY <1>0, <1>b, <2>1, <2>2, <2>3 DEF TypeOK
<1>8. ASSUME NEW w \in Workers, NotifySubscribers(w)
      PROVE  Inv'
  <2>1. UNCHANGED <<now, log, events, hint, owed>>
    BY <1>8 DEF NotifySubscribers, GetSubscribersForBlock, DiffCard, DiffChildren,
                Deliver, UpdateSubscribersNotifiedAt
  <2>2. run' \in [Workers -> Run]
    BY <1>0, <1>8, GetStep, DiffCardStep, DiffChildrenStep, DeliverStep, UpdateStep
    DEF NotifySubscribers
  <2>3. notifiedAt' \in [Users -> 0 .. MaxStamp]
    <3>1. CASE UpdateSubscribersNotifiedAt(w)
      BY <1>0, <3>1, UpdateStep
    <3>2. CASE UNCHANGED notifiedAt
      BY <1>0, <3>2 DEF TypeOK
    <3>3. QED
      BY <1>8, <3>1, <3>2 DEF NotifySubscribers, GetSubscribersForBlock, DiffCard,
                              DiffChildren, Deliver
  <2>4. told' \in [Receivers -> [Changes -> 0 .. 2]]
    <3>1. CASE Deliver(w)
      BY <1>0, <3>1, DeliverStep
    <3>2. CASE UNCHANGED told
      BY <1>0, <3>2 DEF TypeOK
    <3>3. QED
      BY <1>8, <3>1, <3>2 DEF NotifySubscribers, GetSubscribersForBlock, DiffCard,
                              DiffChildren, UpdateSubscribersNotifiedAt
  <2>5. QED
    BY <1>0, <1>b, <2>1, <2>2, <2>3, <2>4 DEF TypeOK
<1>9. ASSUME NEW w \in Workers,
             \/ Look(w)
             \/ Pop(w)
             \/ ForceNotifyBlock(w)
             \/ DeleteNotificationHint(w)
      PROVE  Inv'
  <2>1. UNCHANGED <<now, log, events, notifiedAt, owed, told>>
    BY <1>9 DEF Look, Pop, ForceNotifyBlock, DeleteNotificationHint
  <2>2. hint' \in {"none", "waiting", "due"}
    BY <1>0, <1>9 DEF Look, Pop, ForceNotifyBlock, DeleteNotificationHint, TypeOK
  <2>3. run' \in [Workers -> Run]
    <3>1. \A at \in {"pop", "subscribers"} : [Idle EXCEPT !.at = at] \in Run
      BY IdleIsRun DEF Run
    <3>2. \E state \in Run : Goto(w, state)
      BY <1>9, <3>1, IdleIsRun DEF Look, Pop, ForceNotifyBlock, DeleteNotificationHint
    <3>3. QED
      BY <1>0, <3>2, GotoStep
  <2>4. QED
    BY <1>0, <1>b, <2>1, <2>2, <2>3 DEF TypeOK
<1>10. QED
  BY <1>1, <1>2, <1>3, <1>4, <1>5, <1>6, <1>7, <1>8, <1>9
  DEF Next, NodeStep, ForceStep, Workers

(* The tables, the history and the runs keep their shape, and BlockChanged *)
(* is called at most once for every change that was stored.                *)
THEOREM TypeInvariant == Spec => []Inv
<1>1. Init => Inv
  BY InvInit
<1>2. Inv /\ [Next]_vars => Inv'
  BY InvStep
<1>3. QED
  BY <1>1, <1>2, PTL DEF Spec

(* The shapes alone, for any users, nodes, forced notifications, changes   *)
(* and clock.                                                              *)
THEOREM TypeCorrect == Spec => []TypeOK
<1>1. Inv => TypeOK
  BY DEF Inv
<1>2. QED
  BY <1>1, TypeInvariant, PTL

-----------------------------------------------------------------------------
(* Nothing is told twice, if runs for the card do not overlap and it is    *)
(* only the card itself that changes.                                      *)

OneRun == MaxRuns <= 1 /\ Kinds \subseteq {"card"}

Delivered == {i \in Changes : \E r \in Receivers : told[r][i] # 0}

\* The clock is ahead of the history, which is that of the card, and only
\* what was stored has been told.
History ==
    /\ \A i \in DOMAIN log : log[i].at < now /\ log[i].kind = "card"
    /\ Delivered \subseteq Stored

Alone == \A v, w \in Running : v = w

\* What was told before is at most t.
Until(t) == \A i \in Delivered : log[i].at <= t

\* The same after the step.
Later(t) == \A i \in Delivered' : log'[i].at <= t

\* What a run has found so far: it has not been told, and together with what
\* was told it is no newer than what notified_at will say.
Found(w) ==
    /\ run[w].at = "diffs" => Until(run[w].oldest)
    /\ run[w].at \in {"children", "deliver"} =>
         /\ run[w].diff \cap Delivered = {}
         /\ run[w].diff \subseteq Stored
         /\ Until(run[w].newest)
         /\ \A i \in run[w].diff : log[i].at <= run[w].newest
    /\ run[w].at = "update" => Until(run[w].newest)

\* Between runs notified_at is no older than what was told.
Kept ==
    (\A w \in Workers : run[w].at # "update") =>
        \A u \in Subscribers : Until(notifiedAt[u])

OnceInv ==
    /\ NoRepeat
    /\ History
    /\ Alone
    /\ \A w \in Workers : Found(w)
    /\ Kept

(* A run begins when no other is under way.                                *)
LEMMA NoneRunning ==
    ASSUME OneRun, Cardinality(Running) < MaxRuns
    PROVE  Running = {}
<1>1. Running \subseteq Nodes \cup Forces
  BY DEF Running, Workers
<1>2. IsFiniteSet(Running) /\ Cardinality(Running) \in Nat
  BY <1>1, FS_Subset, FS_CardinalityType, NotifierAssumption
<1>3. Cardinality(Running) = 0
  BY <1>2, NotifierAssumption DEF OneRun
<1>4. QED
  BY <1>2, <1>3, FS_EmptySet

\* Nothing is delivered, and what is in the history stays as it is.
Quiet ==
    /\ told' = told
    /\ \A i \in Stored : i \in Stored' /\ log'[i].at = log[i].at

(* What holds of the changes told so far goes on to hold.                  *)
LEMMA QuietKeeps ==
    ASSUME TypeOK, OnceInv, Quiet
    PROVE  /\ NoRepeat'
           /\ Delivered' = Delivered
           /\ Delivered' \subseteq Stored'
           /\ \A t : Until(t) => Later(t)
           /\ \A w \in Workers : run'[w] = run[w] => Found(w)'
<1>1. NoRepeat' /\ Delivered' = Delivered
  BY DEF OnceInv, NoRepeat, Quiet, Delivered
<1>2. Delivered' \subseteq Stored'
  BY <1>1 DEF OnceInv, History, Quiet
<1>3. ASSUME NEW t, Until(t) PROVE Later(t)
  BY <1>1, <1>3 DEF OnceInv, History, Quiet, Until, Later
<1>4. ASSUME NEW w \in Workers, run'[w] = run[w] PROVE Found(w)'
  <2>1. Found(w)
    BY DEF OnceInv
  <2>2. ASSUME run[w].diff \subseteq Stored, \A i \in run[w].diff : log[i].at <= run[w].newest
        PROVE  run[w].diff \subseteq Stored' /\ \A i \in run[w].diff : log'[i].at <= run[w].newest
    BY <2>2 DEF Quiet
  <2>3. QED
    BY <1>1, <1>3, <1>4, <2>1, <2>2 DEF Found, Until, Later
<1>5. QED
  BY <1>1, <1>2, <1>3, <1>4

(* A step of a run that is under way and delivers nothing.                 *)
LEMMA RunStepKeeps ==
    ASSUME TypeOK, OnceInv, NEW w \in Workers,
           UNCHANGED <<now, log, told, notifiedAt>>,
           run[w].at \notin {"idle", "pop", "update"},
           run'[w].at # "update",
           \A v \in Workers : v # w => run'[v] = run[v],
           Found(w)'
    PROVE  OnceInv'
<1>1. Quiet
  BY DEF Quiet, Stored
<1>2. NoRepeat' /\ Delivered' = Delivered /\ Delivered' \subseteq Stored'
  BY <1>1, QuietKeeps
<1>3. History'
  BY <1>2 DEF OnceInv, History
<1>4. w \in Running /\ \A v \in Workers : v # w => v \notin Running
  BY DEF OnceInv, Alone, Running
<1>5. Alone'
  BY <1>4 DEF Alone, Running
<1>6. ASSUME NEW v \in Workers PROVE Found(v)'
  BY <1>1, QuietKeeps
<1>7. Kept'
  <2>1. \A v \in Workers : run[v].at # "update"
    BY <1>4 DEF Running
  <2>2. \A u \in Subscribers : Until(notifiedAt[u])
    BY <2>1 DEF OnceInv, Kept
  <2>3. \A u \in Subscribers : Later(notifiedAt[u])
    BY <1>1, <2>2, QuietKeeps
  <2>4. Subscribers' = Subscribers
    BY DEF Subscribers
  <2>5. QED
    BY <2>3, <2>4 DEF Kept, Until, Later
<1>8. QED
  BY <1>2, <1>3, <1>5, <1>6, <1>7 DEF OnceInv

LEMMA OnceStep ==
    ASSUME OneRun, Inv, OnceInv, [Next]_vars
    PROVE  OnceInv'
<1>0. TypeOK
  BY DEF Inv
<1>a. Delivered \subseteq Stored /\ Stored \subseteq DOMAIN log
  BY DEF OnceInv, History, Stored
<1>b. \A i \in DOMAIN log : log[i].at < now /\ log[i].kind = "card"
  BY DEF OnceInv, History
<1>c. \A t : After("card", t) = {i \in Stored : log[i].at > t} /\ After("child", t) = {}
  BY <1>b DEF After, Open, Stored
\* A step that leaves the runs alone.
<1>d. ASSUME Quiet, run' = run, History', Kept'
      PROVE  OnceInv'
  <2>1. NoRepeat' /\ \A w \in Workers : Found(w)'
    BY <1>0, <1>d, QuietKeeps
  <2>2. Alone'
    BY <1>d DEF OnceInv, Alone, Running
  <2>3. QED
    BY <1>d, <2>1, <2>2 DEF OnceInv
<1>e. ASSUME Quiet, run' = run, notifiedAt' = notifiedAt
      PROVE  Kept'
  <2>1. \A u \in Subscribers : Until(notifiedAt[u]) => Later(notifiedAt[u])
    BY <1>0, <1>e, QuietKeeps
  <2>2. Subscribers' = Subscribers
    BY <1>e DEF Subscribers
  <2>3. QED
    BY <1>e, <2>1, <2>2 DEF OnceInv, Kept, Until, Later
\* A step that leaves the history alone as well.
<1>f. ASSUME UNCHANGED <<now, log, told, notifiedAt, run>>
      PROVE  OnceInv'
  <2>1. Quiet
    BY <1>f DEF Quiet, Stored
  <2>2. History'
    BY <1>0, <1>f, <2>1, QuietKeeps DEF OnceInv, History
  <2>3. QED
    BY <1>d, <1>e, <1>f, <2>1, <2>2
<1>1. CASE UNCHANGED vars \/ BlockChanged \/ HintDue
  BY <1>1, <1>f DEF vars, BlockChanged, HintDue
<1>2. ASSUME NEW u \in Users, NEW kind \in Kinds, Change(u, kind)
      PROVE  OnceInv'
  <2>1. UNCHANGED <<notifiedAt, run, told>>
    BY <1>2 DEF Change
  <2>2. /\ now \in 1 .. MaxStamp /\ now' = now + 1
        /\ Stored' = Stored
        /\ \A i \in DOMAIN log : i \in DOMAIN log' /\ log'[i] = log[i]
        /\ \A i \in DOMAIN log' :
             \/ i \in DOMAIN log /\ log'[i] = log[i]
             \/ i \notin DOMAIN log /\ log'[i].at = now /\ log'[i].kind = kind
    BY <1>0, <1>2, ChangeStep
  <2>3. Quiet
    BY <1>a, <2>1, <2>2 DEF Quiet
  <2>4. \A i \in DOMAIN log' : log'[i].at < now' /\ log'[i].kind = "card"
    <3>1. \A i \in DOMAIN log : log[i].at \in Nat
      BY <1>0, LogShape, NotifierAssumption
    <3>2. kind = "card" /\ now \in Nat
      BY <2>2, NotifierAssumption DEF OneRun
    <3>3. QED
      BY <1>b, <2>2, <3>1, <3>2
  <2>5. History'
    BY <1>0, <2>3, <2>4, QuietKeeps DEF History
  <2>6. QED
    BY <1>d, <1>e, <2>1, <2>3, <2>5
<1>3. CASE Commit
  <2>1. UNCHANGED <<now, notifiedAt, run, told>>
    BY <1>3 DEF Commit
  <2>2. /\ DOMAIN log' = DOMAIN log
        /\ \A j \in DOMAIN log : log'[j].at = log[j].at /\ log'[j].kind = log[j].kind
        /\ \E i \in DOMAIN log : i \notin Stored /\ Stored' = Stored \cup {i}
    BY <1>0, <1>3, CommitStep
  <2>3. Quiet
    BY <1>a, <2>1, <2>2 DEF Quiet
  <2>4. History'
    BY <1>0, <1>b, <2>1, <2>2, <2>3, QuietKeeps DEF History
  <2>5. QED
    BY <1>d, <1>e, <2>1, <2>3, <2>4
<1>4. ASSUME UNCHANGED <<log, told, run>>, now' \in {now, now + 1},
             \A u \in Users : notifiedAt'[u] \in {notifiedAt[u], now, 0}
      PROVE  OnceInv'
  <2>1. Quiet
    BY <1>4 DEF Quiet, Stored
  <2>2. \A i \in DOMAIN log : log[i].at \in Nat /\ now \in Nat
    BY <1>0, LogShape, NotifierAssumption DEF TypeOK
  <2>3. History'
    BY <1>0, <1>4, <1>b, <2>1, <2>2, QuietKeeps DEF History
  <2>4. Until(now)
    BY <1>a, <1>b, <2>2 DEF Until
  <2>5. Kept'
    <3> SUFFICES ASSUME \A w \in Workers : run[w].at # "update",
                        NEW u \in Users, notifiedAt'[u] > 0
                 PROVE  Later(notifiedAt'[u])
      BY <1>4 DEF Kept, Subscribers, Until, Later
    <3>1. \A t : Until(t) => Later(t)
      BY <1>0, <2>1, QuietKeeps
    <3>2. CASE notifiedAt'[u] = notifiedAt[u]
      <4>1. u \in Subscribers
        BY <3>2 DEF Subscribers
      <4>2. Until(notifiedAt[u])
        BY <4>1 DEF OnceInv, Kept
      <4>3. QED
        BY <3>1, <3>2, <4>2
    <3>3. CASE notifiedAt'[u] = now
      BY <2>4, <3>1, <3>3
    <3>4. CASE notifiedAt'[u] = 0
      BY <3>4
    <3>5. QED
      BY <1>4, <3>2, <3>3, <3>4
  <2>6. QED
    BY <1>d, <1>4, <2>1, <2>3, <2>5
<1>5. ASSUME NEW u \in Users, CreateSubscription(u) \/ DeleteSubscription(u)
      PROVE  OnceInv'
  <2>1. UNCHANGED <<log, told, run>> /\ now' \in {now, now + 1}
    BY <1>5 DEF CreateSubscription, DeleteSubscription, Stamp
  <2>2. \A v \in Users : notifiedAt'[v] \in {notifiedAt[v], now, 0}
    BY <1>0, <1>5 DEF CreateSubscription, DeleteSubscription, TypeOK
  <2>3. QED
    BY <1>4, <2>1, <2>2
<1> SUFFICES ASSUME NEW w \in Workers,
                    \/ Look(w)
                    \/ Pop(w)
                    \/ ForceNotifyBlock(w)
                    \/ DeleteNotificationHint(w)
                    \/ NotifySubscribers(w)
             PROVE  OnceInv'
  BY <1>1, <1>2, <1>3, <1>5 DEF Next, NodeStep, ForceStep, Workers
<1> DEFINE Rest == \A v \in Workers : v # w => run'[v] = run[v]
           Same == UNCHANGED <<now, log, told, notifiedAt>>
\* The steps between "idle", "pop" and the begin of a run.
<1>6. ASSUME Same, Rest, run[w].at \in {"idle", "pop"},
             \/ run'[w].at \in {"idle", "pop"}
             \/ run'[w].at = "subscribers" /\ Running = {}
      PROVE  OnceInv'
  <2>1. Quiet
    BY <1>6 DEF Quiet, Stored
  <2>2. NoRepeat' /\ History'
    BY <1>0, <1>6, <2>1, QuietKeeps DEF OnceInv, History
  <2>3. ASSUME NEW v \in Workers PROVE Found(v)'
    <3>1. CASE v = w
      BY <1>6, <3>1 DEF Found
    <3>2. CASE v # w
      BY <1>0, <1>6, <2>1, <3>2, QuietKeeps
    <3>3. QED
      BY <3>1, <3>2
  <2>4. Alone'
    <3>1. CASE run'[w].at \in {"idle", "pop"}
      <4>1. Running' \subseteq Running
        BY <1>6, <3>1 DEF Running
      <4>2. QED
        BY <4>1 DEF OnceInv, Alone
    <3>2. CASE Running = {}
      <4>1. Running' \subseteq {w}
        BY <1>6, <3>2 DEF Running
      <4>2. QED
        BY <4>1 DEF Alone
    <3>3. QED
      BY <1>6, <3>1, <3>2
  <2>5. Kept'
    <3>1. (\A v \in Workers : run'[v].at # "update") => \A v \in Workers : run[v].at # "update"
      BY <1>6
    <3>2. Subscribers' = Subscribers
      BY <1>6 DEF Subscribers
    <3>3. \A u \in Subscribers : Until(notifiedAt[u]) => Later(notifiedAt[u])
      BY <1>0, <1>6, <2>1, QuietKeeps
    <3>4. QED
      BY <1>6, <3>1, <3>2, <3>3 DEF OnceInv, Kept, Until, Later
  <2>6. QED
    BY <2>2, <2>3, <2>4, <2>5 DEF OnceInv
<1>7. CASE Look(w) \/ Pop(w) \/ ForceNotifyBlock(w)
  <2>1. Same /\ run[w].at \in {"idle", "pop"}
    BY <1>7 DEF Look, Pop, ForceNotifyBlock
  <2>2. PICK state : /\ Goto(w, state)
                     /\ \/ state = Idle \/ state = [Idle EXCEPT !.at = "pop"]
                        \/ state = [Idle EXCEPT !.at = "subscribers"] /\ Running = {}
    BY <1>7, NoneRunning DEF Look, Pop, ForceNotifyBlock
  <2>3. /\ state \in Run
        /\ \/ state.at \in {"idle", "pop"}
           \/ state.at = "subscribers" /\ Running = {}
    BY <2>2, IdleIsRun DEF Run
  <2>4. Rest /\ run'[w] = state
    BY <1>0, <2>2, <2>3, GotoStep
  <2>5. QED
    BY <1>6, <2>1, <2>3, <2>4
<1>g. w \in Running => \A v \in Workers : v # w => v \notin Running
  BY DEF OnceInv, Alone, Running
<1>8. CASE DeleteNotificationHint(w)
  <2>1. Same /\ run[w].at = "forget" /\ Goto(w, Idle)
    BY <1>8 DEF DeleteNotificationHint
  <2>2. Rest /\ run'[w].at = "idle"
    BY <1>0, <2>1, IdleIsRun, GotoStep
  <2>3. Found(w)'
    BY <2>2 DEF Found
  <2>4. QED
    BY <1>0, <2>1, <2>2, <2>3, RunStepKeeps
<1>9. CASE GetSubscribersForBlock(w)
  <2>1. Same /\ run[w].at = "subscribers"
    BY <1>9 DEF GetSubscribersForBlock
  <2>2. /\ Rest
        /\ \/ run'[w].at \in {"idle", "forget"}
           \/ run'[w].at = "diffs" /\ \E u \in Subscribers : run'[w].oldest = notifiedAt[u]
    BY <1>0, <1>9, GetStep
  <2>3. \A v \in Workers : run[v].at # "update"
    BY <1>g, <2>1 DEF Running
  <2>4. \A u \in Subscribers : Until(notifiedAt[u])
    BY <2>3 DEF OnceInv, Kept
  <2>5. Found(w)'
    BY <2>1, <2>2, <2>4 DEF Found, Until, Delivered
  <2>6. QED
    BY <1>0, <2>1, <2>2, <2>5, RunStepKeeps
<1>10. CASE DiffCard(w)
  <2>1. Same
    BY <1>10 DEF DiffCard
  <2>2. /\ Rest
        /\ run[w].at = "diffs" /\ run'[w].at = "children"
        /\ run'[w].diff = After("card", run[w].oldest)
        /\ \A i \in After("card", 0) : run'[w].newest >= log[i].at
    BY <1>0, <1>10, DiffCardStep
  <2>3. \A i \in Stored : log[i].at \in Nat /\ log[i].at > 0
    <3>1. \A i \in DOMAIN log : log[i].at \in 1 .. MaxStamp
      BY <1>0, LogShape DEF Version
    <3>2. QED
      BY <1>a, <3>1, NotifierAssumption
  <2>4. /\ After("card", 0) = Stored
        /\ After("card", run[w].oldest) \subseteq Stored
    BY <1>c, <2>3
  <2>5. Until(run[w].oldest)
    BY <2>2 DEF OnceInv, Found
  <2>6. After("card", run[w].oldest) \cap Delivered = {}
    <3>1. run[w].oldest \in Nat
      BY <1>0, NotifierAssumption DEF TypeOK, Run
    <3>2. QED
      BY <1>a, <1>c, <2>3, <2>5, <3>1 DEF Until
  <2>7. run'[w].newest \in Nat
    BY <1>0, <1>10, DiffCardStep, NotifierAssumption DEF Run
  <2>8. \A i \in Stored : log[i].at <= run'[w].newest
    BY <2>2, <2>3, <2>4, <2>7
  <2>9. Found(w)'
    <3>1. Delivered' = Delivered /\ Stored' = Stored
      BY <2>1 DEF Delivered, Stored
    <3>2. Later(run'[w].newest)
      BY <1>a, <2>1, <2>8, <3>1 DEF Later
    <3>3. \A i \in run'[w].diff : log'[i].at <= run'[w].newest
      BY <2>1, <2>2, <2>4, <2>8
    <3>4. QED
      BY <2>2, <2>4, <2>6, <3>1, <3>2, <3>3 DEF Found, Until, Later
  <2>10. QED
    BY <1>0, <2>1, <2>2, <2>9, RunStepKeeps
<1>11. CASE DiffChildren(w)
  <2>1. Same
    BY <1>11 DEF DiffChildren
  <2>2. /\ Rest
        /\ run[w].at = "children" /\ run'[w].at = "deliver"
        /\ run'[w].diff = run[w].diff
        /\ run'[w].newest >= run[w].newest
        /\ run'[w].newest \in Nat /\ run[w].newest \in Nat
    BY <1>0, <1>11, <1>c, DiffChildrenStep
  <2>3. /\ run[w].diff \cap Delivered = {}
        /\ run[w].diff \subseteq Stored
        /\ Until(run[w].newest)
        /\ \A i \in run[w].diff : log[i].at <= run[w].newest
    BY <2>2 DEF OnceInv, Found
  <2>4. \A i \in Stored : log[i].at \in Nat
    BY <1>0, <1>a, LogShape, NotifierAssumption
  <2>5. \A i \in Delivered \cup run[w].diff : log[i].at <= run'[w].newest
    BY <1>a, <2>2, <2>3, <2>4 DEF Until
  <2>6. Found(w)'
    <3>1. Delivered' = Delivered /\ Stored' = Stored
      BY <2>1 DEF Delivered, Stored
    <3>2. Later(run'[w].newest)
      BY <2>1, <2>5, <3>1 DEF Later
    <3>3. \A i \in run'[w].diff : log'[i].at <= run'[w].newest
      BY <2>1, <2>2, <2>5
    <3>4. QED
      BY <2>2, <2>3, <3>1, <3>2, <3>3 DEF Found, Until, Later
  <2>7. QED
    BY <1>0, <2>1, <2>2, <2>6, RunStepKeeps
<1>12. CASE Deliver(w)
  <2>1. UNCHANGED <<now, log, notifiedAt>>
    BY <1>12 DEF Deliver
  <2>2. /\ Rest
        /\ run[w].at = "deliver" /\ run'[w].at = "update"
        /\ run'[w].newest = run[w].newest
        /\ \A r \in Receivers : \A i \in Changes :
             \/ told'[r][i] = told[r][i]
             \/ i \in run[w].diff /\ (told[r][i] = 0 => told'[r][i] = 1)
    BY <1>0, <1>12, DeliverStep
  <2>3. /\ run[w].diff \cap Delivered = {}
        /\ run[w].diff \subseteq Stored
        /\ Until(run[w].newest)
        /\ \A i \in run[w].diff : log[i].at <= run[w].newest
    BY <2>2 DEF OnceInv, Found
  <2>4. \A r \in Receivers : \A i \in Changes :
          \/ told'[r][i] = told[r][i]
          \/ i \in run[w].diff /\ told'[r][i] = 1
    BY <2>2, <2>3 DEF Delivered
  <2>5. NoRepeat'
    BY <2>4 DEF OnceInv, NoRepeat
  <2>6. Delivered' \subseteq Delivered \cup run[w].diff
    BY <2>4 DEF Delivered
  <2>7. History'
    BY <1>a, <1>b, <2>1, <2>3, <2>6 DEF History, Stored
  <2>8. w \in Running /\ w \in Running'
    BY <2>2 DEF Running
  <2>9. Alone'
    BY <1>g, <2>2, <2>8 DEF Alone, Running
  <2>10. ASSUME NEW v \in Workers PROVE Found(v)'
    <3>1. CASE v = w
      BY <2>1, <2>2, <2>3, <2>6, <3>1 DEF Found, Until
    <3>2. CASE v # w
      BY <1>g, <2>2, <2>8, <3>2 DEF Found, Running
    <3>3. QED
      BY <3>1, <3>2
  <2>11. Kept'
    BY <2>2 DEF Kept
  <2>12. QED
    BY <2>5, <2>7, <2>9, <2>10, <2>11 DEF OnceInv
<1>13. CASE UpdateSubscribersNotifiedAt(w)
  <2>1. UNCHANGED <<now, log, told>>
    BY <1>13 DEF UpdateSubscribersNotifiedAt
  <2>2. /\ Rest
        /\ run[w].at = "update" /\ run'[w].at \in {"idle", "forget"}
        /\ \A u \in Users : notifiedAt'[u] = 0 \/ notifiedAt'[u] = run[w].newest
    BY <1>0, <1>13, UpdateStep
  <2>3. Until(run[w].newest)
    BY <2>2 DEF OnceInv, Found
  <2>4. Quiet
    BY <2>1 DEF Quiet, Stored
  <2>5. NoRepeat' /\ History'
    BY <1>0, <2>1, <2>4, QuietKeeps DEF OnceInv, History
  <2>6. w \in Running
    BY <2>2 DEF Running
  <2>7. Alone'
    BY <1>g, <2>2, <2>6 DEF Alone, Running
  <2>8. ASSUME NEW v \in Workers PROVE Found(v)'
    <3>1. CASE v = w
      BY <2>2, <3>1 DEF Found
    <3>2. CASE v # w
      BY <1>0, <2>2, <2>4, <3>2, QuietKeeps
    <3>3. QED
      BY <3>1, <3>2
  <2>9. Later(run[w].newest)
    BY <1>0, <2>3, <2>4, QuietKeeps
  <2>10. Kept'
    <3>1. \A u \in Users : notifiedAt'[u] > 0 => notifiedAt'[u] = run[w].newest
      BY <2>2
    <3>2. QED
      BY <2>9, <3>1 DEF Kept, Subscribers, Until, Later
  <2>11. QED
    BY <2>5, <2>7, <2>8, <2>10 DEF OnceInv
<1>14. QED
  BY <1>7, <1>8, <1>9, <1>10, <1>11, <1>12, <1>13 DEF NotifySubscribers

(* While runs for the card do not overlap, and only the card itself        *)
(* changes, nobody is told of a change twice: by hints and forced          *)
(* notifications in any order, with any number of users who come, go and   *)
(* are mentioned, and of changes that are committed out of order.          *)
THEOREM NoRepeatHolds ==
    ASSUME OneRun
    PROVE  Spec => []NoRepeat
<1>1. Init => OnceInv
  <2> SUFFICES ASSUME Init PROVE OnceInv
    OBVIOUS
  <2>1. /\ \A w \in Workers : run[w].at = "idle"
        /\ \A r \in Receivers : \A i \in Changes : told[r][i] = 0
        /\ DOMAIN log = {}
    BY IdleIsRun DEF Init
  <2>2. Delivered = {} /\ Running = {}
    BY <2>1 DEF Delivered, Running
  <2>3. QED
    BY <2>1, <2>2 DEF OnceInv, NoRepeat, History, Alone, Found, Kept, Until
<1>2. Inv /\ OnceInv /\ [Next]_vars => OnceInv'
  BY OnceStep
<1>3. OnceInv => NoRepeat
  BY DEF OnceInv
<1>4. QED
  BY <1>1, <1>2, <1>3, TypeInvariant, PTL DEF Spec

=============================================================================
