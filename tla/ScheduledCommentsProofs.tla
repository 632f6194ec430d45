----------------------- MODULE ScheduledCommentsProofs -----------------------
(***************************************************************************)
(* Proofs about ScheduledComments, for any comments, workers, limit, clock *)
(* and number of failures, and for any way the operations are spread over  *)
(* the workers that the assumption of a theorem allows.                    *)
(***************************************************************************)
EXTENDS ScheduledComments, FiniteSetTheorems, SequenceTheorems, TLAPS

\* Where a worker is says what it carries, what is left to do and what the
\* copy it is about to write looks like.
Carries(w) ==
    LET j == job[w] IN
    /\ j.op \in Allowed[w] \cup {"none"}
    /\ j.at = "idle" <=> j.op = "none"
    /\ j.at = "insert" <=> j.op = "create"
    /\ j.at \in {"idle", "insert"} <=> j.todo = <<>>
    /\ j.at = "announce" => j.op \in {"tick", "sendnow"}
    /\ j.at = "write" =>
         /\ j.copy.status \notin {"none", "gone"}
         /\ j.op \in {"tick", "sendnow"} => j.copy.status = "sent"
         /\ j.op = "cancel" => j.copy.status = "canceled"

\* Only comments that were created are ever worked on.
Created == \A c \in Comments : InHand(c) => row[c].status # "none"

JobInv ==
    /\ TypeOK
    /\ \A w \in Workers : Carries(w)
    /\ Created

-----------------------------------------------------------------------------
(* What the steps of a job are built from.                                 *)

(* Every element of a list but the first is in the rest of it.             *)
LEMMA RestOfList ==
    ASSUME NEW S, NEW s \in Seq(S), s # <<>>
    PROVE  /\ Head(s) \in S
           /\ Head(s) \in ToSet(s)
           /\ Tail(s) \in Seq(S)
           /\ ToSet(Tail(s)) \subseteq ToSet(s)
           /\ ~ Len(s) <= 1 => Tail(s) # <<>>
<1>1. /\ Tail(s) \in Seq(S)
      /\ Head(s) \in S
      /\ Len(Tail(s)) = Len(s) - 1
      /\ \A i \in 1 .. Len(Tail(s)) : Tail(s)[i] = s[i + 1]
  BY HeadTailProperties
<1>2. /\ DOMAIN s = 1 .. Len(s)
      /\ DOMAIN Tail(s) = 1 .. Len(s) - 1
      /\ Len(s) \in Nat \ {0}
  BY <1>1, LenProperties, EmptySeq
<1>3. Head(s) \in ToSet(s)
  <2>1. Head(s) = s[1] /\ 1 \in DOMAIN s
    BY <1>2
  <2>2. QED
    BY <2>1 DEF ToSet
<1>4. ToSet(Tail(s)) \subseteq ToSet(s)
  <2>1. \A i \in DOMAIN Tail(s) : i + 1 \in DOMAIN s /\ Tail(s)[i] = s[i + 1]
    BY <1>1, <1>2
  <2>2. QED
    BY <2>1 DEF ToSet
<1>5. ~ Len(s) <= 1 => Tail(s) # <<>>
  <2>1. Tail(s) = <<>> <=> Len(Tail(s)) = 0
    BY ONLY <1>1, EmptySeq
  <2>2. QED
    BY <1>1, <1>2, <2>1
<1>6. QED
  BY <1>1, <1>3, <1>4, <1>5

(* A worker goes on to its next state, and the others stay where they are. *)
LEMMA GotoStep ==
    ASSUME TypeOK, NEW w \in Workers, NEW state \in Job, Goto(w, state)
    PROVE  /\ job' \in [Workers -> Job]
           /\ job'[w] = state
           /\ \A v \in Workers : v # w => job'[v] = job[v]
BY DEF TypeOK, Goto

(* The state of a worker that does nothing.                                *)
LEMMA IdleIsJob ==
    /\ Keep \in Keep .. MaxTime
    /\ Idle \in Job
    /\ Idle.todo = <<>> /\ Idle.at = "idle" /\ Idle.op = "none"
<1>1. Keep \in Keep .. MaxTime
  BY ScheduledAssumption DEF Keep
<1>2. <<>> \in Seq(Comments)
  OBVIOUS
<1>3. [status |-> "none", at |-> Keep] \in Row
  BY <1>1 DEF Row
<1>4. QED
  BY <1>1, <1>2, <1>3 DEF Idle, Job

(* A list of due comments has each of them, once.                          *)
LEMMA DueList ==
    ASSUME TypeOK, Due # {}, NEW l \in DueLists
    PROVE  /\ l \in Seq(Comments)
           /\ l # <<>>
           /\ ToSet(l) \subseteq Due
           /\ \A i, j \in DOMAIN l : i # j => l[i] # l[j]
<1>1. Due \subseteq Comments
  BY DEF Due, Pending
<1>2. IsFiniteSet(Due) /\ Cardinality(Due) \in Nat
  BY <1>1, FS_Subset, FS_CardinalityType, ScheduledAssumption
<1>3. Cardinality(Due) # 0
  BY <1>2, FS_EmptySet
<1>4. /\ l \in [1 .. Cardinality(Due) -> Due]
      /\ \A i, j \in 1 .. Cardinality(Due) : i # j => l[i] # l[j]
  BY DEF DueLists, SetToSeqs
<1>5. l \in Seq(Comments)
  BY <1>1, <1>2, <1>4
<1>6. l # <<>>
  <2>1. 1 \in DOMAIN l
    BY <1>2, <1>3, <1>4
  <2>2. QED
    BY <2>1
<1>7. ToSet(l) \subseteq Due
  BY <1>4 DEF ToSet
<1>8. QED
  BY <1>4, <1>5, <1>6, <1>7

(* A job that is done with a comment has the others left, or ends.         *)
LEMMA ProceedStep ==
    ASSUME JobInv, NEW w \in Workers,
           job[w].at \in {"patch", "write", "announce"}, Proceed(w)
    PROVE  /\ job' \in [Workers -> Job]
           /\ \A v \in Workers : v # w => job'[v] = job[v]
           /\ \/ job'[w] = Idle
              \/ /\ job'[w].at = "patch"
                 /\ job'[w].op = job[w].op
                 /\ job'[w].todo = Tail(job[w].todo)
           /\ ToSet(job'[w].todo) \subseteq ToSet(job[w].todo)
           /\ Carries(w)'
<1> DEFINE rest == [job[w] EXCEPT !.at = "patch", !.todo = Tail(@)]
<1>1. job[w] \in Job /\ Carries(w) /\ job[w].todo # <<>>
  BY DEF JobInv, TypeOK, Carries
<1>2. job[w].todo \in Seq(Comments)
  BY <1>1 DEF Job
<1>3. CASE Len(job[w].todo) <= 1
  <2>1. Goto(w, Idle)
    BY <1>3 DEF Proceed
  <2>2. /\ job' \in [Workers -> Job]
        /\ job'[w] = Idle
        /\ \A v \in Workers : v # w => job'[v] = job[v]
    BY <2>1, IdleIsJob, GotoStep DEF JobInv
  <2>3. ToSet(job'[w].todo) = {}
    BY <2>2, IdleIsJob DEF ToSet
  <2>4. Carries(w)'
    BY <2>2, IdleIsJob DEF Carries, Idle
  <2>5. QED
    BY <2>2, <2>3, <2>4
<1>4. CASE ~ Len(job[w].todo) <= 1
  <2>1. Goto(w, rest)
    BY <1>4 DEF Proceed
  <2>2. /\ Tail(job[w].todo) \in Seq(Comments)
        /\ Tail(job[w].todo) # <<>>
        /\ ToSet(Tail(job[w].todo)) \subseteq ToSet(job[w].todo)
    BY <1>1, <1>2, <1>4, RestOfList
  <2>3. /\ rest \in Job
        /\ rest.at = "patch"
        /\ rest.op = job[w].op
        /\ rest.todo = Tail(job[w].todo)
    BY <1>1, <2>2 DEF Job
  <2> HIDE DEF rest
  <2>4. /\ job' \in [Workers -> Job]
        /\ job'[w] = rest
        /\ \A v \in Workers : v # w => job'[v] = job[v]
    BY <2>1, <2>3, GotoStep DEF JobInv
  <2>5. Carries(w)'
    BY <1>1, <2>2, <2>3, <2>4 DEF Carries
  <2>6. QED
    BY <2>2, <2>3, <2>4, <2>5
<1>5. QED
  BY <1>3, <1>4

(* A worker that gives up has nothing left.                                *)
LEMMA IdleStep ==
    ASSUME JobInv, NEW w \in Workers, Goto(w, Idle)
    PROVE  /\ job' \in [Workers -> Job]
           /\ \A v \in Workers : v # w => job'[v] = job[v]
           /\ job'[w] = Idle
           /\ ToSet(job'[w].todo) = {}
           /\ Carries(w)'
<1>1. /\ job' \in [Workers -> Job]
      /\ job'[w] = Idle
      /\ \A v \in Workers : v # w => job'[v] = job[v]
  BY IdleIsJob, GotoStep DEF JobInv
<1>2. QED
  BY <1>1, IdleIsJob DEF ToSet, Carries, Idle

(* A request about a pending comment takes that comment in hand.           *)
LEMMA RequestStep ==
    ASSUME JobInv, NEW w \in Workers, NEW c \in Comments,
           NEW op \in {"update", "cancel", "sendnow"},
           NEW t \in Keep .. MaxTime, OnPending(w, op, c, t)
    PROVE  /\ job' \in [Workers -> Job]
           /\ \A v \in Workers : v # w => job'[v] = job[v]
           /\ job'[w].op = op /\ job'[w].at = "patch" /\ job'[w].todo = <<c>>
           /\ op \in Allowed[w]
           /\ ToSet(job'[w].todo) = {c}
           /\ Carries(w)'
<1> DEFINE asked == [Idle EXCEPT !.op = op, !.at = "patch", !.todo = <<c>>, !.copy.at = t]
<1>1. <<c>> \in Seq(Comments) /\ <<c>> # <<>>
  OBVIOUS
<1>2. /\ asked \in Job
      /\ asked.op = op /\ asked.at = "patch" /\ asked.todo = <<c>>
  BY <1>1 DEF Idle, Job, Row
<1>3. Goto(w, asked) /\ op \in Allowed[w]
  BY DEF OnPending, Starts
<1> HIDE DEF asked
<1>4. /\ job' \in [Workers -> Job]
      /\ job'[w] = asked
      /\ \A v \in Workers : v # w => job'[v] = job[v]
  BY <1>2, <1>3, GotoStep DEF JobInv
<1>5. ToSet(<<c>>) = {c}
  BY DEF ToSet
<1>6. QED
  BY <1>1, <1>2, <1>3, <1>4, <1>5 DEF Carries

(* A tick takes due comments in hand, each of them once.                   *)
LEMMA TickStep ==
    ASSUME JobInv, NEW w \in Workers, ProcessScheduledComments(w)
    PROVE  /\ job' \in [Workers -> Job]
           /\ \A v \in Workers : v # w => job'[v] = job[v]
           /\ job'[w].op = "tick" /\ job'[w].at = "patch" /\ job'[w].todo \in DueLists
           /\ Due # {}
           /\ "tick" \in Allowed[w]
           /\ ToSet(job'[w].todo) \subseteq Due
           /\ Carries(w)'
<1>1. PICK l \in DueLists :
          Goto(w, [Idle EXCEPT !.op = "tick", !.at = "patch", !.todo = l])
  BY DEF ProcessScheduledComments
<1> DEFINE begun == [Idle EXCEPT !.op = "tick", !.at = "patch", !.todo = l]
<1>2. Due # {} /\ "tick" \in Allowed[w]
  BY DEF ProcessScheduledComments, Starts
<1>3. l \in Seq(Comments) /\ l # <<>> /\ ToSet(l) \subseteq Due
  BY <1>2, DueList DEF JobInv
<1>4. /\ begun \in Job
      /\ begun.op = "tick" /\ begun.at = "patch" /\ begun.todo = l
  BY <1>3, IdleIsJob DEF Idle, Job, Row
<1>5. Goto(w, begun)
  BY <1>1
<1> HIDE DEF begun
<1>6. /\ job' \in [Workers -> Job]
      /\ job'[w] = begun
      /\ \A v \in Workers : v # w => job'[v] = job[v]
  BY <1>4, <1>5, GotoStep DEF JobInv
<1>7. QED
  BY <1>2, <1>3, <1>4, <1>6 DEF Carries

(* A create that has passed its checks has nothing in hand yet.            *)
LEMMA CreateStep ==
    ASSUME JobInv, NEW w \in Workers, NEW t \in Ahead, CreateScheduledComment(w, t)
    PROVE  /\ job' \in [Workers -> Job]
           /\ \A v \in Workers : v # w => job'[v] = job[v]
           /\ job'[w].op = "create" /\ job'[w].at = "insert"
           /\ "create" \in Allowed[w]
           /\ ToSet(job'[w].todo) = {}
           /\ Carries(w)'
<1> DEFINE begun == [Idle EXCEPT !.op = "create", !.at = "insert", !.copy.at = t]
<1>1. t \in Keep .. MaxTime
  BY DEF Ahead, JobInv, TypeOK, Keep
<1>2. /\ begun \in Job
      /\ begun.op = "create" /\ begun.at = "insert" /\ begun.todo = <<>>
  BY <1>1, IdleIsJob DEF Idle, Job, Row
<1>3. Goto(w, begun) /\ "create" \in Allowed[w]
  BY DEF CreateScheduledComment, Starts
<1> HIDE DEF begun
<1>4. /\ job' \in [Workers -> Job]
      /\ job'[w] = begun
      /\ \A v \in Workers : v # w => job'[v] = job[v]
  BY <1>2, <1>3, GotoStep DEF JobInv
<1>5. QED
  BY <1>2, <1>3, <1>4 DEF Carries, ToSet

(* The copy a patch has read is the row with the status of its operation.  *)
LEMMA ReadStep ==
    ASSUME JobInv, NEW w \in Workers, ReadRow(w), Stored(Current(w)), Current(w) \notin Refused
    PROVE  /\ job' \in [Workers -> Job]
           /\ \A v \in Workers : v # w => job'[v] = job[v]
           /\ job'[w].op = job[w].op /\ job'[w].at = "write" /\ job'[w].todo = job[w].todo
           /\ job'[w].copy.status = NewStatus(job[w].op, row[Current(w)].status)
           /\ Carries(w)'
<1> DEFINE j == job[w]
           r == row[Current(w)]
           read == [j EXCEPT !.at = "write",
                    !.copy = [status |-> NewStatus(j.op, r.status),
                              at |-> IF @.at = Keep \/ j.op # "update" THEN r.at ELSE @.at]]
<1>1. j \in Job /\ Carries(w) /\ j.at = "patch" /\ j.todo # <<>>
  BY DEF JobInv, TypeOK, Carries, ReadRow
<1>2. j.todo \in Seq(Comments)
  BY <1>1 DEF Job
<1>3. Current(w) \in Comments
  BY <1>1, <1>2, RestOfList DEF Current
<1>4. r \in Row /\ r.status \notin {"none", "gone"}
  BY <1>3 DEF JobInv, TypeOK, Stored
<1>5. j.op \in {"tick", "sendnow", "cancel", "update"}
  BY <1>1 DEF Carries, Job
<1>6. /\ NewStatus(j.op, r.status) \in {"pending", "sent", "canceled"}
      /\ j.op \in {"tick", "sendnow"} => NewStatus(j.op, r.status) = "sent"
      /\ j.op = "cancel" => NewStatus(j.op, r.status) = "canceled"
  <2>1. CASE j.op = "update"
    BY <2>1, <1>4 DEF NewStatus, Row
  <2>2. CASE j.op \in {"tick", "sendnow"}
    BY <2>2 DEF NewStatus
  <2>3. CASE j.op = "cancel"
    BY <2>3 DEF NewStatus
  <2>4. QED
    BY <1>5, <2>1, <2>2, <2>3
<1>7. /\ j.copy \in Row
      /\ r.at \in Keep .. MaxTime
      /\ j.copy.at \in Keep .. MaxTime
  BY <1>1, <1>4 DEF Job, Row
<1> HIDE DEF r
<1>8. /\ read.op = j.op /\ read.at = "write" /\ read.todo = j.todo
      /\ read.copy.status = NewStatus(j.op, r.status)
      /\ read \in Job
  BY <1>1, <1>6, <1>7 DEF Job, Row
<1>9. Goto(w, read)
  BY DEF ReadRow, r
<1> HIDE DEF read
<1>10. /\ job' \in [Workers -> Job]
       /\ job'[w] = read
       /\ \A v \in Workers : v # w => job'[v] = job[v]
  BY <1>8, <1>9, GotoStep DEF JobInv
<1>11. Carries(w)'
  BY <1>1, <1>6, <1>8, <1>10 DEF Carries
<1>12. QED
  BY <1>8, <1>10, <1>11 DEF r

(* A write leaves the row away, or makes it the copy.                      *)
LEMMA WriteStep ==
    ASSUME JobInv, NEW w \in Workers, WriteRow(w)
    PROVE  /\ job' \in [Workers -> Job]
           /\ \A v \in Workers : v # w => job'[v] = job[v]
           /\ \/ job'[w] = Idle /\ job[w].op \notin {"tick", "sendnow"}
              \/ /\ job'[w].at = "announce"
                 /\ job'[w].op = job[w].op
                 /\ job'[w].op \in {"tick", "sendnow"}
                 /\ job'[w].todo = job[w].todo
           /\ ToSet(job'[w].todo) \subseteq ToSet(job[w].todo)
           /\ Carries(w)'
           /\ Current(w) \in Comments
           /\ Current(w) \in ToSet(job[w].todo)
           /\ job[w].copy \in Row
           /\ \/ row' = row /\ ~ Stored(Current(w))
              \/ row' = [row EXCEPT ![Current(w)] = job[w].copy]
<1> DEFINE j == job[w]
           told == [j EXCEPT !.at = "announce", !.copy.at = Keep]
<1>1. j \in Job /\ Carries(w) /\ j.at = "write" /\ j.todo # <<>>
  BY DEF JobInv, TypeOK, Carries, WriteRow
<1>2. j.todo \in Seq(Comments) /\ j.copy \in Row
  BY <1>1 DEF Job
<1>3. Current(w) \in Comments /\ Current(w) \in ToSet(j.todo)
  BY <1>1, <1>2, RestOfList DEF Current
<1>4. \/ row' = row /\ ~ Stored(Current(w))
      \/ row' = [row EXCEPT ![Current(w)] = j.copy]
  BY DEF WriteRow
<1>5. CASE j.op \in {"tick", "sendnow"}
  <2>1. /\ told \in Job
        /\ told.at = "announce" /\ told.op = j.op /\ told.todo = j.todo
    BY <1>1, <1>2, IdleIsJob DEF Job, Row
  <2>2. Goto(w, told)
    BY <1>5 DEF WriteRow
  <2> HIDE DEF told
  <2>3. /\ job' \in [Workers -> Job]
        /\ job'[w] = told
        /\ \A v \in Workers : v # w => job'[v] = job[v]
    BY <2>1, <2>2, GotoStep DEF JobInv
  <2>4. Carries(w)'
    BY <1>1, <1>5, <2>1, <2>3 DEF Carries
  <2>5. QED
    BY <1>2, <1>3, <1>4, <1>5, <2>1, <2>3, <2>4
<1>6. CASE j.op \notin {"tick", "sendnow"}
  <2>1. Goto(w, Idle)
    BY <1>6 DEF WriteRow
  <2>2. QED
    BY <1>2, <1>3, <1>4, <1>6, <2>1, IdleStep
<1>7. QED
  BY <1>5, <1>6

-----------------------------------------------------------------------------
(* The invariant of the jobs.                                              *)

(* A step of one worker that takes only created comments in hand, and no   *)
(* row away, keeps the invariant.                                          *)
LEMMA OneWorkerKeeps ==
    ASSUME JobInv, NEW w \in Workers,
           job' \in [Workers -> Job],
           \A v \in Workers : v # w => job'[v] = job[v],
           Carries(w)',
           \A c \in ToSet(job'[w].todo) :
               c \in ToSet(job[w].todo) \/ (c \in Comments /\ row[c].status # "none"),
           \A c \in Comments : row[c].status # "none" => row'[c].status # "none",
           now' = now,
           row' \in [Comments -> Row],
           announced' \in [Comments -> 0 .. 2],
           failures' \in 0 .. MaxFailures
    PROVE  JobInv'
<1>1. TypeOK'
  BY DEF JobInv, TypeOK
<1>2. ASSUME NEW v \in Workers PROVE Carries(v)'
  <2>1. CASE v = w
    BY <2>1
  <2>2. CASE v # w
    <3>1. job'[v] = job[v] /\ Carries(v)
      BY <2>2 DEF JobInv
    <3>2. QED
      BY <3>1 DEF Carries
  <2>3. QED
    BY <2>1, <2>2
<1>3. Created'
  <2> SUFFICES ASSUME NEW c \in Comments, NEW v \in Workers, c \in ToSet(job'[v].todo)
               PROVE  row'[c].status # "none"
    BY DEF Created, InHand
  <2>1. row[c].status # "none"
    <3>1. \A x \in Workers : c \in ToSet(job[x].todo) => row[c].status # "none"
      BY DEF JobInv, Created, InHand
    <3>2. CASE v = w
      BY <3>1, <3>2
    <3>3. CASE v # w
      <4>1. job'[v] = job[v]
        BY <3>3
      <4>2. QED
        BY <3>1, <4>1
    <3>4. QED
      BY <3>2, <3>3
  <2>2. QED
    BY <2>1
<1>4. QED
  BY <1>1, <1>2, <1>3 DEF JobInv

LEMMA JobInit == Init => JobInv
<1> SUFFICES ASSUME Init PROVE JobInv
  OBVIOUS
<1>1. \A w \in Workers : job[w] = Idle
  BY DEF Init
<1>2. TypeOK
  <2>1. job \in [Workers -> Job]
    BY IdleIsJob DEF Init
  <2>2. row \in [Comments -> Row]
    BY IdleIsJob DEF Init, Row
  <2>3. now \in 0 .. MaxTime /\ failures \in 0 .. MaxFailures
    BY ScheduledAssumption DEF Init
  <2>4. QED
    BY <2>1, <2>2, <2>3 DEF Init, TypeOK
<1>3. \A w \in Workers : Carries(w)
  BY <1>1 DEF Carries, Idle
<1>4. Created
  <2>1. \A w \in Workers : ToSet(job[w].todo) = {}
    BY <1>1, IdleIsJob DEF ToSet
  <2>2. QED
    BY <2>1 DEF Created, InHand
<1>5. QED
  BY <1>2, <1>3, <1>4 DEF JobInv

LEMMA JobStep == JobInv /\ [Next]_vars => JobInv'
<1> SUFFICES ASSUME JobInv, [Next]_vars PROVE JobInv'
  OBVIOUS
<1>0. TypeOK /\ Created /\ \A w \in Workers : Carries(w)
  BY DEF JobInv
<1>1. CASE UNCHANGED vars
  <2>1. UNCHANGED <<now, row, announced, job, failures>>
    BY <1>1 DEF vars
  <2>2. TypeOK' /\ Created'
    BY <1>0, <2>1 DEF TypeOK, Created, InHand
  <2>3. ASSUME NEW w \in Workers PROVE Carries(w)'
    BY <1>0, <2>1 DEF Carries
  <2>4. QED
    BY <2>2, <2>3 DEF JobInv
<1>2. CASE Minute
  <2>1. UNCHANGED <<row, announced, job, failures>> /\ now' \in 0 .. MaxTime
    BY <1>0, <1>2, ScheduledAssumption DEF Minute, TypeOK
  <2>2. TypeOK' /\ Created'
    BY <1>0, <2>1 DEF TypeOK, Created, InHand
  <2>3. ASSUME NEW w \in Workers PROVE Carries(w)'
    BY <1>0, <2>1 DEF Carries
  <2>4. QED
    BY <2>2, <2>3 DEF JobInv
<1> SUFFICES ASSUME NEW w \in Workers,
                    \/ ProcessScheduledComments(w)
                    \/ Requested(w)
                    \/ Proceeds(w)
                    \/ Fail(w)
                    \/ Crash(w)
             PROVE  JobInv'
  BY <1>1, <1>2 DEF Next
<1> DEFINE Moves ==
             /\ job' \in [Workers -> Job]
             /\ \A v \in Workers : v # w => job'[v] = job[v]
             /\ Carries(w)'
           Hands ==
             \A c \in ToSet(job'[w].todo) :
                 c \in ToSet(job[w].todo) \/ (c \in Comments /\ row[c].status # "none")
           Rows ==
             /\ row' \in [Comments -> Row]
             /\ \A c \in Comments : row[c].status # "none" => row'[c].status # "none"
<1>a. row' = row => Rows
  BY <1>0 DEF TypeOK
<1>b. announced' = announced => announced' \in [Comments -> 0 .. 2]
  BY <1>0 DEF TypeOK
<1>c. failures' = failures => failures' \in 0 .. MaxFailures
  BY <1>0 DEF TypeOK
<1>d. ASSUME Moves, Hands, Rows, now' = now,
             announced' \in [Comments -> 0 .. 2], failures' \in 0 .. MaxFailures
      PROVE  JobInv'
  BY <1>d, OneWorkerKeeps
<1>3. CASE ProcessScheduledComments(w)
  <2>1. UNCHANGED <<now, row, announced, failures>>
    BY <1>3 DEF ProcessScheduledComments
  <2>2. \A c \in Due : c \in Comments /\ row[c].status # "none"
    BY DEF Due, Pending
  <2>3. Moves /\ Hands
    BY <1>3, <2>2, TickStep
  <2>4. QED
    BY <2>1, <2>3, <1>a, <1>b, <1>c, <1>d
<1>4. ASSUME NEW t \in Ahead, CreateScheduledComment(w, t)
      PROVE  JobInv'
  <2>1. UNCHANGED <<now, row, announced, failures>>
    BY <1>4 DEF CreateScheduledComment
  <2>2. Moves /\ Hands
    BY <1>4, CreateStep
  <2>3. QED
    BY <2>1, <2>2, <1>a, <1>b, <1>c, <1>d
<1>5. ASSUME NEW c \in Comments, NEW op \in {"update", "cancel", "sendnow"},
             NEW t \in Keep .. MaxTime, OnPending(w, op, c, t)
      PROVE  JobInv'
  <2>1. UNCHANGED <<now, row, announced, failures>> /\ row[c].status # "none"
    BY <1>5 DEF OnPending, Pending
  <2>2. Moves /\ Hands
    BY <1>5, <2>1, RequestStep
  <2>3. QED
    BY <2>1, <2>2, <1>a, <1>b, <1>c, <1>d
<1>6. ASSUME NEW c \in Comments, DeleteBlock(w, c)
      PROVE  JobInv'
  <2>1. UNCHANGED <<now, announced, job, failures>>
    BY <1>6 DEF DeleteBlock
  <2>2. Rows
    BY <1>0, <1>6 DEF DeleteBlock, TypeOK, Row
  <2>3. Moves /\ Hands
    BY <1>0, <2>1 DEF Carries, TypeOK
  <2>4. QED
    BY <2>1, <2>2, <2>3, <1>b, <1>c, <1>d
<1>7. CASE Requested(w)
  <2>1. Ahead \cup {Keep} \subseteq Keep .. MaxTime
    BY <1>0, ScheduledAssumption DEF Ahead, Keep, TypeOK
  <2>2. QED
    BY <1>4, <1>5, <1>6, <1>7, <2>1
    DEF Requested, CancelScheduledComment, SendScheduledCommentNow, UpdateScheduledComment
<1>8. CASE InsertComment(w)
  <2>1. UNCHANGED <<now, announced, failures>> /\ Goto(w, Idle)
    BY <1>8 DEF InsertComment
  <2>2. job[w].copy.at \in Keep .. MaxTime
    BY <1>0 DEF TypeOK, Job, Row
  <2>3. Rows
    BY <1>0, <1>8, <2>2 DEF InsertComment, TypeOK, Row
  <2>4. Moves /\ Hands
    BY <2>1, IdleStep
  <2>5. QED
    BY <2>1, <2>3, <2>4, <1>b, <1>c, <1>d
<1>9. CASE ReadRow(w)
  <2>1. UNCHANGED <<now, row, announced, failures>>
    BY <1>9 DEF ReadRow
  <2>2. CASE Stored(Current(w)) /\ Current(w) \notin Refused
    <3>1. Moves /\ Hands
      BY <1>9, <2>2, ReadStep
    <3>2. QED
      BY <2>1, <3>1, <1>a, <1>b, <1>c, <1>d
  <2>3. CASE ~ (Stored(Current(w)) /\ Current(w) \notin Refused)
    <3>1. Proceed(w) /\ job[w].at \in {"patch", "write", "announce"}
      BY <1>9, <2>3 DEF ReadRow
    <3>2. Moves /\ Hands
      BY <3>1, ProceedStep
    <3>3. QED
      BY <2>1, <3>2, <1>a, <1>b, <1>c, <1>d
  <2>4. QED
    BY <2>2, <2>3
<1>10. CASE WriteRow(w)
  <2>1. UNCHANGED <<now, announced, failures>> /\ job[w].at = "write"
    BY <1>10 DEF WriteRow
  <2>2. job[w].copy.status # "none"
    BY <1>0, <2>1 DEF Carries
  <2>3. Moves /\ Hands
    BY <1>10, WriteStep
  <2>4. Rows
    <3>1. /\ Current(w) \in Comments /\ job[w].copy \in Row
          /\ row' = row \/ row' = [row EXCEPT ![Current(w)] = job[w].copy]
      BY <1>10, WriteStep
    <3>2. QED
      BY <1>0, <2>2, <3>1 DEF TypeOK
  <2>5. QED
    BY <2>1, <2>3, <2>4, <1>b, <1>c, <1>d
<1>11. CASE Announce(w)
  <2>1. UNCHANGED <<now, row, failures>> /\ Proceed(w) /\ job[w].at = "announce"
    BY <1>11 DEF Announce
  <2>2. announced' \in [Comments -> 0 .. 2]
    <3>1. \A x : \A n \in 0 .. 2 : [announced EXCEPT ![x] = n] \in [Comments -> 0 .. 2]
      BY <1>0 DEF TypeOK
    <3>2. (IF announced[Current(w)] = 0 THEN 1 ELSE 2) \in 0 .. 2
      OBVIOUS
    <3>3. QED
      BY <1>b, <1>11, <3>1, <3>2 DEF Announce
  <2>3. Moves /\ Hands
    BY <2>1, ProceedStep
  <2>4. QED
    BY <2>1, <2>2, <2>3, <1>a, <1>c, <1>d
<1>12. CASE Fail(w)
  <2>1. /\ UNCHANGED <<now, row, announced>> /\ Proceed(w)
        /\ job[w].at \in {"patch", "write", "announce"}
        /\ failures' \in 0 .. MaxFailures
    BY <1>0, <1>12, ScheduledAssumption DEF Fail, TypeOK
  <2>2. Moves /\ Hands
    BY <2>1, ProceedStep
  <2>3. QED
    BY <2>1, <2>2, <1>a, <1>b, <1>d
<1>13. CASE Crash(w)
  <2>1. /\ UNCHANGED <<now, row, announced>> /\ Goto(w, Idle)
        /\ failures' \in 0 .. MaxFailures
    BY <1>0, <1>13, ScheduledAssumption DEF Crash, TypeOK
  <2>2. Moves /\ Hands
    BY <2>1, IdleStep
  <2>3. QED
    BY <2>1, <2>2, <1>a, <1>b, <1>d
<1>14. QED
  BY <1>3, <1>7, <1>8, <1>9, <1>10, <1>11, <1>12, <1>13 DEF Proceeds

(* However jobs of the scheduler and of requests overlap, fail and crash,  *)
(* a worker's copy and list fit where it stands, and only comments that    *)
(* were created are in anybody's hand.                                     *)
THEOREM JobInvariant == Spec => []JobInv
<1>1. Init => JobInv
  BY JobInit
<1>2. JobInv /\ [Next]_vars => JobInv'
  BY JobStep
<1>3. QED
  BY <1>1, <1>2, PTL DEF Spec

(* The rows, the counts and the jobs keep their shape.                     *)
THEOREM TypeCorrect == Spec => []TypeOK
<1>1. JobInv => TypeOK
  BY DEF JobInv
<1>2. QED
  BY <1>1, JobInvariant, PTL

-----------------------------------------------------------------------------
(* Comments go out once, if the operations that send a comment, or write   *)
(* back the status they read, are with one worker and so come one after    *)
(* the other.                                                              *)

Senders == {"tick", "sendnow", "update"}

OneSender ==
    \A v, w \in Workers :
        Allowed[v] \cap Senders # {} /\ Allowed[w] \cap Senders # {} => v = w

Decided(c) == row[c].status \notin {"none", "pending"}

\* The list names each of its comments once, and none that went out.
Fresh(l) ==
    /\ \A i, j \in DOMAIN l : i # j => l[i] # l[j]
    /\ \A c \in ToSet(l) : announced[c] = 0

\* What went out is decided; what a sender has in hand has not gone out, and
\* is decided once it is about to.
OnceInv ==
    /\ \A c \in Comments : announced[c] <= 1
    /\ \A c \in Comments : announced[c] # 0 => Decided(c)
    /\ \A w \in Workers : job[w].op \in Senders => Fresh(job[w].todo)
    /\ \A w \in Workers : job[w].at = "announce" => Decided(Current(w))

(* Of a list without repetitions the rest does not have the head again.    *)
LEMMA RestOnce ==
    ASSUME NEW S, NEW s \in Seq(S), s # <<>>,
           \A i, j \in DOMAIN s : i # j => s[i] # s[j]
    PROVE  /\ \A i, j \in DOMAIN Tail(s) : i # j => Tail(s)[i] # Tail(s)[j]
           /\ Head(s) \notin ToSet(Tail(s))
<1>1. /\ Len(Tail(s)) = Len(s) - 1
      /\ Tail(s) \in Seq(S)
      /\ \A i \in 1 .. Len(Tail(s)) : Tail(s)[i] = s[i + 1]
  BY HeadTailProperties
<1>2. /\ DOMAIN s = 1 .. Len(s)
      /\ DOMAIN Tail(s) = 1 .. Len(s) - 1
      /\ Len(s) \in Nat \ {0}
  BY <1>1, LenProperties, EmptySeq
<1>3. \A i \in DOMAIN Tail(s) : i \in Int /\ i + 1 \in DOMAIN s /\ i + 1 # 1
  BY <1>2
<1>4. Head(s) = s[1] /\ 1 \in DOMAIN s
  BY <1>2
<1>5. \A i, j \in DOMAIN Tail(s) : i # j => Tail(s)[i] # Tail(s)[j]
  <2>1. \A i, j \in DOMAIN Tail(s) : i # j => i + 1 # j + 1
    BY <1>3
  <2>2. \A i \in DOMAIN Tail(s) : Tail(s)[i] = s[i + 1]
    BY <1>1, <1>2
  <2>3. QED
    BY <1>3, <2>1, <2>2
<1>6. Head(s) \notin ToSet(Tail(s))
  <2>1. \A i \in DOMAIN Tail(s) : Tail(s)[i] # s[1]
    BY <1>1, <1>2, <1>3, <1>4
  <2>2. QED
    BY <1>4, <2>1 DEF ToSet
<1>7. QED
  BY <1>5, <1>6

(* Whoever sends is the only one that may.                                 *)
LEMMA NoOtherSender ==
    ASSUME JobInv, OneSender, NEW v \in Workers, NEW w \in Workers, v # w,
           job[v].op \in Senders
    PROVE  /\ Allowed[w] \cap Senders = {}
           /\ job[w].op \notin Senders
           /\ job[w].at # "announce"
<1>1. Carries(v) /\ Carries(w)
  BY DEF JobInv
<1>2. job[v].op \in Allowed[v]
  BY <1>1 DEF Carries, Senders
<1>3. Allowed[w] \cap Senders = {}
  BY <1>2 DEF OneSender
<1>4. job[w].op \notin Senders
  BY <1>1, <1>3 DEF Carries, Senders
<1>5. job[w].at # "announce"
  BY <1>1, <1>4 DEF Carries, Senders
<1>6. QED
  BY <1>3, <1>4, <1>5

(* A step that announces nothing, and undecides at most the comment that   *)
(* its update has in hand.                                                 *)
LEMMA QuietStepKeeps ==
    ASSUME JobInv, OneSender, OnceInv, NEW w \in Workers,
           \A v \in Workers : v # w => job'[v] = job[v],
           announced' = announced,
           \A c \in Comments : Decided(c) =>
               Decided(c)' \/ (job[w].op = "update" /\ c = Current(w)),
           job[w].op = "update" => Current(w) \in ToSet(job[w].todo),
           job'[w].op \in Senders => Fresh(job'[w].todo),
           job'[w].at = "announce" => Decided(Current(w))'
    PROVE  OnceInv'
<1>1. \A c \in Comments : announced'[c] <= 1
  BY DEF OnceInv
<1>2. ASSUME NEW c \in Comments, announced'[c] # 0
      PROVE  Decided(c)'
  <2>1. Decided(c)
    BY <1>2 DEF OnceInv
  <2>2. job[w].op = "update" => c # Current(w)
    <3>1. job[w].op = "update" => Fresh(job[w].todo)
      BY DEF OnceInv, Senders
    <3>2. QED
      BY <1>2, <3>1 DEF Fresh
  <2>3. QED
    BY <2>1, <2>2
<1>3. ASSUME NEW v \in Workers, job'[v].op \in Senders
      PROVE  Fresh(job[v].todo)'
  <2>1. CASE v = w
    BY <1>3, <2>1 DEF Fresh
  <2>2. CASE v # w
    <3>1. job'[v] = job[v] /\ Fresh(job[v].todo)
      BY <1>3, <2>2 DEF OnceInv
    <3>2. QED
      BY <3>1 DEF Fresh
  <2>3. QED
    BY <2>1, <2>2
<1>4. ASSUME NEW v \in Workers, job'[v].at = "announce"
      PROVE  Decided(Current(v))'
  <2>1. CASE v = w
    BY <1>4, <2>1
  <2>2. CASE v # w
    <3>1. job'[v] = job[v] /\ Decided(Current(v)) /\ Carries(v) /\ job[v] \in Job
      BY <1>4, <2>2 DEF OnceInv, JobInv, TypeOK
    <3>2. job[v].op \in Senders /\ job[v].todo # <<>>
      BY <1>4, <3>1 DEF Carries, Senders
    <3>3. job[w].op # "update"
      BY <2>2, <3>2, NoOtherSender DEF Senders
    <3>4. Current(v) \in Comments
      BY <3>1, <3>2, RestOfList DEF Current, Job
    <3>5. Decided(Current(v)) => row'[Current(v)].status \notin {"none", "pending"}
      BY <3>3, <3>4 DEF Decided
    <3>6. QED
      BY <3>1, <3>5 DEF Decided, Current
  <2>3. QED
    BY <2>1, <2>2
<1>5. QED
  BY <1>1, <1>2, <1>3, <1>4 DEF OnceInv

(* What a job that proceeds has left is as fresh as what it had.           *)
LEMMA ProceedFresh ==
    ASSUME JobInv, OnceInv, NEW w \in Workers,
           job[w].at \in {"patch", "write", "announce"}, Proceed(w),
           job'[w].op \in Senders
    PROVE  /\ job[w].op \in Senders
           /\ Fresh(job'[w].todo)
           /\ Current(w) \notin ToSet(job'[w].todo)
<1>1. job'[w].op = job[w].op /\ job'[w].todo = Tail(job[w].todo)
  BY ProceedStep, IdleIsJob DEF Senders
<1>2. job[w].todo \in Seq(Comments) /\ job[w].todo # <<>>
  BY DEF JobInv, TypeOK, Carries, Job
<1>3. Fresh(job[w].todo)
  BY <1>1 DEF OnceInv
<1>4. /\ \A i, j \in DOMAIN Tail(job[w].todo) :
           i # j => Tail(job[w].todo)[i] # Tail(job[w].todo)[j]
      /\ Head(job[w].todo) \notin ToSet(Tail(job[w].todo))
  BY <1>2, <1>3, RestOnce DEF Fresh
<1>5. ToSet(Tail(job[w].todo)) \subseteq ToSet(job[w].todo)
  BY <1>2, RestOfList
<1>6. Fresh(Tail(job[w].todo))
  BY <1>3, <1>4, <1>5 DEF Fresh
<1>7. QED
  BY <1>1, <1>3, <1>4, <1>6 DEF Current

LEMMA OnceStep ==
    ASSUME JobInv, OneSender, OnceInv, [Next]_vars
    PROVE  OnceInv'
<1>0. TypeOK /\ Created /\ \A w \in Workers : Carries(w)
  BY DEF JobInv
<1>1. CASE UNCHANGED <<row, announced, job>>
  BY <1>1 DEF OnceInv, Fresh, Decided, Current
<1>2. CASE UNCHANGED vars \/ Minute
  BY <1>1, <1>2 DEF vars, Minute
<1> SUFFICES ASSUME NEW w \in Workers,
                    \/ ProcessScheduledComments(w)
                    \/ Requested(w)
                    \/ Proceeds(w)
                    \/ Fail(w)
                    \/ Crash(w)
             PROVE  OnceInv'
  BY <1>2 DEF Next
<1> DEFINE Alone == \A v \in Workers : v # w => job'[v] = job[v]
           Rows == \A c \in Comments : Decided(c) =>
                       Decided(c)' \/ (job[w].op = "update" /\ c = Current(w))
           InHandOfUpdate == job[w].op = "update" => Current(w) \in ToSet(job[w].todo)
           FreshNext == job'[w].op \in Senders => Fresh(job'[w].todo)
           Told == job'[w].at = "announce" => Decided(Current(w))'
<1>a. ASSUME Alone, announced' = announced, Rows, FreshNext, Told
      PROVE  OnceInv'
  <2>1. InHandOfUpdate
    <3>1. ASSUME job[w].op = "update"
          PROVE  job[w].todo \in Seq(Comments) /\ job[w].todo # <<>>
      BY <1>0, <3>1 DEF Carries, TypeOK, Job
    <3>2. QED
      BY <3>1, RestOfList DEF Current
  <2>2. QED
    BY <1>a, <2>1, QuietStepKeeps
<1>b. row' = row => Rows
  BY DEF Decided
<1>c. ASSUME NEW c \in Comments, row[c].status = "pending"
      PROVE  announced[c] = 0
  BY <1>c DEF OnceInv, Decided
<1>3. CASE ProcessScheduledComments(w)
  <2>1. row' = row /\ announced' = announced
    BY <1>3 DEF ProcessScheduledComments
  <2>2. /\ Alone
        /\ job'[w].at = "patch"
        /\ job'[w].todo \in DueLists
        /\ Due # {}
    BY <1>3, TickStep
  <2>3. \A c \in Due : c \in Comments /\ row[c].status = "pending"
    BY DEF Due, Pending
  <2>4. Fresh(job'[w].todo)
    <3>1. /\ ToSet(job'[w].todo) \subseteq Due
          /\ \A i, j \in DOMAIN job'[w].todo : i # j => job'[w].todo[i] # job'[w].todo[j]
      BY <1>0, <2>2, DueList
    <3>2. QED
      BY <1>c, <2>3, <3>1 DEF Fresh
  <2>5. QED
    BY <1>a, <1>b, <2>1, <2>2, <2>4
<1>4. ASSUME NEW t \in Ahead, CreateScheduledComment(w, t)
      PROVE  OnceInv'
  <2>1. row' = row /\ announced' = announced
    BY <1>4 DEF CreateScheduledComment
  <2>2. Alone /\ job'[w].op = "create" /\ job'[w].at = "insert"
    BY <1>4, CreateStep
  <2>3. QED
    BY <1>a, <1>b, <2>1, <2>2 DEF Senders
<1>5. ASSUME NEW c \in Comments, NEW op \in {"update", "cancel", "sendnow"},
             NEW t \in Keep .. MaxTime, OnPending(w, op, c, t)
      PROVE  OnceInv'
  <2>1. row' = row /\ announced' = announced /\ row[c].status = "pending"
    BY <1>5 DEF OnPending, Pending
  <2>2. Alone /\ job'[w].at = "patch" /\ job'[w].todo = <<c>> /\ ToSet(<<c>>) = {c}
    BY <1>5, RequestStep
  <2>3. announced[c] = 0
    BY <1>c, <2>1
  <2>4. \A i, j \in DOMAIN <<c>> : i = j
    OBVIOUS
  <2>5. Fresh(job'[w].todo)
    BY <2>2, <2>3, <2>4 DEF Fresh
  <2>6. QED
    BY <1>a, <1>b, <2>1, <2>2, <2>5
<1>6. ASSUME NEW c \in Comments, DeleteBlock(w, c)
      PROVE  OnceInv'
  <2>1. announced' = announced /\ job' = job
    BY <1>6 DEF DeleteBlock
  <2>2. /\ \A d \in Comments : Decided(d) => Decided(d)'
        /\ job[w].at = "idle"
    BY <1>0, <1>6 DEF DeleteBlock, Decided, TypeOK, Row, Starts
  <2>3. job'[w].op = "none"
    BY <1>0, <2>1, <2>2 DEF Carries
  <2>4. QED
    BY <1>a, <2>1, <2>2, <2>3 DEF Senders
<1>7. CASE Requested(w)
  <2>1. Ahead \cup {Keep} \subseteq Keep .. MaxTime
    BY <1>0, ScheduledAssumption DEF Ahead, Keep, TypeOK
  <2>2. QED
    BY <1>4, <1>5, <1>6, <1>7, <2>1
    DEF Requested, CancelScheduledComment, SendScheduledCommentNow, UpdateScheduledComment
<1>8. CASE InsertComment(w)
  <2>1. announced' = announced /\ Goto(w, Idle)
    BY <1>8 DEF InsertComment
  <2>2. \A d \in Comments : Decided(d) => Decided(d)'
    BY <1>0, <1>8 DEF InsertComment, Decided, TypeOK
  <2>3. Alone /\ job'[w].op = "none" /\ job'[w].at = "idle"
    BY <2>1, IdleStep, IdleIsJob
  <2>4. QED
    BY <1>a, <2>1, <2>2, <2>3 DEF Senders
<1>9. ASSUME Proceed(w), job[w].at \in {"patch", "write", "announce"},
             row' = row, announced' = announced
      PROVE  OnceInv'
  <2>1. Alone /\ job'[w].at # "announce"
    BY <1>9, ProceedStep, IdleIsJob
  <2>2. FreshNext
    BY <1>9, ProceedFresh
  <2>3. QED
    BY <1>9, <1>a, <1>b, <2>1, <2>2
<1>10. CASE ReadRow(w)
  <2>1. row' = row /\ announced' = announced
    BY <1>10 DEF ReadRow
  <2>2. CASE Stored(Current(w)) /\ Current(w) \notin Refused
    <3>1. /\ Alone
          /\ job'[w].op = job[w].op /\ job'[w].at = "write" /\ job'[w].todo = job[w].todo
      BY <1>10, <2>2, ReadStep
    <3>2. FreshNext
      BY <3>1 DEF OnceInv
    <3>3. QED
      BY <1>a, <1>b, <2>1, <3>1, <3>2
  <2>3. CASE ~ (Stored(Current(w)) /\ Current(w) \notin Refused)
    BY <1>9, <1>10, <2>1, <2>3 DEF ReadRow
  <2>4. QED
    BY <2>2, <2>3
<1>11. CASE WriteRow(w)
  <2>1. announced' = announced /\ job[w].at = "write"
    BY <1>11 DEF WriteRow
  <2>2. /\ Alone
        /\ Current(w) \in Comments
        /\ Current(w) \in ToSet(job[w].todo)
        /\ \/ row' = row /\ ~ Stored(Current(w))
           \/ row' = [row EXCEPT ![Current(w)] = job[w].copy]
        /\ \/ job'[w] = Idle /\ job[w].op \notin {"tick", "sendnow"}
           \/ /\ job'[w].at = "announce"
              /\ job'[w].op = job[w].op
              /\ job'[w].op \in {"tick", "sendnow"}
              /\ job'[w].todo = job[w].todo
    BY <1>11, WriteStep
  <2>3. /\ job[w].op \in {"tick", "sendnow"} => job[w].copy.status = "sent"
        /\ job[w].op = "cancel" => job[w].copy.status = "canceled"
        /\ job[w].op \in {"tick", "sendnow", "cancel", "update"}
    BY <1>0, <2>1 DEF Carries, TypeOK, Job
  <2>4. Rows
    BY <1>0, <2>2, <2>3 DEF Decided, TypeOK
  <2>5. FreshNext
    BY <2>2, IdleIsJob DEF OnceInv, Senders
  <2>6. Told
    <3> SUFFICES ASSUME job'[w].at = "announce"
                 PROVE  Decided(Current(w))'
      OBVIOUS
    <3>1. job[w].op \in {"tick", "sendnow"} /\ Current(w)' = Current(w)
      BY <2>2, IdleIsJob DEF Current
    <3>2. row[Current(w)].status # "none"
      BY <1>0, <2>2 DEF Created, InHand
    <3>3. CASE row' = row /\ ~ Stored(Current(w))
      BY <3>1, <3>2, <3>3 DEF Stored, Decided
    <3>4. CASE row' = [row EXCEPT ![Current(w)] = job[w].copy]
      <4>1. row'[Current(w)] = job[w].copy
        BY <1>0, <2>2, <3>4 DEF TypeOK
      <4>2. QED
        BY <2>3, <3>1, <4>1 DEF Decided
    <3>5. QED
      BY <2>2, <3>3, <3>4
  <2>7. QED
    BY <1>a, <2>1, <2>2, <2>4, <2>5, <2>6
<1>12. CASE Announce(w)
  <2>1. row' = row /\ Proceed(w) /\ job[w].at = "announce"
    BY <1>12 DEF Announce
  <2>2. job[w].op \in Senders /\ job[w].todo # <<>> /\ job[w].todo \in Seq(Comments)
    BY <1>0, <2>1 DEF Carries, Senders, TypeOK, Job
  <2>3. Current(w) \in Comments /\ Current(w) \in ToSet(job[w].todo)
    BY <2>2, RestOfList DEF Current
  <2>4. announced[Current(w)] = 0 /\ Decided(Current(w))
    BY <2>1, <2>2, <2>3 DEF OnceInv, Fresh
  <2>5. \A c \in Comments : \/ announced'[c] = announced[c]
                            \/ c = Current(w) /\ announced'[c] = 1
    BY <1>0, <1>12, <2>4 DEF Announce, TypeOK
  <2>6. Alone /\ job'[w].at # "announce"
    BY <2>1, ProceedStep, IdleIsJob
  <2>7. \A c \in Comments : announced'[c] <= 1
    BY <2>5 DEF OnceInv
  <2>8. \A c \in Comments : announced'[c] # 0 => Decided(c)'
    BY <2>1, <2>4, <2>5 DEF OnceInv, Decided
  <2>9. ASSUME NEW v \in Workers, job'[v].op \in Senders
        PROVE  Fresh(job[v].todo)'
    <3>1. v = w
      BY <2>2, <2>6, <2>9, NoOtherSender
    <3>2. Fresh(job'[w].todo) /\ Current(w) \notin ToSet(job'[w].todo)
      BY <2>1, <2>9, <3>1, ProceedFresh
    <3>3. ToSet(job'[w].todo) \subseteq Comments
      <4>1. ToSet(job'[w].todo) \subseteq ToSet(job[w].todo)
        BY <2>1, ProceedStep
      <4>2. \A i \in DOMAIN job[w].todo : job[w].todo[i] \in Comments
        BY ONLY <2>2, LenProperties
      <4>3. QED
        BY <4>1, <4>2 DEF ToSet
    <3>4. \A c \in ToSet(job'[w].todo) : announced'[c] = 0
      BY <2>5, <3>2, <3>3 DEF Fresh
    <3>5. QED
      BY <3>1, <3>2, <3>4 DEF Fresh
  <2>10. ASSUME NEW v \in Workers, job'[v].at = "announce"
         PROVE  Decided(Current(v))'
    <3>1. job'[v] = job[v]
      BY <2>6, <2>10
    <3>2. QED
      BY <2>1, <2>10, <3>1 DEF OnceInv, Decided, Current
  <2>11. QED
    BY <2>7, <2>8, <2>9, <2>10 DEF OnceInv
<1>13. CASE Fail(w)
  BY <1>9, <1>13 DEF Fail
<1>14. CASE Crash(w)
  <2>1. row' = row /\ announced' = announced /\ Goto(w, Idle)
    BY <1>14 DEF Crash
  <2>2. Alone /\ job'[w].op = "none" /\ job'[w].at = "idle"
    BY <2>1, IdleStep, IdleIsJob
  <2>3. QED
    BY <1>a, <1>b, <2>1, <2>2 DEF Senders
<1>15. QED
  BY <1>3, <1>7, <1>8, <1>10, <1>11, <1>12, <1>13, <1>14 DEF Proceeds

(* Where ticks, send-now requests and updates do not overlap, no crash,    *)
(* failure or repeated tick makes a comment go out twice, whatever         *)
(* cancellations, creates and deletions other requests carry.              *)
THEOREM AnnouncedOnceHolds ==
    ASSUME OneSender
    PROVE  Spec => []AnnouncedAtMostOnce
<1>1. Init => OnceInv
  <2> SUFFICES ASSUME Init PROVE OnceInv
    OBVIOUS
  <2>1. /\ \A w \in Workers : job[w] = Idle
        /\ \A c \in Comments : announced[c] = 0
    BY DEF Init
  <2>2. QED
    BY <2>1, IdleIsJob DEF OnceInv, Senders
<1>2. JobInv /\ OnceInv /\ [Next]_vars => OnceInv'
  BY OnceStep
<1>3. OnceInv => AnnouncedAtMostOnce
  BY DEF OnceInv, AnnouncedAtMostOnce
<1>4. QED
  BY <1>1, <1>2, <1>3, JobInvariant, PTL DEF Spec

-----------------------------------------------------------------------------
(* Cancellations are final, whichever worker carries which operation.      *)

StaysCanceled(c) == row'[c].status \in {"canceled", "gone"} /\ ~InHand(c)'

LEMMA CanceledStep ==
    ASSUME JobInv, Next, NEW c \in Comments, row[c].status = "canceled", ~InHand(c)
    PROVE  StaysCanceled(c)
<1>0. TypeOK /\ \A w \in Workers : Carries(w)
  BY DEF JobInv
<1>1. CASE Minute
  BY <1>1 DEF Minute, StaysCanceled, InHand
<1> SUFFICES ASSUME NEW w \in Workers,
                    \/ ProcessScheduledComments(w)
                    \/ Requested(w)
                    \/ Proceeds(w)
                    \/ Fail(w)
                    \/ Crash(w)
             PROVE  StaysCanceled(c)
  BY <1>1 DEF Next
<1> DEFINE Alone == \A v \in Workers : v # w => job'[v] = job[v]
<1>a. \A v \in Workers : c \notin ToSet(job[v].todo)
  BY DEF InHand
<1>b. ASSUME row'[c].status \in {"canceled", "gone"}, Alone,
             c \in ToSet(job'[w].todo) => c \in ToSet(job[w].todo)
      PROVE  StaysCanceled(c)
  <2>1. \A v \in Workers : c \notin ToSet(job'[v].todo)
    BY <1>a, <1>b
  <2>2. QED
    BY <1>b, <2>1 DEF StaysCanceled, InHand
<1>c. c \notin Pending /\ c \notin Due
  BY DEF Pending, Due
<1>2. CASE ProcessScheduledComments(w)
  <2>1. row' = row
    BY <1>2 DEF ProcessScheduledComments
  <2>2. Alone /\ ToSet(job'[w].todo) \subseteq Due
    BY <1>2, TickStep
  <2>3. QED
    BY <1>b, <1>c, <2>1, <2>2
<1>3. ASSUME NEW t \in Ahead, CreateScheduledComment(w, t)
      PROVE  StaysCanceled(c)
  <2>1. row' = row
    BY <1>3 DEF CreateScheduledComment
  <2>2. Alone /\ ToSet(job'[w].todo) = {}
    BY <1>3, CreateStep
  <2>3. QED
    BY <1>b, <2>1, <2>2
<1>4. ASSUME NEW d \in Comments, NEW op \in {"update", "cancel", "sendnow"},
             NEW t \in Keep .. MaxTime, OnPending(w, op, d, t)
      PROVE  StaysCanceled(c)
  <2>1. row' = row /\ d \in Pending
    BY <1>4 DEF OnPending
  <2>2. Alone /\ ToSet(job'[w].todo) = {d}
    BY <1>4, RequestStep
  <2>3. QED
    BY <1>b, <1>c, <2>1, <2>2
<1>5. ASSUME NEW d \in Comments, DeleteBlock(w, d)
      PROVE  StaysCanceled(c)
  <2>1. job' = job
    BY <1>5 DEF DeleteBlock
  <2>2. row'[c].status \in {"canceled", "gone"}
    BY <1>0, <1>5 DEF DeleteBlock, TypeOK, Row
  <2>3. QED
    BY <1>b, <2>1, <2>2
<1>6. CASE Requested(w)
  <2>1. Ahead \cup {Keep} \subseteq Keep .. MaxTime
    BY <1>0, ScheduledAssumption DEF Ahead, Keep, TypeOK
  <2>2. QED
    BY <1>3, <1>4, <1>5, <1>6, <2>1
    DEF Requested, CancelScheduledComment, SendScheduledCommentNow, UpdateScheduledComment
<1>7. CASE InsertComment(w)
  <2>1. Goto(w, Idle) /\ row'[c] = row[c]
    BY <1>0, <1>7 DEF InsertComment, TypeOK
  <2>2. Alone /\ ToSet(job'[w].todo) = {}
    BY <2>1, IdleStep
  <2>3. QED
    BY <1>b, <2>1, <2>2
<1>8. ASSUME Proceed(w), job[w].at \in {"patch", "write", "announce"}, row' = row
      PROVE  StaysCanceled(c)
  <2>1. Alone /\ ToSet(job'[w].todo) \subseteq ToSet(job[w].todo)
    BY <1>8, ProceedStep
  <2>2. QED
    BY <1>8, <1>b, <2>1
<1>9. CASE ReadRow(w)
  <2>1. row' = row
    BY <1>9 DEF ReadRow
  <2>2. CASE Stored(Current(w)) /\ Current(w) \notin Refused
    <3>1. Alone /\ job'[w].todo = job[w].todo
      BY <1>9, <2>2, ReadStep
    <3>2. QED
      BY <1>b, <2>1, <3>1
  <2>3. CASE ~ (Stored(Current(w)) /\ Current(w) \notin Refused)
    BY <1>8, <1>9, <2>1, <2>3 DEF ReadRow
  <2>4. QED
    BY <2>2, <2>3
<1>10. CASE WriteRow(w)
  <2>1. /\ Alone
        /\ ToSet(job'[w].todo) \subseteq ToSet(job[w].todo)
        /\ Current(w) \in ToSet(job[w].todo)
        /\ row' = row \/ row' = [row EXCEPT ![Current(w)] = job[w].copy]
    BY <1>10, WriteStep
  <2>2. c # Current(w)
    BY <1>a, <2>1
  <2>3. row'[c] = row[c]
    BY <1>0, <2>1, <2>2 DEF TypeOK
  <2>4. QED
    BY <1>b, <2>1, <2>3
<1>11. CASE Announce(w) \/ Fail(w)
  BY <1>8, <1>11 DEF Announce, Fail
<1>12. CASE Crash(w)
  <2>1. row' = row /\ Goto(w, Idle)
    BY <1>12 DEF Crash
  <2>2. Alone /\ ToSet(job'[w].todo) = {}
    BY <2>1, IdleStep
  <2>3. QED
    BY <1>b, <2>1, <2>2
<1>13. QED
  BY <1>2, <1>6, <1>7, <1>9, <1>10, <1>11, <1>12 DEF Proceeds

(* A canceled comment that nobody has in hand is never sent, and never     *)
(* pending again, for any number of nodes and requests, overlapping in any *)
(* way.                                                                    *)
THEOREM CanceledFinalHolds == Spec => CanceledIsFinal
<1>1. JobInv /\ [Next]_vars =>
        [\A c \in Comments : row[c].status = "canceled" /\ ~InHand(c)
            => row'[c].status \in {"canceled", "gone"} /\ ~InHand(c)']_vars
  BY CanceledStep DEF StaysCanceled
<1>2. QED
  BY <1>1, JobInvariant, PTL DEF Spec, CanceledIsFinal

-----------------------------------------------------------------------------
(* The limit, if creates and updates are with one worker and so come one   *)
(* after the other.                                                        *)

OneCreator ==
    \A v, w \in Workers :
        /\ Allowed[v] \cap {"create", "update"} # {}
        /\ Allowed[w] \cap {"create", "update"} # {}
        => v = w

Updates(w) == job[w].at = "write" /\ job[w].op = "update"

\* There is room for the comment a create is about to insert, and for the
\* one whose status an update is about to write back.
LimitInv ==
    /\ WithinLimit
    /\ \A w \in Workers : job[w].at = "insert" =>
         Cardinality(Pending) < MaxScheduledCommentsPerUser
    /\ \A w \in Workers : Updates(w) /\ job[w].copy.status = "pending" =>
         Cardinality(Pending \cup {Current(w)}) <= MaxScheduledCommentsPerUser

(* Without new pending comments nothing gets past the limit.               *)
LEMMA FewerPending ==
    ASSUME JobInv, LimitInv, NEW w \in Workers,
           \A v \in Workers : v # w => job'[v] = job[v],
           Pending' \subseteq Pending,
           job'[w].at = "insert" => Cardinality(Pending') < MaxScheduledCommentsPerUser,
           Updates(w)' /\ job'[w].copy.status = "pending" =>
               Cardinality(Pending' \cup {Current(w)'}) <= MaxScheduledCommentsPerUser
    PROVE  LimitInv'
<1>1. /\ IsFiniteSet(Pending)
      /\ Pending' \subseteq Comments /\ IsFiniteSet(Pending')
  <2>1. Pending \subseteq Comments
    BY DEF Pending
  <2>2. QED
    BY <2>1, FS_Subset, ScheduledAssumption
<1>2. /\ Cardinality(Pending') <= Cardinality(Pending)
      /\ Cardinality(Pending) \in Nat /\ Cardinality(Pending') \in Nat
  BY <1>1, FS_Subset, FS_CardinalityType
<1>3. WithinLimit'
  BY <1>2, ScheduledAssumption DEF LimitInv, WithinLimit
<1>4. ASSUME NEW v \in Workers, job'[v].at = "insert"
      PROVE  Cardinality(Pending') < MaxScheduledCommentsPerUser
  <2>1. CASE v = w
    BY <1>4, <2>1
  <2>2. CASE v # w
    <3>1. job[v].at = "insert"
      BY <1>4, <2>2
    <3>2. QED
      BY <1>2, <3>1, ScheduledAssumption DEF LimitInv
  <2>3. QED
    BY <2>1, <2>2
<1>5. ASSUME NEW v \in Workers, Updates(v)', job'[v].copy.status = "pending"
      PROVE  Cardinality(Pending' \cup {Current(v)'}) <= MaxScheduledCommentsPerUser
  <2>1. CASE v = w
    BY <1>5, <2>1
  <2>2. CASE v # w
    <3>1. job'[v] = job[v] /\ Current(v)' = Current(v)
      BY <2>2 DEF Current
    <3>2. Cardinality(Pending \cup {Current(v)}) <= MaxScheduledCommentsPerUser
      BY <1>5, <3>1 DEF LimitInv, Updates
    <3>3. /\ IsFiniteSet(Pending \cup {Current(v)})
          /\ IsFiniteSet(Pending' \cup {Current(v)})
      BY <1>1, FS_AddElement
    <3>4. Pending' \cup {Current(v)} \subseteq Pending \cup {Current(v)}
      OBVIOUS
    <3>5. /\ Cardinality(Pending' \cup {Current(v)}) <= Cardinality(Pending \cup {Current(v)})
          /\ Cardinality(Pending' \cup {Current(v)}) \in Nat
          /\ Cardinality(Pending \cup {Current(v)}) \in Nat
      BY <3>3, <3>4, FS_Subset, FS_CardinalityType
    <3>6. QED
      BY <3>1, <3>2, <3>5, ScheduledAssumption
  <2>3. QED
    BY <2>1, <2>2
<1>6. QED
  BY <1>3, <1>4, <1>5 DEF LimitInv

(* The step of the only creator that may add one pending comment.          *)
LEMMA OneMorePending ==
    ASSUME JobInv, OneCreator, NEW w \in Workers, NEW c,
           job[w].op \in {"create", "update"},
           job'[w] = Idle,
           \A v \in Workers : v # w => job'[v] = job[v],
           Pending' \subseteq Pending \cup {c},
           Cardinality(Pending \cup {c}) <= MaxScheduledCommentsPerUser
    PROVE  LimitInv'
<1>1. Pending \subseteq Comments
  BY DEF Pending
<1>2. IsFiniteSet(Pending \cup {c})
  BY <1>1, FS_Subset, FS_AddElement, ScheduledAssumption
<1>3. /\ Cardinality(Pending') <= Cardinality(Pending \cup {c})
      /\ Cardinality(Pending') \in Nat
      /\ Cardinality(Pending \cup {c}) \in Nat
  BY <1>2, FS_Subset, FS_CardinalityType
<1>4. WithinLimit'
  BY <1>3, ScheduledAssumption DEF WithinLimit
<1>5. ASSUME NEW v \in Workers
      PROVE  job'[v].at # "insert" /\ ~ Updates(v)'
  <2>1. CASE v = w
    BY <2>1, IdleIsJob DEF Updates
  <2>2. CASE v # w
    <3>1. job'[v] = job[v] /\ Carries(v) /\ Carries(w)
      BY <2>2 DEF JobInv
    <3>2. Allowed[w] \cap {"create", "update"} # {}
      BY <3>1 DEF Carries
    <3>3. Allowed[v] \cap {"create", "update"} = {}
      BY <2>2, <3>2 DEF OneCreator
    <3>4. job[v].op \notin {"create", "update"}
      BY <3>1, <3>3 DEF Carries
    <3>5. QED
      BY <3>1, <3>4 DEF Carries, Updates
  <2>3. QED
    BY <2>1, <2>2
<1>6. QED
  BY <1>4, <1>5 DEF LimitInv

LEMMA LimitStep ==
    ASSUME JobInv, OneCreator, LimitInv, [Next]_vars
    PROVE  LimitInv'
<1>0. TypeOK /\ \A w \in Workers : Carries(w)
  BY DEF JobInv
<1>1. CASE UNCHANGED vars \/ Minute
  <2>1. UNCHANGED <<row, job>>
    BY <1>1 DEF vars, Minute
  <2>2. Pending' = Pending
    BY <2>1 DEF Pending
  <2>3. QED
    BY <2>1, <2>2 DEF LimitInv, WithinLimit, Updates, Current
<1> SUFFICES ASSUME NEW w \in Workers,
                    \/ ProcessScheduledComments(w)
                    \/ Requested(w)
                    \/ Proceeds(w)
                    \/ Fail(w)
                    \/ Crash(w)
             PROVE  LimitInv'
  BY <1>1 DEF Next
<1> DEFINE Alone == \A v \in Workers : v # w => job'[v] = job[v]
<1>a. ASSUME Alone, Pending' \subseteq Pending, job'[w].at \notin {"insert", "write"}
      PROVE  LimitInv'
  BY <1>a, FewerPending DEF Updates
<1>b. row' = row => Pending' = Pending
  BY DEF Pending
<1>2. CASE ProcessScheduledComments(w)
  <2>1. row' = row
    BY <1>2 DEF ProcessScheduledComments
  <2>2. Alone /\ job'[w].at = "patch"
    BY <1>2, TickStep
  <2>3. QED
    BY <1>a, <1>b, <2>1, <2>2
<1>3. ASSUME NEW t \in Ahead, CreateScheduledComment(w, t)
      PROVE  LimitInv'
  <2>1. row' = row /\ Cardinality(Pending) < MaxScheduledCommentsPerUser
    BY <1>3 DEF CreateScheduledComment
  <2>2. Alone /\ job'[w].at = "insert"
    BY <1>3, CreateStep
  <2>3. Pending' = Pending /\ ~ Updates(w)'
    BY <1>b, <2>1, <2>2 DEF Updates
  <2>4. QED
    BY <2>1, <2>2, <2>3, FewerPending
<1>4. ASSUME NEW c \in Comments, NEW op \in {"update", "cancel", "sendnow"},
             NEW t \in Keep .. MaxTime, OnPending(w, op, c, t)
      PROVE  LimitInv'
  <2>1. row' = row
    BY <1>4 DEF OnPending
  <2>2. Alone /\ job'[w].at = "patch"
    BY <1>4, RequestStep
  <2>3. QED
    BY <1>a, <1>b, <2>1, <2>2
<1>5. ASSUME NEW c \in Comments, DeleteBlock(w, c)
      PROVE  LimitInv'
  <2>1. job' = job /\ job[w].at = "idle"
    BY <1>5 DEF DeleteBlock, Starts
  <2>2. Pending' \subseteq Pending
    BY <1>0, <1>5 DEF DeleteBlock, Pending, TypeOK
  <2>3. QED
    BY <1>a, <2>1, <2>2
<1>6. CASE Requested(w)
  <2>1. Ahead \cup {Keep} \subseteq Keep .. MaxTime
    BY <1>0, ScheduledAssumption DEF Ahead, Keep, TypeOK
  <2>2. QED
    BY <1>3, <1>4, <1>5, <1>6, <2>1
    DEF Requested, CancelScheduledComment, SendScheduledCommentNow, UpdateScheduledComment
<1>7. CASE InsertComment(w)
  <2>1. PICK c \in Comments :
            row' = [row EXCEPT ![c] = [status |-> "pending", at |-> job[w].copy.at]]
    BY <1>7 DEF InsertComment
  <2>2. Pending' \subseteq Pending \cup {c}
    BY <1>0, <2>1 DEF Pending, TypeOK
  <2>3. Goto(w, Idle) /\ job[w].at = "insert"
    BY <1>7 DEF InsertComment
  <2>4. Alone /\ job'[w] = Idle /\ job[w].op = "create"
    BY <1>0, <2>3, IdleStep DEF Carries
  <2>5. Cardinality(Pending \cup {c}) <= MaxScheduledCommentsPerUser
    <3>1. Pending \subseteq Comments
      BY DEF Pending
    <3>2. IsFiniteSet(Pending) /\ Cardinality(Pending) \in Nat
      BY <3>1, FS_Subset, FS_CardinalityType, ScheduledAssumption
    <3>3. Cardinality(Pending \cup {c}) <= Cardinality(Pending) + 1
      <4>1. Cardinality(Pending \cup {c}) =
               IF c \in Pending THEN Cardinality(Pending) ELSE Cardinality(Pending) + 1
        BY <3>2, FS_AddElement
      <4>2. QED
        BY <3>2, <4>1
    <3>4. Cardinality(Pending) < MaxScheduledCommentsPerUser
      BY <2>3 DEF LimitInv
    <3>5. IsFiniteSet(Pending \cup {c}) /\ Cardinality(Pending \cup {c}) \in Nat
      BY <3>2, FS_AddElement, FS_CardinalityType
    <3>6. QED
      BY <3>2, <3>3, <3>4, <3>5, ScheduledAssumption
  <2>6. QED
    BY <2>2, <2>4, <2>5, OneMorePending
<1>8. ASSUME Proceed(w), job[w].at \in {"patch", "write", "announce"}, row' = row
      PROVE  LimitInv'
  <2>1. Alone /\ job'[w].at \notin {"insert", "write"}
    BY <1>8, ProceedStep, IdleIsJob
  <2>2. QED
    BY <1>8, <1>a, <1>b, <2>1
<1>9. CASE ReadRow(w)
  <2>1. row' = row /\ Pending' = Pending
    BY <1>9, <1>b DEF ReadRow
  <2>2. CASE Stored(Current(w)) /\ Current(w) \notin Refused
    <3>1. /\ Alone
          /\ job'[w].at = "write" /\ job'[w].op = job[w].op /\ job'[w].todo = job[w].todo
          /\ job'[w].copy.status = NewStatus(job[w].op, row[Current(w)].status)
      BY <1>9, <2>2, ReadStep
    <3>2. Current(w)' = Current(w)
      BY <3>1 DEF Current
    <3>3. Current(w) \in Comments
      <4>1. job[w].todo \in Seq(Comments) /\ job[w].todo # <<>>
        BY <1>0, <1>9 DEF ReadRow, Carries, TypeOK, Job
      <4>2. QED
        BY <4>1, RestOfList DEF Current
    <3>4. ASSUME Updates(w)', job'[w].copy.status = "pending"
          PROVE  Cardinality(Pending' \cup {Current(w)'}) <= MaxScheduledCommentsPerUser
      <4>1. job[w].op = "update"
        BY <3>1, <3>4 DEF Updates
      <4>2. row[Current(w)].status = "pending"
        BY <3>1, <3>4, <4>1 DEF NewStatus
      <4>3. Pending' \cup {Current(w)'} = Pending
        BY <2>1, <3>2, <3>3, <4>2 DEF Pending
      <4>4. QED
        BY <4>3 DEF LimitInv, WithinLimit
    <3>5. QED
      BY <2>1, <3>1, <3>4, FewerPending
  <2>3. CASE ~ (Stored(Current(w)) /\ Current(w) \notin Refused)
    BY <1>8, <1>9, <2>1, <2>3 DEF ReadRow
  <2>4. QED
    BY <2>2, <2>3
<1>10. CASE WriteRow(w)
  <2>1. job[w].at = "write"
    BY <1>10 DEF WriteRow
  <2>2. /\ Alone
        /\ \/ job'[w] = Idle /\ job[w].op \notin {"tick", "sendnow"}
           \/ job'[w].at = "announce"
        /\ Current(w) \in Comments
        /\ row' = row \/ row' = [row EXCEPT ![Current(w)] = job[w].copy]
    BY <1>10, WriteStep
  <2>3. job'[w].at \notin {"insert", "write"}
    BY <2>2, IdleIsJob
  <2>4. Pending' \subseteq Pending \cup {Current(w)}
    BY <1>0, <2>2 DEF Pending, TypeOK
  <2>5. CASE job[w].copy.status # "pending"
    <3>1. Pending' \subseteq Pending
      BY <1>0, <2>2, <2>5 DEF Pending, TypeOK
    <3>2. QED
      BY <1>a, <2>2, <2>3, <3>1
  <2>6. CASE job[w].copy.status = "pending"
    <3>1. job[w].op = "update"
      BY <1>0, <2>1, <2>6 DEF Carries, TypeOK, Job
    <3>2. Cardinality(Pending \cup {Current(w)}) <= MaxScheduledCommentsPerUser
      BY <2>1, <2>6, <3>1 DEF LimitInv, Updates
    <3>3. job'[w] = Idle
      <4>1. job'[w].at # "announce"
        BY <1>10, <3>1, WriteStep, IdleIsJob
      <4>2. QED
        BY <2>2, <4>1
    <3>4. QED
      BY <2>2, <2>4, <3>1, <3>2, <3>3, OneMorePending
  <2>7. QED
    BY <2>5, <2>6
<1>11. CASE Announce(w) \/ Fail(w)
  BY <1>8, <1>11 DEF Announce, Fail
<1>12. CASE Crash(w)
  <2>1. row' = row /\ Goto(w, Idle)
    BY <1>12 DEF Crash
  <2>2. Alone /\ job'[w].at = "idle"
    BY <2>1, IdleStep, IdleIsJob
  <2>3. QED
    BY <1>a, <1>b, <2>1, <2>2
<1>13. QED
  BY <1>2, <1>6, <1>7, <1>9, <1>10, <1>11, <1>12 DEF Proceeds

(* Where creates and updates do not overlap, a creator never has more      *)
(* pending comments stored than the limit, whatever ticks, cancellations   *)
(* and deletions run beside them, fail or crash.                           *)
THEOREM LimitHolds ==
    ASSUME OneCreator
    PROVE  Spec => []WithinLimit
<1>1. Init => LimitInv
  <2> SUFFICES ASSUME Init PROVE LimitInv
    OBVIOUS
  <2>1. Pending = {} /\ \A w \in Workers : job[w] = Idle
    BY DEF Init, Pending
  <2>2. Cardinality(Pending) = 0
    BY <2>1, FS_EmptySet
  <2>3. QED
    BY <2>1, <2>2, IdleIsJob, ScheduledAssumption DEF LimitInv, WithinLimit, Updates
<1>2. JobInv /\ LimitInv /\ [Next]_vars => LimitInv'
  BY LimitStep
<1>3. LimitInv => WithinLimit
  BY DEF LimitInv
<1>4. QED
  BY <1>1, <1>2, <1>3, JobInvariant, PTL DEF Spec

=============================================================================
