------------------------- MODULE CallbackQueueProofs -------------------------
(***************************************************************************)
(* Proofs about CallbackQueue, for any number of producers, threads and    *)
(* callbacks, any size of the queue and any size of the pool.              *)
(***************************************************************************)
EXTENDS CallbackQueue, FiniteSetTheorems, SequenceTheorems, TLAPS

\* Whoever stands in line beyond the queue waits, and stands there once.
OneInLine ==
    \A i \in 1 .. Len(queue) : i > QueueSize =>
        /\ producer[queue[i][1]].at = "idle"
        /\ \A j \in 1 .. Len(queue) : j > i => queue[j][1] # queue[i][1]

\* A producer at the send has something to send.
Offered == \A p \in Producers : producer[p].at = "send" => producer[p].n > 0

\* An executor has a callback in hand from its receive to its end, and has
\* called it when it runs it.
Hands ==
    \A e \in Executors :
        /\ exec[e].at \in {"off", "select", "exited"} => exec[e].f = None
        /\ exec[e].at \in {"taken", "running"} => exec[e].f \in Callbacks
        /\ exec[e].at = "running" => exec[e].f \in ToSet(started)

\* The draining goroutine works when the pool is gone, and until it returns.
Phases ==
    /\ shutdown \in {"no", "waiting"} => exec[Drain].at = "off"
    /\ shutdown = "draining" => exec[Drain].at \in {"select", "taken", "running"}
    /\ shutdown \in {"true", "false"} => exec[Drain].at = "exited"
    /\ shutdown \in {"draining", "true"} =>
         \A t \in Threads : exec[t].at \in {"off", "exited"}

Holds(e) == exec[e].at = "taken"

\* No callback sent in time is lost on the way.
NoneLost ==
    \A f \in early :
        \/ f \in ToSet(started)
        \/ f \in ToSet(queue)
        \/ \E e \in Executors : Holds(e) /\ exec[e].f = f

Settled == shutdown = "true" => early \subseteq ToSet(started)

Shapes ==
    /\ producer \in [Producers -> [at : {"idle", "send"}, n : 0 .. MaxEach]]
    /\ queue \in Seq(Callbacks)
    /\ exec \in [Executors -> [at : {"off", "select", "taken", "running", "exited"},
                               f : Callbacks \cup {None}]]
    /\ shutdown \in {"no", "waiting", "draining", "true", "false"}
    /\ sent \in Seq(Callbacks)
    /\ early \in SUBSET Callbacks
    /\ started \in Seq(Callbacks)

QueueInv ==
    /\ Shapes
    /\ OneInLine
    /\ Offered
    /\ Hands
    /\ Phases
    /\ NoneLost
    /\ Settled

\* With one thread: started, what is in hand, and the queue, one after the
\* other, are what was sent; h callbacks are in hand.
InOrder(h) ==
    /\ Len(sent) = Len(started) + h + Len(queue)
    /\ \A i \in 1 .. Len(started) : started[i] = sent[i]
    /\ \A i \in 1 .. Len(queue) : queue[i] = sent[Len(started) + h + i]

OrderInv ==
    Cardinality(Pool) = 1 =>
        \/ (\A e \in Executors : ~Holds(e)) /\ InOrder(0)
        \/ \E e \in Executors :
             /\ Holds(e)
             /\ \A x \in Executors : Holds(x) => x = e
             /\ InOrder(1)
             /\ exec[e].f = sent[Len(started) + 1]

-----------------------------------------------------------------------------
(* What a send and a receive do to the elements of a sequence.             *)

LEMMA AppendElements ==
    ASSUME NEW S, NEW s \in Seq(S), NEW x \in S
    PROVE  ToSet(Append(s, x)) = ToSet(s) \cup {x}
<1>1. /\ DOMAIN s = 1 .. Len(s)
      /\ DOMAIN Append(s, x) = 1 .. Len(s) + 1
      /\ Len(s) \in Nat
  BY AppendProperties, LenProperties
<1>2. /\ \A i \in 1 .. Len(s) : Append(s, x)[i] = s[i]
      /\ Append(s, x)[Len(s) + 1] = x
  BY AppendProperties
<1>3. QED
  BY <1>1, <1>2 DEF ToSet

LEMMA HeadElement ==
    ASSUME NEW S, NEW s \in Seq(S), s # <<>>
    PROVE  /\ Head(s) \in S
           /\ Tail(s) \in Seq(S)
           /\ ToSet(s) = {Head(s)} \cup ToSet(Tail(s))
<1>1. /\ Head(s) \in S
      /\ Tail(s) \in Seq(S)
      /\ Len(Tail(s)) = Len(s) - 1
      /\ \A i \in 1 .. Len(Tail(s)) : Tail(s)[i] = s[i + 1]
  BY HeadTailProperties
<1>2. /\ DOMAIN s = 1 .. Len(s)
      /\ DOMAIN Tail(s) = 1 .. Len(s) - 1
      /\ Len(s) \in Nat \ {0}
  BY <1>1, LenProperties, EmptySeq
<1>3. Head(s) = s[1]
  OBVIOUS
<1>4. \A i \in 1 .. Len(s) : i # 1 => i - 1 \in 1 .. Len(Tail(s)) /\ s[i] = Tail(s)[i - 1]
  BY <1>1, <1>2
<1>5. ToSet(s) \subseteq {Head(s)} \cup ToSet(Tail(s))
  <2>1. \A j \in 1 .. Len(Tail(s)) : Tail(s)[j] \in ToSet(Tail(s))
    BY <1>1, <1>2 DEF ToSet
  <2>2. \A i \in 1 .. Len(s) : s[i] \in {Head(s)} \cup ToSet(Tail(s))
    BY <1>3, <1>4, <2>1
  <2>3. QED
    BY <1>2, <2>2 DEF ToSet
<1>6. {Head(s)} \cup ToSet(Tail(s)) \subseteq ToSet(s)
  <2>1. \A j \in 1 .. Len(Tail(s)) : j + 1 \in 1 .. Len(s)
    BY <1>1, <1>2
  <2>2. 1 \in 1 .. Len(s)
    BY <1>2
  <2>3. QED
    BY <1>1, <1>2, <1>3, <2>1, <2>2 DEF ToSet
<1>7. QED
  BY <1>1, <1>5, <1>6

(* The callbacks are pairs, and None is not one of them.                   *)
LEMMA NoneIsNoCallback == None \notin Callbacks
BY DEF None, Callbacks

(* Everybody in line beyond the queue is another producer.                 *)
LEMMA LineBounded ==
    ASSUME Shapes, OneInLine
    PROVE  Len(queue) <= QueueSize + Cardinality(Producers)
<1>1. /\ QueueSize \in Nat
      /\ Len(queue) \in Nat
      /\ IsFiniteSet(Producers)
      /\ Cardinality(Producers) \in Nat
  BY QueueAssumption, LenProperties, FS_CardinalityType DEF Shapes
<1>2. CASE Len(queue) <= QueueSize
  BY <1>1, <1>2
<1>3. CASE Len(queue) > QueueSize
  <2> DEFINE k == Len(queue) - QueueSize
             who == [i \in 1 .. k |-> queue[QueueSize + i][1]]
  <2>1. k \in Nat /\ \A i \in 1 .. k : QueueSize + i \in 1 .. Len(queue)
    BY <1>1, <1>3
  <2>2. \A i \in 1 .. Len(queue) : queue[i][1] \in Producers
    BY ElementOfSeq DEF Shapes, Callbacks
  <2>3. who \in [1 .. k -> Producers]
    BY <2>1, <2>2
  <2>4. ASSUME NEW i \in 1 .. k, NEW j \in 1 .. k, i < j
        PROVE  who[i] # who[j]
    BY <1>1, <2>1, <2>4 DEF OneInLine
  <2>5. \A i, j \in 1 .. k : who[i] = who[j] => i = j
    <3>1. \A i, j \in 1 .. k : i < j \/ j < i \/ i = j
      BY <2>1
    <3>2. QED
      BY <2>4, <3>1
  <2>6. who \in Injection(1 .. k, Producers)
    BY <2>3, <2>5 DEF Injection, IsInjective
  <2> HIDE DEF who
  <2>7. Cardinality(1 .. k) <= Cardinality(Producers)
    BY ONLY <1>1, <2>6, FS_Injection
  <2>8. Cardinality(1 .. k) = k
    BY <2>1, <1>3, <1>1, FS_Interval
  <2>9. QED
    BY <1>1, <2>7, <2>8
<1>4. QED
  BY <1>1, <1>2, <1>3

LEMMA InvImpliesTypeOK == QueueInv => TypeOK
BY LineBounded DEF QueueInv, Shapes, TypeOK

-----------------------------------------------------------------------------
LEMMA InvInit == Init => QueueInv
<1> SUFFICES ASSUME Init PROVE QueueInv
  OBVIOUS
<1>1. queue = <<>> /\ started = <<>> /\ sent = <<>> /\ Len(queue) = 0
  BY DEF Init
<1>2. <<>> \in Seq(Callbacks)
  BY EmptySeq
<1>3. 0 \in 0 .. MaxEach
  BY QueueAssumption
<1>4. Shapes
  BY <1>1, <1>2, <1>3 DEF Init, Shapes, Executors
<1>5. /\ \A e \in Executors : exec[e].at \in {"off", "select"} /\ exec[e].f = None
      /\ exec[Drain].at = "off"
  BY QueueAssumption DEF Init, Executors
<1>6. OneInLine /\ Offered
  BY <1>1 DEF OneInLine, Offered, Init
<1>7. Hands /\ Phases
  BY <1>5 DEF Hands, Phases, Init
<1>8. NoneLost /\ Settled
  BY DEF NoneLost, Settled, Init
<1>9. QED
  BY <1>4, <1>6, <1>7, <1>8 DEF QueueInv

-----------------------------------------------------------------------------
(* One lemma for the steps that leave the queue alone, one for each of the *)
(* two that do not.                                                        *)

LEMMA EnqueueKeeps ==
    ASSUME QueueInv, NEW p \in Producers, Enqueue(p)
    PROVE  QueueInv'
<1> USE DEF QueueInv
<1>1. /\ producer' \in [Producers -> [at : {"idle", "send"}, n : 0 .. MaxEach]]
      /\ producer'[p].n > 0
      /\ \A q \in Producers : q # p => producer'[q] = producer[q]
  <2>1. MaxEach \in Nat /\ producer[p] \in [at : {"idle", "send"}, n : 0 .. MaxEach]
    BY QueueAssumption DEF Shapes
  <2>2. producer[p].n + 1 \in 0 .. MaxEach /\ producer[p].n + 1 > 0
    BY <2>1 DEF Enqueue
  <2>3. QED
    BY <2>2 DEF Shapes, Enqueue
<1>2. Shapes' /\ Offered'
  BY <1>1 DEF Shapes, Offered, Enqueue
<1>3. OneInLine'
  <2>1. \A i \in 1 .. Len(queue) : queue[i][1] \in Producers
    BY ElementOfSeq DEF Shapes, Callbacks
  <2>2. \A i \in 1 .. Len(queue) : i > QueueSize => queue[i][1] # p
    BY LenProperties DEF Enqueue, Blocked, Shapes
  <2>3. QED
    BY <1>1, <2>1, <2>2 DEF OneInLine, Enqueue
<1>4. Hands' /\ Phases' /\ NoneLost' /\ Settled'
  BY DEF Hands, Phases, NoneLost, Holds, Settled, Enqueue, idone
<1>5. QED
  BY <1>2, <1>3, <1>4

LEMMA SendKeeps ==
    ASSUME QueueInv, NEW p \in Producers, Send(p)
    PROVE  QueueInv'
<1> USE DEF QueueInv
<1> DEFINE f == <<p, producer[p].n>>
<1>1. f \in Callbacks /\ f[1] = p
  <2>1. producer[p].n \in 0 .. MaxEach /\ producer[p].n > 0 /\ MaxEach \in Nat
    BY QueueAssumption DEF Shapes, Offered, Send
  <2>2. producer[p].n \in 1 .. MaxEach
    BY <2>1
  <2>3. QED
    BY <2>2 DEF Callbacks
<1>2. /\ queue' = Append(queue, f)
      /\ sent' = Append(sent, f)
      /\ early' \in {early, early \cup {f}}
      /\ shutdown = "true" => early' = early
      /\ UNCHANGED <<exec, shutdown, started>>
  BY DEF Send, idone
<1>3. /\ producer' \in [Producers -> [at : {"idle", "send"}, n : 0 .. MaxEach]]
      /\ producer'[p].at = "idle"
      /\ \A q \in Producers : q # p => producer'[q] = producer[q]
      /\ producer[p].at = "send"
  BY DEF Send, Shapes
<1> HIDE DEF f
<1>4. queue' \in Seq(Callbacks) /\ sent' \in Seq(Callbacks)
  BY <1>1, <1>2, AppendProperties DEF Shapes
<1>5. Shapes'
  BY <1>1, <1>2, <1>3, <1>4 DEF Shapes
<1>6. Offered'
  BY <1>3 DEF Offered
<1>7. OneInLine'
  <2>1. /\ Len(queue') = Len(queue) + 1
        /\ Len(queue) \in Nat
        /\ \A i \in 1 .. Len(queue) : queue'[i] = queue[i]
        /\ queue'[Len(queue) + 1] = f
    BY <1>1, <1>2, AppendProperties, LenProperties DEF Shapes
  <2>2. \A i \in 1 .. Len(queue) : queue[i][1] \in Producers
    BY ElementOfSeq DEF Shapes, Callbacks
  <2>3. \A i \in 1 .. Len(queue) : i > QueueSize => queue[i][1] # p
    BY <1>3 DEF OneInLine
  <2>4. QED
    BY <1>1, <1>3, <2>1, <2>2, <2>3 DEF OneInLine
<1>8. Hands' /\ Phases'
  BY <1>2 DEF Hands, Phases
<1>9. NoneLost' /\ Settled'
  <2>1. ToSet(queue') = ToSet(queue) \cup {f}
    BY <1>1, <1>2, AppendElements DEF Shapes
  <2>2. QED
    BY <1>2, <2>1 DEF NoneLost, Holds, Settled
<1>10. QED
  BY <1>5, <1>6, <1>7, <1>8, <1>9

LEMMA TakeKeeps ==
    ASSUME QueueInv, NEW e \in Executors, Take(e),
           e = Drain \/ shutdown \notin {"draining", "true"}
    PROVE  QueueInv'
<1> USE DEF QueueInv
<1>1. /\ Head(queue) \in Callbacks
      /\ queue' \in Seq(Callbacks)
      /\ ToSet(queue) = {Head(queue)} \cup ToSet(queue')
      /\ queue # <<>>
  BY HeadElement DEF Take, Shapes
<1>2. /\ exec[e].at = "select"
      /\ exec'[e].at = "taken" /\ exec'[e].f = Head(queue)
      /\ \A x \in Executors : x # e => exec'[x] = exec[x]
      /\ UNCHANGED <<producer, shutdown, sent, early, started>>
  BY DEF Take, Shapes
<1>3. Shapes'
  BY <1>1, <1>2 DEF Take, Shapes
<1>4. Offered'
  BY <1>2 DEF Offered
<1>5. OneInLine'
  <2>1. /\ Len(queue') = Len(queue) - 1
        /\ Len(queue) \in Nat
        /\ \A i \in 1 .. Len(queue') : queue'[i] = queue[i + 1]
    BY <1>1, HeadTailProperties, LenProperties DEF Shapes, Take
  <2>2. OneInLine
    OBVIOUS
  <2>3. ASSUME NEW i \in 1 .. Len(queue'), i > QueueSize
        PROVE  /\ producer[queue'[i][1]].at = "idle"
               /\ \A j \in 1 .. Len(queue') : j > i => queue'[j][1] # queue'[i][1]
    <3>1. /\ QueueSize \in Nat
          /\ i + 1 \in 1 .. Len(queue)
          /\ i + 1 > QueueSize
          /\ \A j \in 1 .. Len(queue') : j + 1 \in 1 .. Len(queue) /\ (j > i => j + 1 > i + 1)
      BY <2>1, <2>3, QueueAssumption
    <3>2. /\ producer[queue[i + 1][1]].at = "idle"
          /\ \A j \in 1 .. Len(queue) : j > i + 1 => queue[j][1] # queue[i + 1][1]
      BY <2>2, <3>1 DEF OneInLine
    <3>3. QED
      BY <2>1, <3>1, <3>2
  <2>4. QED
    BY <1>2, <2>3 DEF OneInLine
<1>6. Hands'
  BY <1>1, <1>2 DEF Hands
<1>7. Phases'
  BY <1>2 DEF Phases, Executors
<1>8. NoneLost' /\ Settled'
  BY <1>1, <1>2 DEF NoneLost, Holds, Settled
<1>9. QED
  BY <1>3, <1>4, <1>5, <1>6, <1>7, <1>8

LEMMA BeginKeeps ==
    ASSUME QueueInv, NEW e \in Executors, Begin(e)
    PROVE  QueueInv'
<1> USE DEF QueueInv
<1>1. /\ exec[e].at = "taken" /\ exec[e].f \in Callbacks
      /\ exec'[e].at = "running" /\ exec'[e].f = exec[e].f
      /\ \A x \in Executors : x # e => exec'[x] = exec[x]
      /\ UNCHANGED <<producer, queue, shutdown, sent, early>>
  BY DEF Begin, Shapes, Hands
<1>2. ToSet(started') = ToSet(started) \cup {exec[e].f}
  BY <1>1, AppendElements DEF Begin, Shapes
<1>3. Shapes'
  <2>1. started' \in Seq(Callbacks)
    BY <1>1, AppendProperties DEF Begin, Shapes
  <2>2. QED
    BY <1>1, <2>1 DEF Begin, Shapes
<1>4. OneInLine' /\ Offered'
  BY <1>1 DEF OneInLine, Offered
<1>5. Hands'
  BY <1>1, <1>2 DEF Hands
<1>6. Phases'
  BY <1>1 DEF Phases, Executors
<1>7. NoneLost' /\ Settled'
  BY <1>1, <1>2 DEF NoneLost, Holds, Settled
<1>8. QED
  BY <1>3, <1>4, <1>5, <1>6, <1>7

LEMMA FinishKeeps ==
    ASSUME QueueInv, NEW e \in Executors, Finish(e)
    PROVE  QueueInv'
<1> USE DEF QueueInv
<1>1. /\ exec[e].at = "running"
      /\ exec'[e].at = "select" /\ exec'[e].f = None
      /\ \A x \in Executors : x # e => exec'[x] = exec[x]
      /\ UNCHANGED <<producer, queue, shutdown, sent, early, started>>
  BY DEF Finish, Shapes
<1>2. Shapes'
  BY <1>1 DEF Finish, Shapes
<1>3. OneInLine' /\ Offered'
  BY <1>1 DEF OneInLine, Offered
<1>4. Hands'
  BY <1>1 DEF Hands
<1>5. Phases'
  BY <1>1 DEF Phases, Executors
<1>6. NoneLost' /\ Settled'
  BY <1>1 DEF NoneLost, Holds, Settled
<1>7. QED
  BY <1>2, <1>3, <1>4, <1>5, <1>6

LEMMA ExitKeeps ==
    ASSUME QueueInv, NEW t \in Threads, Exit(t)
    PROVE  QueueInv'
<1> USE DEF QueueInv
<1>1. /\ t \in Executors /\ t # Drain
      /\ exec[t].at = "select" /\ exec'[t].at = "exited"
      /\ exec'[t].f = exec[t].f
      /\ \A x \in Executors : x # t => exec'[x] = exec[x]
      /\ UNCHANGED <<producer, queue, shutdown, sent, early, started>>
  BY QueueAssumption DEF Exit, Shapes, Executors
<1>2. Shapes'
  BY <1>1 DEF Exit, Shapes
<1>3. OneInLine' /\ Offered'
  BY <1>1 DEF OneInLine, Offered
<1>4. Hands'
  BY <1>1 DEF Hands
<1>5. Phases'
  BY <1>1 DEF Phases, Executors
<1>6. NoneLost' /\ Settled'
  BY <1>1 DEF NoneLost, Holds, Settled
<1>7. QED
  BY <1>2, <1>3, <1>4, <1>5, <1>6

-----------------------------------------------------------------------------
LEMMA ShutdownKeeps ==
    ASSUME QueueInv, Shutdown \/ PoolExited \/ Drained \/ TimedOut
    PROVE  QueueInv'
<1> USE DEF QueueInv
<1>1. Drain \in Executors /\ Drain \notin Threads /\ Threads \subseteq Executors
  BY QueueAssumption DEF Executors
<1>2. /\ UNCHANGED <<producer, queue, sent, early, started>>
      /\ shutdown' \in {"waiting", "draining", "true", "false"}
      /\ exec' \in [Executors -> [at : {"off", "select", "taken", "running", "exited"},
                                  f : Callbacks \cup {None}]]
      /\ \A x \in Executors : x # Drain => exec'[x] = exec[x]
      /\ exec'[Drain].f = exec[Drain].f
      /\ exec[Drain].at \in {"off", "select"}
      /\ exec'[Drain].at \in {"off", "select", "exited"}
  BY <1>1 DEF Shutdown, PoolExited, Drained, TimedOut, Shapes, Phases
<1>3. Shapes'
  BY <1>2 DEF Shapes
<1>4. OneInLine' /\ Offered'
  BY <1>2 DEF OneInLine, Offered
<1>5. Hands'
  BY <1>1, <1>2 DEF Hands
<1>6. Phases'
  <2>1. CASE Shutdown
    BY <2>1 DEF Phases, Shutdown
  <2>2. CASE PoolExited
    <3>1. \A t \in Threads : exec[t].at \in {"off", "exited"}
      BY <2>2 DEF PoolExited, Pool
    <3>2. QED
      BY <1>1, <1>2, <2>2, <3>1 DEF Phases, PoolExited, Shapes
  <2>3. CASE Drained
    BY <1>1, <1>2, <2>3 DEF Phases, Drained, Shapes
  <2>4. CASE TimedOut
    BY <1>1, <1>2, <2>4 DEF Phases, TimedOut, Shapes
  <2>5. QED
    BY <2>1, <2>2, <2>3, <2>4
<1>7. NoneLost'
  BY <1>1, <1>2 DEF NoneLost, Holds
<1>8. Settled'
  \* only the end of the drain makes it true: nothing is queued or in hand
  <2>1. CASE Drained
    <3>1. ToSet(queue) = {}
      BY <2>1 DEF Drained, ToSet
    <3>2. \A e \in Executors : ~Holds(e)
      BY <2>1 DEF Drained, Phases, Holds, Executors
    <3>3. QED
      BY <1>2, <3>1, <3>2 DEF NoneLost, Settled
  <2>2. CASE ~Drained
    BY <2>2 DEF Settled, Shutdown, PoolExited, TimedOut
  <2>3. QED
    BY <2>1, <2>2
<1>9. QED
  BY <1>3, <1>4, <1>5, <1>6, <1>7, <1>8

LEMMA InvNext == QueueInv /\ [Next]_vars => QueueInv'
<1> SUFFICES ASSUME QueueInv, [Next]_vars PROVE QueueInv'
  OBVIOUS
<1>1. \A t \in Threads : t \in Executors /\ (Take(t) => shutdown \notin {"draining", "true"})
  BY DEF Executors, Take, QueueInv, Phases
<1>2. ASSUME NEW p \in Producers, Enqueue(p) \/ Send(p) PROVE QueueInv'
  BY <1>2, EnqueueKeeps, SendKeeps
<1>3. ASSUME NEW t \in Threads, Thread(t) PROVE QueueInv'
  BY <1>1, <1>3, TakeKeeps, BeginKeeps, FinishKeeps, ExitKeeps DEF Thread, Execute
<1>4. CASE Execute(Drain)
  BY <1>4, TakeKeeps, BeginKeeps, FinishKeeps DEF Execute, Executors
<1>5. CASE Shutdown \/ PoolExited \/ Drained \/ TimedOut
  BY <1>5, ShutdownKeeps
<1>6. CASE UNCHANGED vars
  BY <1>6 DEF vars, QueueInv, Shapes, OneInLine, Offered, Hands, Phases,
              NoneLost, Holds, Settled
<1>7. QED
  BY <1>2, <1>3, <1>4, <1>5, <1>6 DEF Next, Draining

-----------------------------------------------------------------------------
(* The inductive invariant: every callback sent in time is queued, in      *)
(* hand or called, and the draining goroutine and the threads do not work  *)
(* at the same time (NewCallbackQueue, Enqueue, loop and Shutdown).        *)
THEOREM QueueInvariant == Spec => []QueueInv
BY InvInit, InvNext, PTL DEF Spec

(* Every state of the queue has its shape; at most QueueSize callbacks are *)
(* in the channel and every producer has at most one more waiting.         *)
THEOREM TypeCorrect == Spec => []TypeOK
BY QueueInvariant, InvImpliesTypeOK, PTL

(* When Shutdown returns true, what was sent before it was called has run  *)
(* to its end, for any number of senders and threads.                      *)
THEOREM DrainedHolds == Spec => []DrainedWhenTrue
<1>1. QueueInv => DrainedWhenTrue
  <2> SUFFICES ASSUME QueueInv, shutdown = "true", NEW f \in early
               PROVE  f \in ToSet(started) /\ \A e \in Executors : exec[e].f # f
    BY DEF DrainedWhenTrue
  <2>1. f \in ToSet(started) /\ f \in Callbacks
    BY DEF QueueInv, Settled, Shapes
  <2>2. \A e \in Executors : exec[e].f = None
    BY DEF QueueInv, Phases, Hands, Executors
  <2>3. QED
    BY <2>1, <2>2, NoneIsNoCallback
<1>2. QED
  BY <1>1, QueueInvariant, PTL

-----------------------------------------------------------------------------
(* The order of a pool of one thread.                                      *)

(* The pool has the threads it was made with.                              *)
LEMMA PoolStays == QueueInv /\ [Next]_vars => Pool' = Pool
<1> SUFFICES ASSUME QueueInv, [Next]_vars,
                    NEW t \in Threads
             PROVE  exec'[t].at = "off" <=> exec[t].at = "off"
  BY DEF Pool
<1> t \in Executors /\ t # Drain
  BY QueueAssumption DEF Executors
<1>1. ASSUME NEW e \in Executors, Take(e) \/ Begin(e) \/ Finish(e)
      PROVE  exec'[t].at = "off" <=> exec[t].at = "off"
  <2>1. \A x \in Executors : x # e => exec'[x] = exec[x]
    BY <1>1 DEF Take, Begin, Finish, QueueInv, Shapes
  <2>2. exec[e].at # "off" /\ exec'[e].at # "off"
    BY <1>1 DEF Take, Begin, Finish, QueueInv, Shapes
  <2>3. QED
    BY <2>1, <2>2
<1>2. CASE \E x \in Threads : Exit(x)
  BY <1>2 DEF Exit, QueueInv, Shapes, Executors
<1>3. CASE Shutdown \/ PoolExited \/ Drained \/ TimedOut
  BY <1>3 DEF Shutdown, PoolExited, Drained, TimedOut, QueueInv, Shapes
<1>4. CASE (\E p \in Producers : Enqueue(p) \/ Send(p)) \/ UNCHANGED vars
  BY <1>4 DEF Enqueue, Send, vars
<1>5. QED
  BY <1>1, <1>2, <1>3, <1>4 DEF Next, Thread, Execute, Draining, Executors

(* A pool of one and the drain: whoever selects or works is alone.         *)
LEMMA OneAtWork ==
    ASSUME QueueInv, Cardinality(Pool) = 1,
           NEW e \in Executors, exec[e].at \in {"select", "taken", "running"},
           NEW x \in Executors, exec[x].at \in {"select", "taken", "running"}
    PROVE  x = e
<1>1. PICK t : Pool = {t}
  <2>1. IsFiniteSet(Pool)
    BY QueueAssumption, FS_Subset DEF Pool
  <2>2. QED
    BY <2>1, FS_Singleton
<1>2. \A y \in Executors : exec[y].at \in {"select", "taken", "running"} =>
          \/ y = t /\ shutdown # "draining"
          \/ y = Drain /\ shutdown = "draining"
  BY <1>1 DEF Pool, Executors, QueueInv, Phases, Shapes
<1>3. QED
  BY <1>2

LEMMA OrderInit == Init => OrderInv
<1> SUFFICES ASSUME Init PROVE OrderInv
  OBVIOUS
<1>1. \A e \in Executors : ~Holds(e)
  BY DEF Init, Holds
<1>2. InOrder(0)
  BY EmptySeq DEF Init, InOrder
<1>3. QED
  BY <1>1, <1>2 DEF OrderInv

LEMMA OrderNext == QueueInv /\ OrderInv /\ [Next]_vars => OrderInv'
<1> SUFFICES ASSUME QueueInv, OrderInv, [Next]_vars, Cardinality(Pool) = 1
             PROVE  OrderInv'
  BY PoolStays DEF OrderInv
<1>1. /\ Len(queue) \in Nat /\ Len(sent) \in Nat /\ Len(started) \in Nat
      /\ queue \in Seq(Callbacks) /\ sent \in Seq(Callbacks) /\ started \in Seq(Callbacks)
  BY LenProperties DEF QueueInv, Shapes
<1>2. ASSUME NEW p \in Producers, Send(p) PROVE OrderInv'
  <2> DEFINE f == <<p, producer[p].n>>
  <2>1. f \in Callbacks
    <3>1. producer[p].n \in 0 .. MaxEach /\ producer[p].n > 0 /\ MaxEach \in Nat
      BY <1>2, QueueAssumption DEF QueueInv, Shapes, Offered, Send
    <3>2. QED
      BY <3>1 DEF Callbacks
  <2>2. /\ queue' = Append(queue, f) /\ sent' = Append(sent, f)
        /\ UNCHANGED <<exec, started>>
    BY <1>2 DEF Send
  <2> HIDE DEF f
  <2>3. /\ Len(queue') = Len(queue) + 1
        /\ \A i \in 1 .. Len(queue) : queue'[i] = queue[i]
        /\ queue'[Len(queue) + 1] = f
        /\ Len(sent') = Len(sent) + 1
        /\ \A i \in 1 .. Len(sent) : sent'[i] = sent[i]
        /\ sent'[Len(sent) + 1] = f
    BY <1>1, <2>1, <2>2, AppendProperties
  <2>4. ASSUME NEW h \in {0, 1}, InOrder(h) PROVE InOrder(h)'
    BY <1>1, <2>2, <2>3, <2>4 DEF InOrder
  <2>5. ASSUME InOrder(1) PROVE sent'[Len(started') + 1] = sent[Len(started) + 1]
    BY <1>1, <2>2, <2>3, <2>5 DEF InOrder
  <2>6. QED
    BY <2>2, <2>4, <2>5 DEF OrderInv, Holds, Pool
<1>3. ASSUME NEW e \in Executors, Take(e) PROVE OrderInv'
  <2>1. /\ exec[e].at = "select"
        /\ exec'[e].at = "taken" /\ exec'[e].f = Head(queue)
        /\ \A x \in Executors : x # e => exec'[x] = exec[x]
        /\ UNCHANGED <<sent, started>>
    BY <1>3 DEF Take, QueueInv, Shapes
  <2>2. \A x \in Executors : ~Holds(x)
    BY <2>1, OneAtWork DEF Holds
  <2>3. \A x \in Executors : Holds(x)' <=> x = e
    BY <2>1, <2>2 DEF Holds
  <2>4. InOrder(0)
    BY <2>2 DEF OrderInv
  <2>5. /\ Len(queue') = Len(queue) - 1
        /\ \A i \in 1 .. Len(queue') : queue'[i] = queue[i + 1]
        /\ Len(queue) > 0
        /\ Head(queue) = queue[1]
    BY <1>1, <1>3, HeadTailProperties, EmptySeq DEF Take
  <2>6. InOrder(1)'
    <3>1. \A i \in 1 .. Len(queue') : i + 1 \in 1 .. Len(queue)
      BY <1>1, <2>5
    <3>2. \A i \in 1 .. Len(queue') : queue[i + 1] = sent[Len(started) + 0 + (i + 1)]
      BY <2>4, <3>1 DEF InOrder
    <3>3. \A i \in 1 .. Len(queue') : Len(started) + 0 + (i + 1) = Len(started) + 1 + i
      BY <1>1, <3>1
    <3>4. \A i \in 1 .. Len(queue') : queue'[i] = sent'[Len(started') + 1 + i]
      BY <2>1, <2>5, <3>2, <3>3
    <3>5. Len(sent') = Len(started') + 1 + Len(queue')
      BY <1>1, <2>1, <2>4, <2>5 DEF InOrder
    <3>6. QED
      BY <2>1, <2>4, <3>4, <3>5 DEF InOrder
  <2>7. exec'[e].f = sent'[Len(started') + 1]
    BY <1>1, <2>1, <2>4, <2>5 DEF InOrder
  <2>8. QED
    BY <2>3, <2>6, <2>7 DEF OrderInv
<1>4. ASSUME NEW e \in Executors, Begin(e) PROVE OrderInv'
  <2>1. /\ Holds(e)
        /\ exec[e].f \in Callbacks
        /\ exec'[e].at = "running"
        /\ \A x \in Executors : x # e => exec'[x] = exec[x]
        /\ started' = Append(started, exec[e].f)
        /\ UNCHANGED <<sent, queue>>
    BY <1>4 DEF Begin, Holds, QueueInv, Hands, Shapes
  <2>2. /\ \A x \in Executors : Holds(x) => x = e
        /\ InOrder(1)
        /\ exec[e].f = sent[Len(started) + 1]
    BY <2>1 DEF OrderInv
  <2>3. \A x \in Executors : ~Holds(x)'
    BY <2>1, <2>2 DEF Holds
  <2>4. /\ Len(started') = Len(started) + 1
        /\ \A i \in 1 .. Len(started) : started'[i] = started[i]
        /\ started'[Len(started) + 1] = exec[e].f
    BY <1>1, <2>1, AppendProperties
  <2>5. InOrder(0)'
    BY <1>1, <2>1, <2>2, <2>4 DEF InOrder
  <2>6. QED
    BY <2>3, <2>5 DEF OrderInv
<1>5. ASSUME UNCHANGED <<queue, sent, started>>,
             \A x \in Executors : Holds(x)' <=> Holds(x),
             \A x \in Executors : Holds(x) => exec'[x].f = exec[x].f
      PROVE  OrderInv'
  <2>1. \A h : InOrder(h)' <=> InOrder(h)
    BY <1>5 DEF InOrder
  <2>2. QED
    BY <1>5, <2>1 DEF OrderInv
<1>6. ASSUME NEW e \in Executors, Finish(e) PROVE OrderInv'
  BY <1>5, <1>6 DEF Finish, Holds, QueueInv, Shapes
<1>7. ASSUME NEW t \in Threads, Exit(t) PROVE OrderInv'
  BY <1>5, <1>7 DEF Exit, Holds, QueueInv, Shapes, Executors
<1>8. CASE Shutdown \/ PoolExited \/ Drained \/ TimedOut
  BY <1>5, <1>8 DEF Shutdown, PoolExited, Drained, TimedOut, Holds, QueueInv, Shapes, Phases
<1>9. CASE (\E p \in Producers : Enqueue(p)) \/ UNCHANGED vars
  BY <1>5, <1>9 DEF Enqueue, vars, Holds
<1>10. QED
  BY <1>2, <1>3, <1>4, <1>6, <1>7, <1>8, <1>9, PoolStays
     DEF OrderInv, Next, Thread, Execute, Draining, Executors

(* A pool of one calls the callbacks in the order they were enqueued, also *)
(* where the drain takes over from the thread.                             *)
THEOREM OrderHolds == Spec => []StartedInOrder
<1>1. QueueInv /\ OrderInv => StartedInOrder
  <2> SUFFICES ASSUME QueueInv, OrderInv, Cardinality(Pool) = 1
               PROVE  started = SubSeq(sent, 1, Len(started))
    BY DEF StartedInOrder
  <2>1. /\ Len(started) \in Nat /\ Len(queue) \in Nat
        /\ sent \in Seq(Callbacks) /\ started \in Seq(Callbacks)
    BY LenProperties DEF QueueInv, Shapes
  <2>2. /\ Len(started) <= Len(sent)
        /\ \A i \in 1 .. Len(started) : started[i] = sent[i]
    BY <2>1 DEF OrderInv, InOrder
  <2>3. \A i \in 1 .. Len(started) : sent[i] \in Callbacks
    BY <2>1, <2>2, ElementOfSeq
  <2>4. /\ SubSeq(sent, 1, Len(started)) \in Seq(Callbacks)
        /\ Len(SubSeq(sent, 1, Len(started))) = Len(started)
        /\ \A i \in 1 .. Len(started) : SubSeq(sent, 1, Len(started))[i] = sent[i]
    BY <2>1, <2>3, SubSeqProperties
  <2>5. QED
    BY <2>1, <2>2, <2>4, SeqEqual
<1>2. QED
  BY <1>1, QueueInvariant, OrderInit, OrderNext, PTL DEF Spec

=============================================================================
