---------------------------- MODULE CallbackQueue ----------------------------
(***************************************************************************)
(* utils/callbackqueue.go: the pool that runs the broadcasts, webhooks and *)
(* notifications a request leaves behind (app.blockChangeNotifier).        *)
(*                                                                         *)
(* queue is the Go channel and, beyond QueueSize, the senders that are     *)
(* blocked on it, which Go serves in order.  Shutdown itself runs what is  *)
(* left once the threads are gone: it is the executor Drain.  What a       *)
(* callback does is left out, as are errors and panics, which end nothing. *)
(* A second call of Shutdown, which returns at once, is left out too.      *)
(***************************************************************************)
EXTENDS Integers, FiniteSets, Sequences, SequencesExt

CONSTANTS Producers,   \* goroutines that call Enqueue
          Threads,     \* goroutines a pool may have
          Drain,       \* the goroutine that calls Shutdown
          QueueSize,
          MaxEach      \* bound: how many callbacks a producer enqueues

ASSUME QueueAssumption ==
    /\ IsFiniteSet(Producers) /\ IsFiniteSet(Threads) /\ Drain \notin Threads
    /\ QueueSize \in Nat \ {0}
    /\ MaxEach \in Nat

VARIABLES producer,   \* [at, n]: n callbacks offered so far
          queue,
          exec,       \* what each executor does, and with which callback
          shutdown,   \* "no", where Shutdown is, or what it returned
          sent,       \* the callbacks in the order they were sent
          early,      \* those sent before Shutdown was called
          started     \* the callbacks in the order they were called

vars == <<producer, queue, exec, shutdown, sent, early, started>>

Executors == Threads \cup {Drain}
Callbacks == Producers \X (1 .. MaxEach)
None == <<>>

idone == shutdown # "no"

Pool == {t \in Threads : exec[t].at # "off"}

TypeOK ==
    /\ producer \in [Producers -> [at : {"idle", "send"}, n : 0 .. MaxEach]]
    /\ queue \in Seq(Callbacks)
    /\ Len(queue) <= QueueSize + Cardinality(Producers)
    /\ exec \in [Executors -> [at : {"off", "select", "taken", "running", "exited"},
                               f : Callbacks \cup {None}]]
    /\ shutdown \in {"no", "waiting", "draining", "true", "false"}
    /\ sent \in Seq(Callbacks)
    /\ early \in SUBSET Callbacks
    /\ started \in Seq(Callbacks)

\* NewCallbackQueue, with a pool of any size.
Init ==
    /\ producer = [p \in Producers |-> [at |-> "idle", n |-> 0]]
    /\ queue = <<>>
    /\ \E pool \in (SUBSET Threads) \ {{}} :
         exec = [e \in Executors |-> [at |-> IF e \in pool THEN "select" ELSE "off", f |-> None]]
    /\ shutdown = "no"
    /\ sent = <<>>
    /\ early = {}
    /\ started = <<>>

-----------------------------------------------------------------------------
(* Enqueue reads idone, and then sends, with nothing to keep Shutdown out  *)
(* in between.                                                             *)

Blocked(p) == \E i \in DOMAIN queue : i > QueueSize /\ queue[i][1] = p

\* Mutant of Enqueue: a send that does not wait for room.
EnqueueUnbounded(p) ==
    /\ producer[p].at = "idle"
    /\ producer[p].n < MaxEach
    /\ producer' = [producer EXCEPT ![p] =
                      [at |-> IF idone THEN "idle" ELSE "send", n |-> @.n + 1]]
    /\ UNCHANGED <<queue, exec, shutdown, sent, early, started>>

Enqueue(p) ==
    /\ producer[p].at = "idle"
    /\ producer[p].n < MaxEach
    /\ ~Blocked(p)
    /\ producer' = [producer EXCEPT ![p] =
                      [at |-> IF idone THEN "idle" ELSE "send", n |-> @.n + 1]]
    /\ UNCHANGED <<queue, exec, shutdown, sent, early, started>>

Send(p) ==
    LET f == <<p, producer[p].n>> IN
    /\ producer[p].at = "send"
    /\ producer' = [producer EXCEPT ![p].at = "idle"]
    /\ queue' = Append(queue, f)
    /\ sent' = Append(sent, f)
    /\ early' = IF idone THEN early ELSE early \cup {f}
    /\ UNCHANGED <<exec, shutdown, started>>

-----------------------------------------------------------------------------
(* loop and exec.  With callbacks queued and done closed, select takes     *)
(* either.                                                                 *)

Take(e) ==
    /\ exec[e].at = "select"
    /\ queue # <<>>
    /\ exec' = [exec EXCEPT ![e] = [at |-> "taken", f |-> Head(queue)]]
    /\ queue' = Tail(queue)
    /\ UNCHANGED <<producer, shutdown, sent, early, started>>

Begin(e) ==
    /\ exec[e].at = "taken"
    /\ exec' = [exec EXCEPT ![e].at = "running"]
    /\ started' = Append(started, exec[e].f)
    /\ UNCHANGED <<producer, queue, shutdown, sent, early>>

Finish(e) ==
    /\ exec[e].at = "running"
    /\ exec' = [exec EXCEPT ![e] = [at |-> "select", f |-> None]]
    /\ UNCHANGED <<producer, queue, shutdown, sent, early, started>>

Exit(t) ==
    /\ idone
    /\ exec[t].at = "select"
    /\ exec' = [exec EXCEPT ![t].at = "exited"]
    /\ UNCHANGED <<producer, queue, shutdown, sent, early, started>>

-----------------------------------------------------------------------------
Shutdown ==
    /\ shutdown = "no"
    /\ shutdown' = "waiting"
    /\ UNCHANGED <<producer, queue, exec, sent, early, started>>

\* Mutant of PoolExited: Shutdown does not wait for the threads.
PoolAbandoned ==
    /\ shutdown = "waiting"
    /\ shutdown' = "draining"
    /\ exec' = [exec EXCEPT ![Drain].at = "select"]
    /\ UNCHANGED <<producer, queue, sent, early, started>>

\* Every thread has sent on alive.
PoolExited ==
    /\ shutdown = "waiting"
    /\ \A t \in Pool : exec[t].at = "exited"
    /\ shutdown' = "draining"
    /\ exec' = [exec EXCEPT ![Drain].at = "select"]
    /\ UNCHANGED <<producer, queue, sent, early, started>>

\* Mutant of Drained: Shutdown returns without running what is queued.
DrainSkipped ==
    /\ shutdown = "draining"
    /\ exec[Drain].at = "select"
    /\ shutdown' = "true"
    /\ exec' = [exec EXCEPT ![Drain].at = "exited"]
    /\ UNCHANGED <<producer, queue, sent, early, started>>

Drained ==
    /\ shutdown = "draining"
    /\ exec[Drain].at = "select"
    /\ queue = <<>>
    /\ shutdown' = "true"
    /\ exec' = [exec EXCEPT ![Drain].at = "exited"]
    /\ UNCHANGED <<producer, queue, sent, early, started>>

TimedOut ==
    /\ \/ shutdown = "waiting"
       \/ shutdown = "draining" /\ exec[Drain].at = "select"
    /\ shutdown' = "false"
    /\ exec' = [exec EXCEPT ![Drain].at = "exited"]
    /\ UNCHANGED <<producer, queue, sent, early, started>>

-----------------------------------------------------------------------------
Execute(e) == Take(e) \/ Begin(e) \/ Finish(e)

Thread(t) == Execute(t) \/ Exit(t)

Draining == PoolExited \/ Execute(Drain) \/ Drained

Next ==
    \/ \E p \in Producers : Enqueue(p) \/ Send(p)
    \/ \E t \in Threads : Thread(t)
    \/ Shutdown
    \/ Draining
    \/ TimedOut

Spec == Init /\ [][Next]_vars

\* Goroutines run and callbacks end; nobody has to enqueue or to shut down.
Fairness ==
    /\ \A p \in Producers : WF_vars(Send(p))
    /\ \A t \in Threads : WF_vars(Thread(t))
    /\ WF_vars(Draining)

FairSpec == Spec /\ Fairness

-----------------------------------------------------------------------------
(* When Shutdown returns true, what was sent before it was called has run, *)
(* to the end: the app goes on to close the store under the callbacks.     *)
DrainedWhenTrue ==
    shutdown = "true" =>
        \A f \in early : /\ f \in ToSet(started)
                         /\ \A e \in Executors : exec[e].f # f

(* "Callbacks will be executed in the order in which they are enqueued"    *)
(* (the comment of CallbackQueue): a pool of one thread keeps the order,   *)
(* through the hand-over to the draining goroutine and its time-out.  Two  *)
(* threads do not: each takes a callback in order and calls it later.      *)
StartedInOrder ==
    Cardinality(Pool) = 1 => started = SubSeq(sent, 1, Len(started))

(* A producer that waits for room in the queue when Shutdown is called     *)
(* gets it, unless Shutdown gives up; one that comes later may find the    *)
(* pool gone and the queue full.                                           *)
EnqueueReturns ==
    \A p \in Producers :
        Blocked(p) /\ <<p, producer[p].n>> \in early
            ~> ~Blocked(p) \/ shutdown = "false"
=============================================================================
