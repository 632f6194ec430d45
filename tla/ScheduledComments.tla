-------------------------- MODULE ScheduledComments --------------------------
(***************************************************************************)
(* Scheduled comments: server/app/scheduled_comments.go, the queries of    *)
(* sqlstore/scheduled_comments.go and the recurring task of                *)
(* services/scheduler, for one creator, several nodes and overlapping      *)
(* requests.                                                               *)
(*                                                                         *)
(* A worker is the scheduler goroutine of one node (it alone carries       *)
(* "tick") or an HTTP request.  The due comments are listed once per tick; *)
(* every later write is Store.PatchBlock: its transaction reads the row,   *)
(* overlays the patch and writes all of the copy back (read committed).    *)
(* A tick of time is a minute, the least lead a schedule must have; the    *)
(* upper limit of 30 days is beyond MaxTime and left out.  Restores and    *)
(* raw patches of the fields through the block API are left out.           *)
(***************************************************************************)
EXTENDS Integers, FiniteSets, SequencesExt

CONSTANTS Comments,
          Workers,     \* scheduler goroutines and requests in flight
          Allowed,     \* Allowed[w]: the operations worker w may carry
          Refused,     \* comments whose creator has lost the right to edit the card
          MaxScheduledCommentsPerUser,
          MaxTime,     \* bound: when the clock stops
          MaxFailures  \* bound: crashes and failed store calls

ASSUME ScheduledAssumption ==
    /\ IsFiniteSet(Comments)
    /\ Refused \subseteq Comments
    /\ MaxScheduledCommentsPerUser \in Nat
    /\ MaxTime \in Nat
    /\ MaxFailures \in Nat
    /\ Allowed \in [Workers -> SUBSET {"tick", "create", "update", "cancel",
                                       "sendnow", "delete"}]

VARIABLES now,
          row,        \* the comment's block: its status and scheduled time
          announced,  \* how often its notifications went out, 2 standing for more
          job,        \* where each worker is
          failures    \* crashes and failed store calls so far

vars == <<now, row, announced, job, failures>>

Keep == -1    \* UpdateScheduledComment with scheduledAt = nil

Idle == [op |-> "none", at |-> "idle", todo |-> <<>>, copy |-> [status |-> "none", at |-> Keep]]

Row == [status : {"none", "pending", "sent", "canceled", "gone"}, at : Keep .. MaxTime]

Job == [op : {"none", "tick", "create", "update", "cancel", "sendnow"},
        at : {"idle", "insert", "patch", "write", "announce"},
        todo : Seq(Comments), copy : Row]

TypeOK ==
    /\ now \in 0 .. MaxTime
    /\ row \in [Comments -> Row]
    /\ announced \in [Comments -> 0 .. 2]
    /\ job \in [Workers -> Job]
    /\ failures \in 0 .. MaxFailures

Init ==
    /\ now = 0
    /\ row = [c \in Comments |-> [status |-> "none", at |-> Keep]]
    /\ announced = [c \in Comments |-> 0]
    /\ job = [w \in Workers |-> Idle]
    /\ failures = 0

Stored(c) == row[c].status \notin {"none", "gone"}
Unused == {c \in Comments : row[c].status = "none"}
Pending == {c \in Comments : row[c].status = "pending"}
Ahead == now + 1 .. MaxTime

Goto(w, state) == job' = [job EXCEPT ![w] = state]
Starts(w, op) == job[w].at = "idle" /\ op \in Allowed[w]
Current(w) == Head(job[w].todo)

\* Some worker still has the comment to work on.
InHand(c) == \E w \in Workers : c \in ToSet(job[w].todo)

\* Done with the current comment: on to the next one of the list, if any.
Proceed(w) ==
    Goto(w, IF Len(job[w].todo) <= 1 THEN Idle
            ELSE [job[w] EXCEPT !.at = "patch", !.todo = Tail(@)])

-----------------------------------------------------------------------------
Minute ==
    /\ now < MaxTime
    /\ now' = now + 1
    /\ UNCHANGED <<row, announced, job, failures>>

\* Mutant of Due: the query forgets to ask for pending comments only.
DueWhateverStatus == {c \in Comments : Stored(c) /\ row[c].at <= now}

Due == {c \in Pending : row[c].at <= now}

\* getScheduledComments: ORDER BY scheduledAt; ties come in any order.
DueLists ==
    {l \in SetToSeqs(Due) :
        \A i, j \in DOMAIN l : i < j => row[l[i]].at <= row[l[j]].at}

ProcessScheduledComments(w) ==
    /\ Starts(w, "tick")
    /\ Due # {}
    /\ \E l \in DueLists :
         Goto(w, [Idle EXCEPT !.op = "tick", !.at = "patch", !.todo = l])
    /\ UNCHANGED <<now, row, announced, failures>>

-----------------------------------------------------------------------------
(* The requests: the checks on what is read, before anything is written.   *)

\* Bound: there is an id left for every create that has passed its checks.
IdLeft == Cardinality(Unused) > Cardinality({v \in Workers : job[v].at = "insert"})

\* Mutant of CreateScheduledComment: the limit off by one.
CreateOneTooMany(w, t) ==
    /\ Starts(w, "create")
    /\ t \in Ahead
    /\ IdLeft
    /\ Cardinality(Pending) <= MaxScheduledCommentsPerUser
    /\ Goto(w, [Idle EXCEPT !.op = "create", !.at = "insert", !.copy.at = t])
    /\ UNCHANGED <<now, row, announced, failures>>

CreateScheduledComment(w, t) ==
    /\ Starts(w, "create")
    /\ t \in Ahead
    /\ IdLeft
    /\ Cardinality(Pending) < MaxScheduledCommentsPerUser
    /\ Goto(w, [Idle EXCEPT !.op = "create", !.at = "insert", !.copy.at = t])
    /\ UNCHANGED <<now, row, announced, failures>>

InsertComment(w) ==
    /\ job[w].at = "insert"
    /\ \E c \in Comments :
         /\ row[c].status = "none"
         /\ row' = [row EXCEPT ![c] = [status |-> "pending", at |-> job[w].copy.at]]
    /\ Goto(w, Idle)
    /\ UNCHANGED <<now, announced, failures>>

\* Mutant of OnPending: the request does not look at the status.
OnStored(w, op, c, t) ==
    /\ Starts(w, op)
    /\ Stored(c)
    /\ Goto(w, [Idle EXCEPT !.op = op, !.at = "patch", !.todo = <<c>>, !.copy.at = t])
    /\ UNCHANGED <<now, row, announced, failures>>

OnPending(w, op, c, t) ==
    /\ Starts(w, op)
    /\ c \in Pending
    /\ Goto(w, [Idle EXCEPT !.op = op, !.at = "patch", !.todo = <<c>>, !.copy.at = t])
    /\ UNCHANGED <<now, row, announced, failures>>

CancelScheduledComment(w, c) == OnPending(w, "cancel", c, Keep)
SendScheduledCommentNow(w, c) == OnPending(w, "sendnow", c, Keep)
UpdateScheduledComment(w, c, t) == t \in Ahead \cup {Keep} /\ OnPending(w, "update", c, t)

DeleteBlock(w, c) ==
    /\ Starts(w, "delete")
    /\ Stored(c)
    /\ row' = [row EXCEPT ![c].status = "gone"]
    /\ UNCHANGED <<now, announced, job, failures>>

-----------------------------------------------------------------------------
(* PatchBlockAndNotify, and what sendScheduledComment does after it.       *)

\* Mutant of NewStatus: a status the rest of the code does not know.
NewStatusMisspelt(op, old) ==
    CASE op \in {"tick", "sendnow"} -> "sent"
      [] op = "cancel" -> "cancelled"
      [] OTHER -> old

NewStatus(op, old) ==
    CASE op \in {"tick", "sendnow"} -> "sent"
      [] op = "cancel" -> "canceled"
      [] OTHER -> old

\* Mutant of ReadRow: the first comment that cannot be sent ends the tick.
ReadRowOrAbort(w) ==
    LET j == job[w]
        r == row[Current(w)]
    IN  /\ j.at = "patch"
        /\ IF Stored(Current(w)) /\ Current(w) \notin Refused
           THEN Goto(w, [j EXCEPT !.at = "write",
                    !.copy = [status |-> NewStatus(j.op, r.status),
                              at |-> IF @.at = Keep \/ j.op # "update" THEN r.at ELSE @.at]])
           ELSE Goto(w, Idle)
        /\ UNCHANGED <<now, row, announced, failures>>

\* The block is loaded, the creator's right to edit the card is checked, and
\* the transaction overlays the patch on the row it reads.
ReadRow(w) ==
    LET j == job[w]
        r == row[Current(w)]
    IN  /\ j.at = "patch"
        /\ IF Stored(Current(w)) /\ Current(w) \notin Refused
           THEN Goto(w, [j EXCEPT !.at = "write",
                    !.copy = [status |-> NewStatus(j.op, r.status),
                              at |-> IF @.at = Keep \/ j.op # "update" THEN r.at ELSE @.at]])
           ELSE Proceed(w)
        /\ UNCHANGED <<now, row, announced, failures>>

\* All of the copy is written.  A row deleted in the meantime is inserted
\* again, or, deleted after insertBlock looked for it, stays away.
WriteRow(w) ==
    LET j == job[w]
        c == Current(w)
        written == [row EXCEPT ![c] = j.copy]
    IN  /\ j.at = "write"
        /\ row' \in IF Stored(c) THEN {written} ELSE {row, written}
        /\ Goto(w, IF j.op \in {"tick", "sendnow"}
                   THEN [j EXCEPT !.at = "announce", !.copy.at = Keep] ELSE Idle)
        /\ UNCHANGED <<now, announced, failures>>

\* The patched block is loaded again; then the mentions, the subscribers and
\* the linked channel are told.
Announce(w) ==
    LET c == Current(w) IN
    /\ job[w].at = "announce"
    /\ announced' = IF Stored(c) THEN [announced EXCEPT ![c] = IF @ = 0 THEN 1 ELSE 2] ELSE announced
    /\ Proceed(w)
    /\ UNCHANGED <<now, row, failures>>

\* A store call fails: this comment is given up, the list goes on.
Fail(w) ==
    /\ job[w].at \in {"patch", "write", "announce"}
    /\ failures < MaxFailures
    /\ failures' = failures + 1
    /\ Proceed(w)
    /\ UNCHANGED <<now, row, announced>>

\* The node goes down, and comes back with nothing in hand.
Crash(w) ==
    /\ job[w].at # "idle"
    /\ failures < MaxFailures
    /\ failures' = failures + 1
    /\ Goto(w, Idle)
    /\ UNCHANGED <<now, row, announced>>

-----------------------------------------------------------------------------
Proceeds(w) ==
    \/ InsertComment(w)
    \/ ReadRow(w)
    \/ WriteRow(w)
    \/ Announce(w)

Requested(w) ==
    \/ \E t \in Ahead : CreateScheduledComment(w, t)
    \/ \E c \in Comments :
         \/ CancelScheduledComment(w, c)
         \/ SendScheduledCommentNow(w, c)
         \/ \E t \in Ahead \cup {Keep} : UpdateScheduledComment(w, c, t)
         \/ DeleteBlock(w, c)

Next ==
    \/ Minute
    \/ \E w \in Workers :
         \/ ProcessScheduledComments(w)
         \/ Requested(w)
         \/ Proceeds(w)
         \/ Fail(w)
         \/ Crash(w)

Spec == Init /\ [][Next]_vars

\* The clock and the tickers go on, and what was started is finished or fails;
\* nobody has to send requests.  A ticker has a goroutine of its own: a worker
\* that carries requests as well (so that they do not overlap with its ticks)
\* cannot put its ticks off for ever, hence the strong fairness.
Fairness ==
    /\ WF_vars(Minute)
    /\ \A w \in Workers :
         /\ SF_vars(ProcessScheduledComments(w))
         /\ WF_vars(Proceeds(w))

FairSpec == Spec /\ Fairness

-----------------------------------------------------------------------------
(* The mentions and the channel post of a comment go out once: a crash or  *)
(* a failure half way, and the ticks after it, never repeat them.          *)
AnnouncedAtMostOnce ==
    \A c \in Comments : announced[c] <= 1

(* CreateScheduledComment's limit holds for what is stored, not only for   *)
(* the count it read.                                                      *)
WithinLimit ==
    Cardinality(Pending) <= MaxScheduledCommentsPerUser

(* A canceled comment is never taken up again: once the jobs that had it   *)
(* in hand are done, it is neither sent nor pending (CancelScheduledComment *)
(* and the status checks of the other requests).                           *)
CanceledIsFinal ==
    [][\A c \in Comments : row[c].status = "canceled" /\ ~InHand(c)
            => row'[c].status \in {"canceled", "gone"} /\ ~InHand(c)']_vars

(* Every pending comment goes out, or is canceled or deleted, also behind  *)
(* one that can never be sent, and after crashes and failures; these may   *)
(* only cost the announcement of a comment that is marked as sent          *)
(* (ProcessScheduledComments).                                             *)
EveryCommentIsSettled ==
    \A c \in Comments \ Refused :
        row[c].status = "pending" ~>
            \/ announced[c] > 0
            \/ row[c].status \in {"canceled", "gone"}
            \/ row[c].status = "sent" /\ failures > 0
=============================================================================
