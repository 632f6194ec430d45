------------------------ MODULE SubscriptionNotifier ------------------------
(***************************************************************************)
(* The notifications of one card's subscribers: services/notify/           *)
(* notifysubscriptions and the notification_hints and subscriptions tables *)
(* of the sqlstore.                                                        *)
(*                                                                         *)
(* A change gets its time stamp, is committed to the history, and later    *)
(* (blockChangeNotifier) writes a hint that is due some minutes after the  *)
(* last change.  The notifier loop of every node pops the due hint and     *)
(* runs notifySubscribers; a forced notification runs it at once and then  *)
(* deletes the hint.  The steps of notifySubscribers are its store calls   *)
(* and the delivery.                                                       *)
(*                                                                         *)
(* The clock is what the time stamps tell apart: it moves with every       *)
(* stamp, so no two fall in the same millisecond.  The n.hints channel     *)
(* only wakes a loop before its timer does, and is left out: a loop may    *)
(* look at any time.  Hints of boards and of content blocks are left out:  *)
(* the first produce no diff, the second have no subscribers.              *)
(***************************************************************************)
EXTENDS Integers, FiniteSets, Sequences

CONSTANTS Users,        \* who subscribes and who edits
          Nodes,        \* the notifier loops
          Forces,       \* SendCardNotification requests
          Channel,      \* the channel a board may be linked to
          Linked,       \* it is
          Subscribed,   \* the users subscribed from the start
          Subscribing,  \* the users who come and go
          Mentioned,    \* the users who are subscribed once more while they are
          Members,      \* the users who may see the board
          Kinds,        \* what is changed: the "card" itself, a "child" of it
          MaxRuns,      \* bound: notifySubscribers under way at the same time
          Writers,      \* bound: changes stamped and not committed yet
          MaxChanges,   \* bound: how many changes are made
          MaxStamp      \* bound: how far the clock goes

ASSUME NotifierAssumption ==
    /\ Subscribed \subseteq Users /\ Subscribing \subseteq Users /\ Members \subseteq Users
    /\ Mentioned \subseteq Users /\ Channel \notin Users
    /\ Linked \in BOOLEAN
    /\ Kinds \subseteq {"card", "child"}
    /\ Nodes \cap Forces = {} /\ IsFiniteSet(Nodes \cup Forces)
    /\ MaxRuns \in Nat /\ Writers \in Nat
    /\ MaxChanges \in Nat /\ MaxStamp \in Nat /\ MaxStamp >= 2

VARIABLES now,
          log,         \* blocks_history of the card and its children, by time
                       \* stamp; a row is there for others once it is stored
          events,      \* changes whose BlockChanged has not run yet
          hint,        \* the card's row in notification_hints
          notifiedAt,  \* subscriptions.notified_at, 0 when not subscribed
          run,         \* where each notifySubscribers is
          owed,        \* owed[u]: changes others made while u was subscribed
          told         \* told[u][i]: how often u received change i, 2 for more

vars == <<now, log, events, hint, notifiedAt, run, owed, told>>

Receivers == Users \cup {Channel}
Workers == Nodes \cup Forces
Changes == 1 .. MaxChanges
Subscribers == {u \in Users : notifiedAt[u] > 0}

Idle == [at |-> "idle", subs |-> {}, oldest |-> 0, diff |-> {}, newest |-> 0]

Version == [at : 1 .. MaxStamp, kind : {"card", "child"}, by : Users, stored : BOOLEAN]

Run == [at : {"idle", "pop", "subscribers", "diffs", "children", "deliver", "update", "forget"},
        subs : SUBSET Users, oldest : 0 .. MaxStamp,
        diff : SUBSET Changes, newest : 0 .. MaxStamp]

TypeOK ==
    /\ now \in 1 .. MaxStamp + 1
    /\ log \in Seq(Version)
    /\ Len(log) <= MaxChanges
    /\ events \in 0 .. MaxChanges
    /\ hint \in {"none", "waiting", "due"}
    /\ notifiedAt \in [Users -> 0 .. MaxStamp]
    /\ run \in [Workers -> Run]
    /\ owed \in [Receivers -> SUBSET Changes]
    /\ told \in [Receivers -> [Changes -> 0 .. 2]]

\* The card was created at 1 and its subscribers subscribed at 2.
CreatedAt == 1

Init ==
    /\ now = 3
    /\ log = <<>>
    /\ events = 0
    /\ hint = "none"
    /\ notifiedAt = [u \in Users |-> IF u \in Subscribed THEN 2 ELSE 0]
    /\ run = [w \in Workers |-> Idle]
    /\ owed = [u \in Receivers |-> {}]
    /\ told = [u \in Receivers |-> [i \in Changes |-> 0]]

-----------------------------------------------------------------------------
(* What the users do.                                                      *)

Stamp == now <= MaxStamp /\ now' = now + 1

Open == {i \in DOMAIN log : ~log[i].stored}

\* The versions of the card, or of its children, after a point in time.
After(kind, t) == {i \in DOMAIN log \ Open : log[i].kind = kind /\ log[i].at > t}

\* insertBlock takes the stamp; the block and its history are there for
\* others when the transaction is committed.
Change(u, kind) ==
    LET i == Len(log) + 1
        concerned == IF Linked THEN (IF Subscribers = {} THEN {} ELSE {Channel})
                     ELSE (Subscribers \cap Members) \ {u}
    IN  /\ Len(log) < MaxChanges
        /\ Cardinality(Open) < Writers
        /\ Stamp
        /\ log' = Append(log, [at |-> now, kind |-> kind, by |-> u, stored |-> FALSE])
        /\ owed' = [r \in Receivers |-> IF r \in concerned THEN owed[r] \cup {i} ELSE owed[r]]
        /\ UNCHANGED <<events, hint, notifiedAt, run, told>>

Commit ==
    /\ \E i \in Open : log' = [log EXCEPT ![i].stored = TRUE]
    /\ events' = events + 1
    /\ UNCHANGED <<now, hint, notifiedAt, run, owed, told>>

\* upsertNotificationHint: a hint that waits, or is due, waits anew.
BlockChanged ==
    /\ events > 0
    /\ events' = events - 1
    /\ hint' = IF Subscribers = {} THEN hint ELSE "waiting"
    /\ UNCHANGED <<now, log, notifiedAt, run, owed, told>>

HintDue ==
    /\ hint = "waiting"
    /\ hint' = "due"
    /\ UNCHANGED <<now, log, events, notifiedAt, run, owed, told>>

Subscribes(u) ==
    \/ u \in Subscribing \ Subscribers
    \/ u \in Mentioned \cap Subscribers

\* createSubscription: by the user's request, or for a user who is mentioned
\* in a comment (OnMention); a subscription that exists is stamped anew.
CreateSubscription(u) ==
    /\ Subscribes(u)
    /\ Stamp
    /\ notifiedAt' = [notifiedAt EXCEPT ![u] = now]
    /\ UNCHANGED <<log, events, hint, run, owed, told>>

DeleteSubscription(u) ==
    /\ u \in Subscribing \cap Subscribers
    /\ notifiedAt' = [notifiedAt EXCEPT ![u] = 0]
    /\ owed' = [owed EXCEPT ![u] = {}]
    /\ UNCHANGED <<now, log, events, hint, run, told>>

-----------------------------------------------------------------------------
(* notifier.loop and notifier.notify: a look, then a pop of whatever hint  *)
(* is there by then; another node may have been faster.                    *)

Goto(w, state) == run' = [run EXCEPT ![w] = state]

Running == {w \in Workers : run[w].at \notin {"idle", "pop"}}

Look(n) ==
    /\ run[n].at = "idle"
    /\ hint = "due"
    /\ Goto(n, [Idle EXCEPT !.at = "pop"])
    /\ UNCHANGED <<now, log, events, hint, notifiedAt, owed, told>>

Pop(n) ==
    /\ run[n].at = "pop"
    /\ Cardinality(Running) < MaxRuns
    /\ hint' = "none"
    /\ Goto(n, IF hint = "none" THEN Idle ELSE [Idle EXCEPT !.at = "subscribers"])
    /\ UNCHANGED <<now, log, events, notifiedAt, owed, told>>

\* SendCardNotification: only a board linked to a channel.
ForceNotifyBlock(f) ==
    /\ run[f].at = "idle"
    /\ Linked
    /\ Cardinality(Running) < MaxRuns
    /\ Goto(f, [Idle EXCEPT !.at = "subscribers"])
    /\ UNCHANGED <<now, log, events, hint, notifiedAt, owed, told>>

-----------------------------------------------------------------------------
(* notifySubscribers.                                                      *)

Returned(w) == IF w \in Forces THEN [Idle EXCEPT !.at = "forget"] ELSE Idle

Least(S) == CHOOSE x \in S : \A y \in S : x <= y
Greatest(S) == CHOOSE x \in S : \A y \in S : x >= y

GetSubscribersForBlock(w) ==
    /\ run[w].at = "subscribers"
    /\ Goto(w, IF Subscribers = {} THEN Returned(w)
               ELSE [Idle EXCEPT !.at = "diffs", !.subs = Subscribers,
                                 !.oldest = Least({notifiedAt[u] : u \in Subscribers})])
    /\ UNCHANGED <<now, log, events, hint, notifiedAt, owed, told>>

\* There is a diff of the card even when nothing changed, so newest is never
\* older than the card, and may well be older than what subscribers were told.
DiffCard(w) ==
    LET versions == After("card", 0)
    IN  /\ run[w].at = "diffs"
        /\ Goto(w, [run[w] EXCEPT
              !.at = "children", !.diff = After("card", run[w].oldest),
              !.newest = Greatest({CreatedAt} \cup {log[i].at : i \in versions})])
        /\ UNCHANGED <<now, log, events, hint, notifiedAt, owed, told>>

\* The children are read after the card: the diff is of two moments.
DiffChildren(w) ==
    LET changed == After("child", run[w].oldest)
    IN  /\ run[w].at = "children"
        /\ Goto(w, [run[w] EXCEPT
              !.at = "deliver", !.diff = @ \cup changed,
              !.newest = Greatest({@} \cup {log[i].at : i \in changed})])
        /\ UNCHANGED <<now, log, events, hint, notifiedAt, owed, told>>

\* To the channel alone, or to every subscriber who may see the board and has
\* not made all of the changes; nothing is sent when nothing changed.
Recipients(w) ==
    LET authors == {log[i].by : i \in run[w].diff}
    IN  IF Linked THEN {Channel}
        ELSE {u \in run[w].subs \cap Members : authors # {u}}

Deliver(w) ==
    /\ run[w].at = "deliver"
    /\ told' = [r \in Receivers |-> [i \in Changes |->
                   IF r \notin Recipients(w) \/ i \notin run[w].diff THEN told[r][i]
                   ELSE IF told[r][i] = 0 THEN 1 ELSE 2]]
    /\ Goto(w, [run[w] EXCEPT !.at = "update"])
    /\ UNCHANGED <<now, log, events, hint, notifiedAt, owed>>

\* Mutants of UpdateSubscribersNotifiedAt: notified_at becomes the time of the
\* write, and notified_at of those who were told only.
UpdateToNow(w) ==
    /\ run[w].at = "update"
    /\ notifiedAt' = [u \in Users |-> IF u \in Subscribers THEN now - 1 ELSE 0]
    /\ Goto(w, Returned(w))
    /\ UNCHANGED <<now, log, events, hint, owed, told>>

UpdateRecipientsOnly(w) ==
    /\ run[w].at = "update"
    /\ notifiedAt' = [u \in Users |-> IF u \in Subscribers \cap Recipients(w)
                                      THEN run[w].newest ELSE notifiedAt[u]]
    /\ Goto(w, Returned(w))
    /\ UNCHANGED <<now, log, events, hint, owed, told>>

UpdateSubscribersNotifiedAt(w) ==
    /\ run[w].at = "update"
    /\ notifiedAt' = [u \in Users |-> IF u \in Subscribers THEN run[w].newest ELSE 0]
    /\ Goto(w, Returned(w))
    /\ UNCHANGED <<now, log, events, hint, owed, told>>

DeleteNotificationHint(f) ==
    /\ run[f].at = "forget"
    /\ hint' = "none"
    /\ Goto(f, Idle)
    /\ UNCHANGED <<now, log, events, notifiedAt, owed, told>>

-----------------------------------------------------------------------------
NotifySubscribers(w) ==
    \/ GetSubscribersForBlock(w)
    \/ DiffCard(w)
    \/ DiffChildren(w)
    \/ Deliver(w)
    \/ UpdateSubscribersNotifiedAt(w)

NodeStep(n) == Look(n) \/ Pop(n) \/ NotifySubscribers(n)

ForceStep(f) == NotifySubscribers(f) \/ DeleteNotificationHint(f)

Next ==
    \/ \E u \in Users :
         \/ \E kind \in Kinds : Change(u, kind)
         \/ CreateSubscription(u)
         \/ DeleteSubscription(u)
    \/ Commit
    \/ BlockChanged
    \/ HintDue
    \/ \E n \in Nodes : NodeStep(n)
    \/ \E f \in Forces : ForceNotifyBlock(f) \/ ForceStep(f)

Spec == Init /\ [][Next]_vars

\* Transactions end, the callbacks run, time makes hints due, the loops go on
\* and a request that was started ends; nobody has to change, subscribe or
\* force anything.
Fairness ==
    /\ WF_vars(Commit)
    /\ WF_vars(BlockChanged)
    /\ WF_vars(HintDue)
    /\ \A n \in Nodes : WF_vars(NodeStep(n))
    /\ \A f \in Forces : WF_vars(ForceStep(f))

FairSpec == Spec /\ Fairness

-----------------------------------------------------------------------------
(* Every change others make while a user is subscribed reaches the user    *)
(* (reaches the channel, when there is one): hints overwrite one another   *)
(* and are popped while changes go on, and no change falls between.        *)
EveryChangeIsTold ==
    \A r \in Receivers : \A i \in Changes :
        i \in owed[r] ~> told[r][i] > 0 \/ i \notin owed[r]

(* No change is delivered to the same receiver twice: notified_at keeps    *)
(* what was told out of the next diff.                                     *)
NoRepeat ==
    \A r \in Receivers : \A i \in Changes : told[r][i] <= 1
=============================================================================
