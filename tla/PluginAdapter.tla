---------------------------- MODULE PluginAdapter ----------------------------
(* The websocket side of one node as a plugin (server/ws/plugin_adapter.go,  *)
(* plugin_adapter_client.go).  The host server calls three hooks, each on a   *)
(* goroutine: a connection opened, it closed, it posted a message.  The hooks *)
(* keep a record (PluginAdapterClient) of every connection in a map and in    *)
(* lists by user and by team; a broadcast goes to the users with an active    *)
(* record in the list of its team.  The map and the lists by user have one    *)
(* lock, the lists by team another, and a list is read under the lock and     *)
(* written back under it later.  The web client repeats its subscriptions     *)
(* whenever its connection opens.  The order of the lists and a record that   *)
(* is there twice make no difference to who hears what: they are sets here.   *)
EXTENDS Integers, FiniteSets, Sequences, SequencesExt, Functions

CONSTANTS Conns,        \* connection ids of the host; one may open again
          Users,
          Teams,
          UserOf,       \* the user of a connection
          Overtakes,    \* hooks that may still run when the next one of their
                        \* connection starts: the host starts them on goroutines
          MaxEvents     \* bound: openings, closings, page changes, restarts

ASSUME UserOfAssumption == UserOf \in [Conns -> Users]
ASSUME OvertakesAssumption == Overtakes \subseteq {"connect", "disconnect"}
ASSUME TeamsAssumption == IsFiniteSet(Teams)
ASSUME EventsAssumption == MaxEvents \in Nat

VARIABLES pacs,        \* every PluginAdapterClient there was, by number
          listeners,   \* conn -> record, 0 for none
          byUser,      \* listenersByUserID
          byTeam,      \* listenersByTeam
          calls,       \* hooks that run
          locked,      \* a hook holds listenersMU across steps
          isOpen,      \* the connection is open
          watches,     \* the teams the pages behind a connection watch
          mail,        \* commands posted on a connection, not yet handed over
          unheard,     \* history: watched on a connection that was open at a
                       \* restart, and not said again since
          harmed,      \* history: <<record, team>> that another hook took out of
                       \* a list, put back into one, or removed when it was
                       \* active or in place of another, and those whose
                       \* unsubscription was not sent
          events       \* host events so far

hooks == <<pacs, listeners, byUser, byTeam, calls, locked, harmed>>
host == <<isOpen, watches, mail, unheard, events>>
vars == <<hooks, host>>

Ops == {"connect", "disconnect", "subscribe", "unsubscribe"}
Pcs == {"look", "register", "revive", "mark", "others", "stale", "expiry", "remove",
        "each", "known", "append", "note", "read", "write", "drop"}

\* A PluginAdapterClient; "expired": inactive for longer than staleThreshold.
Client == [conn : Conns, state : {"active", "inactive", "expired"}, teams : SUBSET Teams]

Numbers == DOMAIN pacs

\* A hook that runs: the record it is about, the list it has read, the records
\* and the teams it has still to go through.
Hook == [conn : Conns, op : Ops, team : Teams \cup {"none"}, pc : Pcs,
         pac : {0} \cup Numbers, list : SUBSET Numbers, left : SUBSET Numbers,
         teams : SUBSET Teams]

TypeOK ==
    /\ pacs \in Seq(Client)
    /\ listeners \in [Conns -> {0} \cup Numbers]
    /\ byUser \in [Users -> SUBSET Numbers]
    /\ byTeam \in [Teams -> SUBSET Numbers]
    /\ calls \subseteq Hook
    /\ locked \in BOOLEAN
    /\ isOpen \in [Conns -> BOOLEAN]
    /\ watches \in [Conns -> SUBSET Teams]
    /\ mail \in [Conns -> Seq({"subscribe", "unsubscribe"} \X Teams)]
    /\ unheard \subseteq Conns \X Teams
    /\ harmed \subseteq Numbers \X Teams
    /\ events \in 0..MaxEvents

Call(c, op, t) == [conn |-> c, op |-> op, team |-> t, pc |-> "look", pac |-> 0,
                   list |-> {}, left |-> {}, teams |-> {}]

Init ==
    /\ pacs = <<>>
    /\ listeners = [c \in Conns |-> 0]
    /\ byUser = [u \in Users |-> {}]
    /\ byTeam = [t \in Teams |-> {}]
    /\ calls = {}
    /\ locked = FALSE
    /\ isOpen = [c \in Conns |-> FALSE]
    /\ watches = [c \in Conns |-> {}]
    /\ mail = [c \in Conns |-> <<>>]
    /\ unheard = {}
    /\ harmed = {}
    /\ events = 0

-----------------------------------------------------------------------------
(* The host server and the web client.  The host hands over the messages of a *)
(* connection one after the other.                                            *)

MayStart(c) == \A k \in calls : k.conn = c => k.op \in Overtakes

Records(c) == {p \in Numbers : pacs[p].conn = c}

Event == events < MaxEvents /\ events' = events + 1

\* The connection opens, for the first time or again under the same id; the
\* client posts its subscriptions (onConnect, onReconnect of wsclient.ts).
Open(c) ==
    /\ Event /\ ~isOpen[c] /\ MayStart(c)
    /\ isOpen' = [isOpen EXCEPT ![c] = TRUE]
    /\ calls' = calls \cup {Call(c, "connect", "none")}
    /\ mail' = [mail EXCEPT ![c] = SetToSeq({<<"subscribe", t>> : t \in watches[c]})]
    /\ unheard' = {ct \in unheard : ct[1] # c}
    /\ UNCHANGED <<pacs, listeners, byUser, byTeam, locked, watches, harmed>>

\* What was posted and not handed over is lost.
Close(c) ==
    /\ Event /\ isOpen[c] /\ MayStart(c)
    /\ isOpen' = [isOpen EXCEPT ![c] = FALSE]
    /\ calls' = calls \cup {Call(c, "disconnect", "none")}
    /\ mail' = [mail EXCEPT ![c] = <<>>]
    /\ harmed' = harmed \cup (Records(c) \X {t \in Teams : <<"unsubscribe", t>> \in Range(mail[c])})
    /\ UNCHANGED <<pacs, listeners, byUser, byTeam, locked, watches, unheard>>

\* A page starts or stops to watch a team; without a connection nothing is sent,
\* and the record of a connection that is away keeps the team it had.
Watch(c, t) ==
    /\ Event
    /\ LET starts == t \notin watches[c] IN
       /\ watches' = [watches EXCEPT ![c] = IF starts THEN @ \cup {t} ELSE @ \ {t}]
       /\ mail' = IF isOpen[c]
                  THEN [mail EXCEPT ![c] = Append(@, <<IF starts THEN "subscribe"
                                                       ELSE "unsubscribe", t>>)]
                  ELSE mail
       /\ harmed' = IF ~starts /\ ~isOpen[c]
                    THEN harmed \cup (Records(c) \X {t})
                    ELSE harmed
    /\ unheard' = unheard \ {<<c, t>>}
    /\ UNCHANGED <<pacs, listeners, byUser, byTeam, calls, locked, isOpen>>

Post(c) ==
    /\ mail[c] # <<>> /\ MayStart(c)
    /\ calls' = calls \cup {Call(c, Head(mail[c])[1], Head(mail[c])[2])}
    /\ mail' = [mail EXCEPT ![c] = Tail(@)]
    /\ UNCHANGED <<pacs, listeners, byUser, byTeam, locked, isOpen, watches, unheard, harmed, events>>

\* The plugin restarts under the open connections: its maps are empty, and what
\* was posted is gone.
Restart ==
    /\ Event
    /\ pacs' = <<>> /\ harmed' = {}
    /\ listeners' = [c \in Conns |-> 0]
    /\ byUser' = [u \in Users |-> {}]
    /\ byTeam' = [t \in Teams |-> {}]
    /\ calls' = {} /\ locked' = FALSE
    /\ mail' = [c \in Conns |-> <<>>]
    /\ unheard' = {ct \in Conns \X Teams : isOpen[ct[1]] /\ ct[2] \in watches[ct[1]]}
    /\ UNCHANGED <<isOpen, watches>>

\* staleThreshold passes after a closing.
Age(p) ==
    /\ pacs[p].state = "inactive"
    /\ pacs' = [pacs EXCEPT ![p].state = "expired"]
    /\ UNCHANGED <<listeners, byUser, byTeam, calls, locked, harmed, host>>

-----------------------------------------------------------------------------
(* The hooks, one lock section at a time.  An operator marked as a mutant is   *)
(* not part of Next: it is a slip of the code that a property notices.        *)

\* k goes on as k2, or returns.
Goes(k, k2) == calls' = (calls \ {k}) \cup {k2}
Ends(k) == calls' = calls \ {k}

Without(list, c) == {p \in list : pacs[p].conn # c}

\* What a hook does with the record of its connection.
Branch(op) == CASE op = "connect" -> "revive"
                [] op = "disconnect" -> "mark"
                [] OTHER -> "known"

\* Mutant of Look: messages of an unknown connection are dropped.
LookDrops(k) ==
    /\ k.pc = "look" /\ ~locked
    /\ LET p == listeners[k.conn] IN
       IF p = 0
       THEN IF k.op # "connect" THEN Ends(k) ELSE Goes(k, [k EXCEPT !.pc = "register"])
       ELSE Goes(k, [k EXCEPT !.pac = p, !.pc = Branch(k.op)])
    /\ UNCHANGED <<pacs, listeners, byUser, byTeam, locked, harmed, host>>

\* Mutant of Look: a connect hook always registers.
LookRegisters(k) ==
    /\ k.pc = "look" /\ ~locked
    /\ LET p == listeners[k.conn] IN
       IF p = 0 \/ k.op = "connect"
       THEN IF k.op = "disconnect" THEN Ends(k) ELSE Goes(k, [k EXCEPT !.pc = "register"])
       ELSE Goes(k, [k EXCEPT !.pac = p, !.pc = Branch(k.op)])
    /\ UNCHANGED <<pacs, listeners, byUser, byTeam, locked, harmed, host>>

\* GetListenerByWebConnID and the branch after it.
Look(k) ==
    /\ k.pc = "look" /\ ~locked
    /\ LET p == listeners[k.conn] IN
       IF p = 0
       THEN IF k.op = "disconnect" THEN Ends(k) ELSE Goes(k, [k EXCEPT !.pc = "register"])
       ELSE Goes(k, [k EXCEPT !.pac = p, !.pc = Branch(k.op)])
    /\ UNCHANGED <<pacs, listeners, byUser, byTeam, locked, harmed, host>>

\* registerListener with addListener, by the connect hook or by a message of a
\* connection nobody has a record of.
Register(k) ==
    /\ k.pc = "register" /\ ~locked
    /\ LET p == Len(pacs) + 1 IN
       /\ pacs' = Append(pacs, [conn |-> k.conn, state |-> "active", teams |-> {}])
       /\ listeners' = [listeners EXCEPT ![k.conn] = p]
       /\ byUser' = [byUser EXCEPT ![UserOf[k.conn]] = @ \cup {p}]
       /\ Goes(k, [k EXCEPT !.pac = p,
                            !.pc = IF k.op = "connect" THEN "others" ELSE "known"])
    /\ UNCHANGED <<byTeam, locked, harmed, host>>

\* inactiveAt is set to 0, or to now; the record may have been taken out meanwhile.
Revive(k) ==
    /\ k.pc = "revive"
    /\ pacs' = [pacs EXCEPT ![k.pac].state = "active"]
    /\ harmed' = IF listeners[k.conn] = k.pac THEN harmed ELSE harmed \cup ({k.pac} \X Teams)
    /\ Ends(k)
    /\ UNCHANGED <<listeners, byUser, byTeam, locked, host>>

Mark(k) ==
    /\ k.pc = "mark"
    /\ pacs' = [pacs EXCEPT ![k.pac].state = "inactive"]
    /\ Ends(k)
    /\ UNCHANGED <<listeners, byUser, byTeam, locked, harmed, host>>

\* removeExpiredForUserID: the list of the user is read once, then looked
\* through without the lock.
Others(k) ==
    /\ k.pc = "others" /\ ~locked
    /\ Goes(k, [k EXCEPT !.left = byUser[UserOf[k.conn]], !.pc = "stale"])
    /\ UNCHANGED <<pacs, listeners, byUser, byTeam, locked, harmed, host>>

\* isActive of the next record ...
Stale(k) ==
    /\ k.pc = "stale"
    /\ \/ k.left = {} /\ Ends(k)
       \/ \E p \in k.left :
            Goes(k, [k EXCEPT !.left = @ \ {p}, !.pac = p,
                              !.pc = IF pacs[p].state = "active" THEN "stale" ELSE "expiry"])
    /\ UNCHANGED <<pacs, listeners, byUser, byTeam, locked, harmed, host>>

\* ... and hasExpired, which reads inactiveAt again: a record that has become
\* active in between, with 0, counts as expired.
Expiry(k) ==
    /\ k.pc = "expiry"
    /\ Goes(k, [k EXCEPT !.pc = IF pacs[k.pac].state = "inactive" THEN "stale" ELSE "remove"])
    /\ UNCHANGED <<pacs, listeners, byUser, byTeam, locked, harmed, host>>

\* removeListener takes the lock; the record may come back before or under it.
TakeOut(k) ==
    /\ k.pc = "remove" /\ ~locked
    /\ Goes(k, [k EXCEPT !.teams = pacs[k.pac].teams, !.pc = "each"])
    /\ locked' = TRUE
    /\ UNCHANGED <<pacs, listeners, byUser, byTeam, harmed, host>>

\* Out of the list of the user and out of the map; the lock is given back.  The
\* map loses what it has under the connection, be it another record by now.
Unlisted(k) ==
    /\ k.pc = "each" /\ k.teams = {}
    /\ LET c == pacs[k.pac].conn
           p == listeners[c]
       IN  /\ byUser' = [byUser EXCEPT ![UserOf[c]] = Without(@, c)]
           /\ listeners' = [listeners EXCEPT ![c] = 0]
           /\ harmed' = IF p # 0 /\ (p # k.pac \/ pacs[p].state = "active")
                        THEN harmed \cup ({p} \X Teams) ELSE harmed
    /\ Goes(k, [k EXCEPT !.pc = "stale"])
    /\ UNCHANGED <<pacs, byTeam, host>>

\* Mutant of Forget: the lock is not given back.
ForgetLocked(k) == Unlisted(k) /\ UNCHANGED locked

Forget(k) == Unlisted(k) /\ locked' = FALSE

\* subscribeListenerToTeam and unsubscribeListenerFromTeam return when the
\* record has the team, or does not have it.
Known(k) ==
    /\ k.pc = "known"
    /\ IF (k.op = "subscribe") = (k.team \in pacs[k.pac].teams) THEN Ends(k)
       ELSE Goes(k, [k EXCEPT !.pc = IF k.op = "subscribe" THEN "append" ELSE "read"])
    /\ UNCHANGED <<pacs, listeners, byUser, byTeam, locked, harmed, host>>

AppendToTeam(k) ==
    /\ k.pc = "append"
    /\ byTeam' = [byTeam EXCEPT ![k.team] = @ \cup {k.pac}]
    /\ Goes(k, [k EXCEPT !.pc = "note"])
    /\ UNCHANGED <<pacs, listeners, byUser, locked, harmed, host>>

NoteTeam(k) ==
    /\ k.pc = "note"
    /\ pacs' = [pacs EXCEPT ![k.pac].teams = @ \cup {k.team}]
    /\ harmed' = IF k.pac \in byTeam[k.team] /\ listeners[k.conn] = k.pac
                 THEN harmed \ {<<k.pac, k.team>>} ELSE harmed
    /\ Ends(k)
    /\ UNCHANGED <<listeners, byUser, byTeam, locked, host>>

\* removeListenerFromTeam: GetListenersByTeam under the read lock ...
ReadTeam(k) ==
    /\ \/ k.pc = "read" /\ Goes(k, [k EXCEPT !.list = byTeam[k.team], !.pc = "write"])
       \/ /\ k.pc = "each"
          /\ \E t \in k.teams : Goes(k, [k EXCEPT !.list = byTeam[t], !.team = t, !.pc = "write",
                                                  !.teams = @ \ {t}])
    /\ UNCHANGED <<pacs, listeners, byUser, byTeam, locked, harmed, host>>

\* ... and what is left of it written back under the lock: what others appended
\* or removed in between is undone, and that is noted in harmed.
WriteTeam(k) ==
    /\ k.pc = "write"
    /\ LET c == pacs[k.pac].conn
           new == Without(k.list, c)
           due == Without(byTeam[k.team], c) IN
       /\ byTeam' = [byTeam EXCEPT ![k.team] = new]
       /\ harmed' = harmed \cup (((new \ due) \cup (due \ new)) \X {k.team})
    /\ Goes(k, [k EXCEPT !.list = {}, !.pc = "drop"])
    /\ UNCHANGED <<pacs, listeners, byUser, locked, host>>

DropTeam(k) ==
    /\ k.pc = "drop"
    /\ pacs' = [pacs EXCEPT ![k.pac].teams = @ \ {k.team}]
    /\ harmed' = IF k.pac \notin byTeam[k.team] /\ listeners[k.conn] = k.pac /\ k.op # "connect"
                 THEN harmed \ {<<k.pac, k.team>>} ELSE harmed
    /\ IF k.op = "connect" THEN Goes(k, [k EXCEPT !.team = "none", !.pc = "each"]) ELSE Ends(k)
    /\ UNCHANGED <<listeners, byUser, byTeam, locked, host>>

Step(k) ==
    \/ Look(k) \/ Register(k) \/ Revive(k) \/ Mark(k) \/ Others(k) \/ Stale(k)
    \/ Expiry(k) \/ TakeOut(k) \/ Forget(k) \/ Known(k) \/ AppendToTeam(k) \/ NoteTeam(k)
    \/ ReadTeam(k) \/ WriteTeam(k) \/ DropTeam(k)

Next ==
    \/ \E c \in Conns : Open(c) \/ Close(c) \/ Post(c) \/ (\E t \in Teams : Watch(c, t))
    \/ Restart
    \/ \E p \in Numbers : Age(p)
    \/ \E k \in calls : Step(k)

Spec == Init /\ [][Next]_vars /\ WF_vars(\E k \in calls : Step(k))

-----------------------------------------------------------------------------
(* Properties.                                                                *)

\* getUserIDsForTeam: who a broadcast of a team reaches.
Audience(t) == {UserOf[pacs[p].conn] : p \in {q \in byTeam[t] : pacs[q].state = "active"}}

Quiet == calls = {} /\ \A c \in Conns : mail[c] = <<>>

Harmed(c, t) == \E p \in Records(c) : <<p, t>> \in harmed

\* When no hook runs, the audience of a team is the users with an open page that
\* watches it, but for what was said before a restart and not again, and what
\* another hook has harmed.
AudienceWatches ==
    Quiet => \A t \in Teams :
        /\ \A c \in Conns : isOpen[c] /\ t \in watches[c] =>
               <<c, t>> \in unheard \/ Harmed(c, t) \/ UserOf[c] \in Audience(t)
        /\ \A p \in byTeam[t] : pacs[p].state = "active" =>
               \/ <<p, t>> \in harmed
               \/ isOpen[pacs[p].conn] /\ t \in watches[pacs[p].conn]

\* The map, the lists by user and the lists by team are of one mind: a record
\* outside the map is in no list, and a connection has no second record, as when
\* its connect hook comes late (plugin_adapter_test.go: it must reuse the record
\* the message created, not add a second one).
IndexesAgree ==
    Quiet => /\ \A u \in Users : byUser[u] = {listeners[c] : c \in {d \in Conns :
                                                      UserOf[d] = u /\ listeners[d] # 0}}
             /\ \A t \in Teams : \A p \in Numbers : <<p, t>> \notin harmed =>
                    (p \in byTeam[t]) = (listeners[pacs[p].conn] = p /\ t \in pacs[p].teams)

\* A subscription that was handed over takes effect; a client that posted it
\* does not repeat it (plugin_adapter.go: dropping it strands the client).
NobodyStranded ==
    Quiet => \A c \in Conns : \A t \in watches[c] :
                 isOpen[c] /\ <<c, t>> \notin unheard => UserOf[c] \in Audience(t)

\* Every hook returns: the two locks are never waited for in a circle, nor kept.
HooksReturn == (calls # {}) ~> (calls = {})

=============================================================================
