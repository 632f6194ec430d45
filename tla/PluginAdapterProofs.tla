------------------------- MODULE PluginAdapterProofs -------------------------
(***************************************************************************)
(* Proofs about PluginAdapter, for any connections, users and teams and    *)
(* any order of hooks, one at a time of each connection (Overtakes = {}).  *)
(*                                                                         *)
(* That the map and the lists agree when no hook runs says nothing of the  *)
(* steps up to then.  The invariants say, layer by layer, what a hook has  *)
(* in hand (HooksInv), what it finds in the map when it comes back to it   *)
(* (MapsInv), how a list and a record differ while a hook is between the   *)
(* two (ListsInv), and which messages are on their way that will make a    *)
(* record follow its page (WatchInv).                                      *)
(***************************************************************************)
EXTENDS PluginAdapter, FiniteSetTheorems, SequenceTheorems, TLAPS

-----------------------------------------------------------------------------
(* The hooks: one at a time of a connection.                               *)

Messages == {"subscribe", "unsubscribe"}

\* Where a hook can be.
Places(op) ==
    CASE op = "connect" -> {"look", "register", "revive", "others", "stale", "expiry",
                            "remove", "each", "write", "drop"}
      [] op = "disconnect" -> {"look", "mark"}
      [] op = "subscribe" -> {"look", "register", "known", "append", "note"}
      [] op = "unsubscribe" -> {"look", "register", "known", "read", "write", "drop"}

\* The hook goes on with the record it has found under its connection.
Own(k) ==
    \/ k.op \in Messages /\ k.pc \notin {"look", "register"}
    \/ k.pc \in {"revive", "mark"}

\* The hook is in removeListener, which it does under the lock.
Removes(k) == k.op = "connect" /\ k.pc \in {"each", "write", "drop"}

OneCall == \A k1, k2 \in calls : k1.conn = k2.conn => k1 = k2

Shapes ==
    \A k \in calls :
      /\ k.pc \in Places(k.op)
      /\ k.pc \notin {"look", "register"} => k.pac \in Numbers
      /\ k.op \in Messages \/ k.pc \in {"write", "drop"} => k.team \in Teams
      /\ isOpen[k.conn] <=> k.op # "disconnect"

Closed == \A c \in Conns : ~isOpen[c] => mail[c] = <<>>

Lock ==
    /\ locked <=> \E k \in calls : Removes(k)
    /\ \A k1, k2 \in calls : Removes(k1) /\ Removes(k2) => k1 = k2

HooksInv == TypeOK /\ OneCall /\ Shapes /\ Closed /\ Lock

-----------------------------------------------------------------------------
(* The map and the lists by user.                                          *)

MapInv == \A c \in Conns : listeners[c] # 0 => pacs[listeners[c]].conn = c

UsersInv ==
    \A u \in Users :
      byUser[u] = {listeners[c] : c \in {d \in Conns : UserOf[d] = u /\ listeners[d] # 0}}

\* A hook that goes on with the record of its connection finds it in the map
\* later, or nothing: whoever registers another one is a hook of the connection.
OwnInv ==
    \A k \in calls :
      /\ Own(k) => pacs[k.pac].conn = k.conn /\ listeners[k.conn] \in {0, k.pac}
      /\ k.pc = "register" => listeners[k.conn] = 0

\* The record of c counts as active.
Expected(c) ==
    /\ \A k \in calls : k.conn = c => k.pc \notin {"revive"} /\ ~(k.op = "connect" /\ k.pc = "look")
    /\ isOpen[c] \/ \E k \in calls : k.conn = c

ActiveInv ==
    /\ \A c \in Conns : listeners[c] # 0 =>
         (pacs[listeners[c]].state = "active" <=> Expected(c))
    /\ \A k \in calls : k.op \in Messages /\ Own(k) => pacs[k.pac].state = "active"
    /\ \A p \in Numbers : listeners[pacs[p].conn] # p /\ pacs[p].state = "active" =>
         \A t \in Teams : <<p, t>> \in harmed

MapsInv == HooksInv /\ MapInv /\ UsersInv /\ OwnInv /\ ActiveInv

-----------------------------------------------------------------------------
(* The lists by team.                                                      *)

\* What a removal under way will do harm to when it ends.
Doomed(c) ==
    /\ listeners[c] # 0
    /\ \E k \in calls :
         /\ Removes(k) /\ pacs[k.pac].conn = c
         /\ \/ k.pac # listeners[c]
            \/ /\ pacs[listeners[c]].state = "active"
               /\ \A m \in calls : m.pc = "mark" => m.conn # c

Noting(p, t) == \E k \in calls : k.pc = "note" /\ k.pac = p /\ k.team = t
Dropping(p, t) == \E k \in calls : k.pc = "drop" /\ k.pac = p /\ k.team = t

\* The list and the record agree, or a hook is about to bring the record after
\* the list.
Agrees(p, t) ==
    /\ Noting(p, t) => p \in byTeam[t]
    /\ Dropping(p, t) => p \notin byTeam[t]
    /\ ~Noting(p, t) /\ ~Dropping(p, t) => (p \in byTeam[t] <=> t \in pacs[p].teams)

ListedInv ==
    \A c \in Conns : listeners[c] # 0 =>
      \A t \in Teams : Doomed(c) \/ <<listeners[c], t>> \in harmed \/ Agrees(listeners[c], t)

UnlistedInv ==
    \A p \in Numbers : listeners[pacs[p].conn] # p =>
      \A t \in Teams : p \in byTeam[t] => <<p, t>> \in harmed

\* A removal has still to go through the teams of the record.
Remaining(k) == k.teams \cup (IF k.pc = "each" THEN {} ELSE {k.team})

RemovalInv ==
    \A k \in calls, c \in Conns :
      Removes(k) /\ pacs[k.pac].conn = c /\ listeners[c] # 0 /\ ~Doomed(c) =>
        pacs[k.pac].teams \subseteq Remaining(k)

ListsInv == MapsInv /\ ListedInv /\ UnlistedInv /\ RemovalInv

-----------------------------------------------------------------------------
(* What the pages watch.                                                   *)

Spoken(c, t) == \E k \in calls : k.conn = c /\ k.op \in Messages /\ k.team = t
Written(c, t) == \E i \in 1..Len(mail[c]) : mail[c][i][2] = t
Pending(c, t) == Spoken(c, t) \/ Written(c, t)

SaidLast(c, t, i) ==
    mail[c][i][2] = t /\ \A j \in 1..Len(mail[c]) : j > i => mail[c][j][2] # t

\* What is said last of a team is so.
SaidInv ==
    \A c \in Conns, t \in Teams :
      /\ Written(c, t) =>
           \E i \in 1..Len(mail[c]) :
             SaidLast(c, t, i) /\ (mail[c][i][1] = "subscribe" <=> t \in watches[c])
      /\ \A k \in calls : k.conn = c /\ k.op \in Messages /\ k.team = t /\ ~Written(c, t)
             => (k.op = "subscribe" <=> t \in watches[c])

\* A connection that has just opened says all again.
AgainInv ==
    \A k \in calls : k.op = "connect" => \A t \in watches[k.conn] : Written(k.conn, t)

SpeechInv == SaidInv /\ AgainInv

\* What the record of a connection has, a page watches.
HasInv ==
    \A c \in Conns : listeners[c] # 0 =>
      \A t \in pacs[listeners[c]].teams :
        Pending(c, t) \/ t \in watches[c] \/ <<listeners[c], t>> \in harmed

Removed(c) == listeners[c] # 0 /\ \E k \in calls : Removes(k) /\ pacs[k.pac].conn = c

\* What a page watches, the record of its connection has.
WatchedInv ==
    \A c \in Conns : isOpen[c] =>
      \A t \in watches[c] :
        \/ Pending(c, t) \/ <<c, t>> \in unheard \/ Harmed(c, t) \/ Removed(c)
        \/ listeners[c] # 0 /\ t \in pacs[listeners[c]].teams

WatchInv == ListsInv /\ SpeechInv /\ HasInv /\ WatchedInv

-----------------------------------------------------------------------------
(* Records and their fields.                                               *)

LEMMA ClientChanged ==
    ASSUME NEW s \in Seq(Client), NEW p \in DOMAIN s, NEW x \in Client
    PROVE  LET new == [s EXCEPT ![p] = x]
           IN  /\ new \in Seq(Client) /\ DOMAIN new = DOMAIN s
               /\ Len(new) = Len(s) /\ new[p] = x
               /\ \A q \in DOMAIN s : q # p => new[q] = s[q]
<1>1. DOMAIN s = 1..Len(s) /\ Len(s) \in Nat
  OBVIOUS
<1> QED BY <1>1, ExceptSeq

\* A hook whose step leaves it running keeps one hook per connection.
LEMMA GoesOne ==
    ASSUME OneCall, NEW k \in calls, NEW k2, k2.conn = k.conn, Goes(k, k2)
    PROVE  OneCall'
BY DEF OneCall, Goes

LEMMA EndsOne ==
    ASSUME OneCall, NEW k \in calls, Ends(k)
    PROVE  OneCall'
BY DEF OneCall, Ends

\* The same of the lock, by a step that is no step of a removal.
LEMMA GoesLock ==
    ASSUME Lock, NEW k \in calls, NEW k2, Goes(k, k2), UNCHANGED locked,
           Removes(k) <=> Removes(k2)
    PROVE  Lock'
BY DEF Lock, Goes, Removes

LEMMA EndsLock ==
    ASSUME Lock, NEW k \in calls, Ends(k), UNCHANGED locked, ~Removes(k)
    PROVE  Lock'
BY DEF Lock, Ends, Removes

-----------------------------------------------------------------------------
(* What a hook has in hand.                                                *)

CallsInv == calls \subseteq Hook /\ OneCall /\ Shapes /\ Closed /\ Lock

\* A hook may be where it is.
Fits(k) ==
    /\ k.pc \in Places(k.op)
    /\ k.pc \notin {"look", "register"} => k.pac \in Numbers
    /\ k.op \in Messages \/ k.pc \in {"write", "drop"} => k.team \in Teams

LEMMA FitsInv ==
    ASSUME HooksInv, NEW k \in calls
    PROVE  Fits(k) /\ k \in Hook
BY DEF HooksInv, Shapes, Fits, TypeOK

LEMMA HookGoes ==
    ASSUME HooksInv, NEW k \in calls, NEW k2, Goes(k, k2), k2 \in Hook, Fits(k2),
           k2.conn = k.conn, k2.op = k.op, Removes(k) <=> Removes(k2),
           UNCHANGED <<locked, host>>, Numbers \subseteq Numbers'
    PROVE  CallsInv'
<1>1. OneCall' /\ Lock'
  BY GoesOne, GoesLock DEF HooksInv
<1>2. k2 \in Hook' /\ \A m \in calls : m \in Hook'
  BY DEF HooksInv, TypeOK, Hook
<1>3. calls' \subseteq Hook'
  BY <1>2 DEF Goes
<1>4. Closed'
  BY DEF HooksInv, Closed, host
<1>5. \A m \in calls' : m = k2 \/ m \in calls
  BY DEF Goes
<1>6. Shapes'
  <2> SUFFICES ASSUME NEW m \in calls'
               PROVE  /\ m.pc \in Places(m.op)
                      /\ m.pc \notin {"look", "register"} => m.pac \in Numbers'
                      /\ m.op \in Messages \/ m.pc \in {"write", "drop"} => m.team \in Teams
                      /\ isOpen'[m.conn] <=> m.op # "disconnect"
      BY DEF Shapes
  <2>1. CASE m = k2
    BY <2>1 DEF Fits, host, HooksInv, Shapes
  <2>2. CASE m \in calls
    BY <2>2 DEF host, HooksInv, Shapes
  <2> QED BY <1>5, <2>1, <2>2
<1> QED BY <1>1, <1>3, <1>4, <1>6 DEF CallsInv

LEMMA HookEnds ==
    ASSUME HooksInv, NEW k \in calls, Ends(k), ~Removes(k),
           UNCHANGED <<locked, host>>, Numbers \subseteq Numbers'
    PROVE  CallsInv'
<1>1. OneCall' /\ Lock'
  BY EndsOne, EndsLock DEF HooksInv
<1>2. \A m \in calls : m \in Hook'
  BY DEF HooksInv, TypeOK, Hook
<1>3. calls' \subseteq Hook'
  BY <1>2 DEF Ends
<1>4. Closed'
  BY DEF HooksInv, Closed, host
<1>5. Shapes'
  BY DEF Ends, host, HooksInv, Shapes
<1> QED BY <1>1, <1>3, <1>4, <1>5 DEF CallsInv

LEMMA LookKeepsHooks ==
    ASSUME HooksInv, NEW k \in calls, Look(k)
    PROVE  HooksInv'
<1>1. Fits(k) /\ k \in Hook
  BY FitsInv
<1>2. /\ UNCHANGED <<pacs, listeners, byUser, byTeam, locked, harmed, host>>
      /\ Numbers' = Numbers
  BY DEF Look, Numbers
<1>3. CASE listeners[k.conn] = 0 /\ k.op = "disconnect"
  <2>1. Ends(k) /\ ~Removes(k)
    BY <1>3 DEF Look, Removes
  <2>2. CallsInv'
    BY <1>2, <2>1, HookEnds
  <2> QED BY <1>2, <2>2 DEF CallsInv, HooksInv, TypeOK, host
<1>4. CASE listeners[k.conn] = 0 /\ k.op # "disconnect"
  <2> DEFINE k2 == [k EXCEPT !.pc = "register"]
  <2>1. Goes(k, k2) /\ k.pc = "look"
    BY <1>4 DEF Look
  <2>2. k2 \in Hook /\ k2.conn = k.conn /\ k2.op = k.op /\ k2.team = k.team /\ k2.pc = "register"
    BY <1>1 DEF Hook, Pcs
  <2> HIDE DEF k2
  <2>3. Fits(k2) /\ ~Removes(k) /\ ~Removes(k2)
    BY <1>1, <1>4, <2>1, <2>2 DEF Fits, Places, Removes, Hook, Ops
  <2>4. CallsInv'
    BY <1>2, <2>1, <2>2, <2>3, HookGoes
  <2> QED BY <1>2, <2>4 DEF CallsInv, HooksInv, TypeOK, host
<1>5. CASE listeners[k.conn] # 0
  <2> DEFINE k2 == [k EXCEPT !.pac = listeners[k.conn], !.pc = Branch(k.op)]
  <2>1. Goes(k, k2) /\ k.pc = "look"
    BY <1>5 DEF Look
  <2>2. listeners[k.conn] \in Numbers /\ Branch(k.op) \in {"revive", "mark", "known"}
    BY <1>1, <1>5 DEF HooksInv, TypeOK, Hook, Branch
  <2>3. /\ k2 \in Hook /\ k2.conn = k.conn /\ k2.op = k.op /\ k2.team = k.team
        /\ k2.pc = Branch(k.op) /\ k2.pac = listeners[k.conn]
    BY <1>1, <2>2 DEF Hook, Pcs
  <2> HIDE DEF k2
  <2>4. Fits(k2) /\ ~Removes(k) /\ ~Removes(k2)
    BY <1>1, <2>1, <2>2, <2>3 DEF Fits, Places, Removes, Hook, Ops, Branch
  <2>5. CallsInv'
    BY <1>2, <2>1, <2>3, <2>4, HookGoes
  <2> QED BY <1>2, <2>5 DEF CallsInv, HooksInv, TypeOK, host
<1> QED BY <1>3, <1>4, <1>5

\* A step of a hook that leaves all but itself alone.
LEMMA OnlyHooks ==
    ASSUME HooksInv, CallsInv',
           UNCHANGED <<pacs, listeners, byUser, byTeam, locked, harmed, host>>
    PROVE  HooksInv'
BY DEF CallsInv, HooksInv, TypeOK, Numbers, host

LEMMA RegisterKeepsHooks ==
    ASSUME HooksInv, NEW k \in calls, Register(k)
    PROVE  HooksInv'
<1> DEFINE p == Len(pacs) + 1
           new == [conn |-> k.conn, state |-> "active", teams |-> {}]
           k2 == [k EXCEPT !.pac = p, !.pc = IF k.op = "connect" THEN "others" ELSE "known"]
<1>1. Fits(k) /\ k \in Hook /\ k.pc = "register"
  BY FitsInv DEF Register
<1>2. new \in Client /\ pacs \in Seq(Client)
  BY <1>1 DEF Client, Hook, HooksInv, TypeOK
<1>3. /\ pacs' = Append(pacs, new) /\ Goes(k, k2)
      /\ listeners' = [listeners EXCEPT ![k.conn] = p]
      /\ byUser' = [byUser EXCEPT ![UserOf[k.conn]] = @ \cup {p}]
      /\ UNCHANGED <<byTeam, locked, harmed, host>>
  BY DEF Register
<1>4. pacs' \in Seq(Client) /\ p \in Numbers' /\ Numbers \subseteq Numbers'
  BY <1>2, <1>3 DEF Numbers
<1>5. /\ k2.conn = k.conn /\ k2.op = k.op /\ k2.team = k.team /\ k2.pac = p
      /\ k2.pc = (IF k.op = "connect" THEN "others" ELSE "known")
      /\ k2 \in Hook'
  BY <1>1, <1>4 DEF Hook, Pcs
<1> HIDE DEF k2, p, new
<1>6. ~Removes(k) /\ ~Removes(k2)
  BY <1>1, <1>5 DEF Removes
<1>7. OneCall' /\ Lock'
  BY <1>3, <1>5, <1>6, GoesOne, GoesLock DEF HooksInv
<1>8. calls' \subseteq Hook'
  BY <1>3, <1>4, <1>5 DEF Goes, HooksInv, TypeOK, Hook
<1>9. Shapes'
  <2> SUFFICES ASSUME NEW m \in calls'
               PROVE  /\ m.pc \in Places(m.op)
                      /\ m.pc \notin {"look", "register"} => m.pac \in Numbers'
                      /\ m.op \in Messages \/ m.pc \in {"write", "drop"} => m.team \in Teams
                      /\ isOpen'[m.conn] <=> m.op # "disconnect"
      BY DEF Shapes
  <2>1. CASE m = k2
    <3>1. m.pc \in Places(m.op)
      BY <1>1, <1>5, <2>1 DEF Fits, Places, Hook, Ops
    <3> QED BY <1>1, <1>3, <1>4, <1>5, <2>1, <3>1 DEF Fits, host, HooksInv, Shapes
  <2>2. CASE m \in calls
    BY <1>3, <1>4, <2>2 DEF host, HooksInv, Shapes
  <2> QED BY <1>3, <2>1, <2>2 DEF Goes
<1>10. Closed'
  BY <1>3 DEF HooksInv, Closed, host
<1>11. TypeOK'
  <2>1. listeners' \in [Conns -> {0} \cup Numbers']
    BY <1>3, <1>4 DEF HooksInv, TypeOK
  <2>2. byUser' \in [Users -> SUBSET Numbers'] /\ byTeam' \in [Teams -> SUBSET Numbers']
    BY <1>3, <1>4 DEF HooksInv, TypeOK
  <2> QED BY <1>3, <1>4, <1>8, <2>1, <2>2 DEF HooksInv, TypeOK, host
<1> QED BY <1>7, <1>9, <1>10, <1>11 DEF HooksInv

\* A record changes in one of its fields.
LEMMA StateChanges ==
    ASSUME HooksInv, NEW p \in Numbers, NEW x \in {"active", "inactive", "expired"},
           pacs' = [pacs EXCEPT ![p].state = x]
    PROVE  /\ pacs' \in Seq(Client) /\ Numbers' = Numbers
           /\ \A q \in Numbers :
                /\ pacs'[q].conn = pacs[q].conn /\ pacs'[q].teams = pacs[q].teams
                /\ pacs'[q].state = (IF q = p THEN x ELSE pacs[q].state)
<1> DEFINE new == [pacs[p] EXCEPT !.state = x]
<1>1. pacs \in Seq(Client) /\ pacs[p] \in Client /\ p \in DOMAIN pacs
  BY DEF HooksInv, TypeOK, Numbers
<1>2. pacs' = [pacs EXCEPT ![p] = new]
  OBVIOUS
<1>3. /\ new \in Client /\ new.conn = pacs[p].conn /\ new.teams = pacs[p].teams
      /\ new.state = x
  BY <1>1 DEF Client
<1> HIDE DEF new
<1>4. /\ pacs' \in Seq(Client) /\ DOMAIN pacs' = DOMAIN pacs /\ pacs'[p] = new
      /\ \A q \in DOMAIN pacs : q # p => pacs'[q] = pacs[q]
  BY <1>1, <1>2, <1>3, ClientChanged
<1> QED BY <1>3, <1>4 DEF Numbers

LEMMA TeamsChange ==
    ASSUME HooksInv, NEW p \in Numbers, NEW x \in SUBSET Teams,
           pacs' = [pacs EXCEPT ![p].teams = x]
    PROVE  /\ pacs' \in Seq(Client) /\ Numbers' = Numbers
           /\ \A q \in Numbers :
                /\ pacs'[q].conn = pacs[q].conn /\ pacs'[q].state = pacs[q].state
                /\ pacs'[q].teams = (IF q = p THEN x ELSE pacs[q].teams)
<1> DEFINE new == [pacs[p] EXCEPT !.teams = x]
<1>1. pacs \in Seq(Client) /\ pacs[p] \in Client /\ p \in DOMAIN pacs
  BY DEF HooksInv, TypeOK, Numbers
<1>2. pacs' = [pacs EXCEPT ![p] = new]
  OBVIOUS
<1>3. /\ new \in Client /\ new.conn = pacs[p].conn /\ new.state = pacs[p].state
      /\ new.teams = x
  BY <1>1 DEF Client
<1> HIDE DEF new
<1>4. /\ pacs' \in Seq(Client) /\ DOMAIN pacs' = DOMAIN pacs /\ pacs'[p] = new
      /\ \A q \in DOMAIN pacs : q # p => pacs'[q] = pacs[q]
  BY <1>1, <1>2, <1>3, ClientChanged
<1> QED BY <1>3, <1>4 DEF Numbers

\* A number is a record, with a connection, a state and teams.
LEMMA RecordTyped ==
    ASSUME HooksInv, NEW p \in Numbers
    PROVE  /\ pacs[p].conn \in Conns /\ pacs[p].teams \in SUBSET Teams
           /\ pacs[p].state \in {"active", "inactive", "expired"}
<1>1. pacs[p] \in Client
  BY DEF HooksInv, TypeOK, Numbers
<1> QED BY <1>1 DEF Client

LEMMA ReviveOrMarkKeepsHooks ==
    ASSUME HooksInv, NEW k \in calls, Revive(k) \/ Mark(k)
    PROVE  HooksInv'
<1>1. /\ Fits(k) /\ k \in Hook /\ k.pc \in {"revive", "mark"} /\ Ends(k)
      /\ UNCHANGED <<listeners, byUser, byTeam, locked, host>>
  BY FitsInv DEF Revive, Mark
<1>2. k.pac \in Numbers
  BY <1>1 DEF Fits
<1>3. pacs' \in Seq(Client) /\ Numbers' = Numbers
  BY <1>2, StateChanges DEF Revive, Mark
<1>4. CallsInv'
  BY <1>1, <1>3, HookEnds DEF Removes
<1>5. harmed' \subseteq Numbers \X Teams
  BY <1>2 DEF Revive, Mark, HooksInv, TypeOK
<1> QED BY <1>1, <1>3, <1>4, <1>5 DEF CallsInv, HooksInv, TypeOK, host

LEMMA OthersKeepsHooks ==
    ASSUME HooksInv, NEW k \in calls, Others(k)
    PROVE  HooksInv'
<1> DEFINE k2 == [k EXCEPT !.left = byUser[UserOf[k.conn]], !.pc = "stale"]
<1>1. /\ Fits(k) /\ k \in Hook /\ k.pc = "others" /\ Goes(k, k2) /\ Numbers' = Numbers
      /\ UNCHANGED <<pacs, listeners, byUser, byTeam, locked, harmed, host>>
  BY FitsInv DEF Others, Numbers
<1>2. byUser[UserOf[k.conn]] \in SUBSET Numbers
  BY <1>1, UserOfAssumption DEF Hook, HooksInv, TypeOK
<1>3. /\ k2 \in Hook /\ k2.conn = k.conn /\ k2.op = k.op /\ k2.team = k.team
      /\ k2.pac = k.pac /\ k2.pc = "stale"
  BY <1>1, <1>2 DEF Hook, Pcs
<1> HIDE DEF k2
<1>4. Fits(k2) /\ ~Removes(k) /\ ~Removes(k2)
  BY <1>1, <1>3 DEF Fits, Places, Removes, Hook, Ops, Messages
<1> QED BY <1>1, <1>3, <1>4, HookGoes, OnlyHooks

LEMMA StaleKeepsHooks ==
    ASSUME HooksInv, NEW k \in calls, Stale(k)
    PROVE  HooksInv'
<1>1. /\ Fits(k) /\ k \in Hook /\ k.pc = "stale" /\ Numbers' = Numbers
      /\ UNCHANGED <<pacs, listeners, byUser, byTeam, locked, harmed, host>>
  BY FitsInv DEF Stale, Numbers
<1>2. ASSUME Ends(k) PROVE HooksInv'
  BY <1>1, <1>2, HookEnds, OnlyHooks DEF Removes
<1>3. ASSUME NEW p \in k.left, NEW pc \in {"stale", "expiry"},
             Goes(k, [k EXCEPT !.left = @ \ {p}, !.pac = p, !.pc = pc])
      PROVE  HooksInv'
  <2> DEFINE k2 == [k EXCEPT !.left = @ \ {p}, !.pac = p, !.pc = pc]
  <2>1. Goes(k, k2)
    BY <1>3
  <2>2. /\ k2 \in Hook /\ k2.conn = k.conn /\ k2.op = k.op /\ k2.team = k.team
        /\ k2.pac = p /\ k2.pc = pc /\ p \in Numbers
    BY <1>1 DEF Hook, Pcs
  <2> HIDE DEF k2
  <2>3. Fits(k2) /\ ~Removes(k) /\ ~Removes(k2)
    BY <1>1, <2>2 DEF Fits, Places, Removes, Hook, Ops, Messages
  <2> QED BY <1>1, <2>1, <2>2, <2>3, HookGoes, OnlyHooks
<1> QED BY <1>2, <1>3 DEF Stale

LEMMA ExpiryKeepsHooks ==
    ASSUME HooksInv, NEW k \in calls, Expiry(k)
    PROVE  HooksInv'
<1> DEFINE pc == IF pacs[k.pac].state = "inactive" THEN "stale" ELSE "remove"
           k2 == [k EXCEPT !.pc = pc]
<1>1. /\ Fits(k) /\ k \in Hook /\ k.pc = "expiry" /\ Goes(k, k2) /\ Numbers' = Numbers
      /\ UNCHANGED <<pacs, listeners, byUser, byTeam, locked, harmed, host>>
  BY FitsInv DEF Expiry, Numbers
<1>2. pc \in {"stale", "remove"}
  OBVIOUS
<1>3. /\ k2 \in Hook /\ k2.conn = k.conn /\ k2.op = k.op /\ k2.team = k.team
      /\ k2.pac = k.pac /\ k2.pc = pc
  BY <1>1, <1>2 DEF Hook, Pcs
<1> HIDE DEF k2, pc
<1>4. Fits(k2) /\ ~Removes(k) /\ ~Removes(k2)
  BY <1>1, <1>2, <1>3 DEF Fits, Places, Removes, Hook, Ops, Messages
<1> QED BY <1>1, <1>3, <1>4, HookGoes, OnlyHooks

LEMMA TakeOutKeepsHooks ==
    ASSUME HooksInv, NEW k \in calls, TakeOut(k)
    PROVE  HooksInv'
<1> DEFINE k2 == [k EXCEPT !.teams = pacs[k.pac].teams, !.pc = "each"]
<1>1. /\ Fits(k) /\ k \in Hook /\ k.pc = "remove" /\ Goes(k, k2) /\ ~locked /\ locked'
      /\ UNCHANGED <<pacs, listeners, byUser, byTeam, harmed, host>> /\ Numbers' = Numbers
  BY FitsInv DEF TakeOut, Numbers
<1>2. k.pac \in Numbers /\ k.op = "connect"
  BY <1>1 DEF Fits, Places, Hook, Ops
<1>3. pacs[k.pac].teams \in SUBSET Teams
  BY <1>2, RecordTyped
<1>4. /\ k2 \in Hook /\ k2.conn = k.conn /\ k2.op = k.op /\ k2.team = k.team
      /\ k2.pac = k.pac /\ k2.pc = "each"
  BY <1>1, <1>3 DEF Hook, Pcs
<1> HIDE DEF k2
<1>5. OneCall'
  BY <1>1, <1>4, GoesOne DEF HooksInv
<1>6. Lock'
  <2>1. \A m \in calls : ~Removes(m)
    BY <1>1 DEF HooksInv, Lock
  <2>2. Removes(k2) /\ k2 \in calls'
    BY <1>1, <1>2, <1>4 DEF Removes, Goes
  <2> QED BY <1>1, <2>1, <2>2 DEF Lock, Goes, Removes
<1>7. Shapes' /\ Closed'
  BY <1>1, <1>2, <1>4 DEF HooksInv, Shapes, Closed, Goes, host, Places, Messages
<1>8. TypeOK'
  BY <1>1, <1>4 DEF HooksInv, TypeOK, Goes, host, Hook
<1> QED BY <1>5, <1>6, <1>7, <1>8 DEF HooksInv

LEMMA ForgetKeepsHooks ==
    ASSUME HooksInv, NEW k \in calls, Forget(k)
    PROVE  HooksInv'
<1> DEFINE k2 == [k EXCEPT !.pc = "stale"]
           c == pacs[k.pac].conn
<1>1. /\ Fits(k) /\ k \in Hook /\ k.pc = "each" /\ Goes(k, k2) /\ locked' = FALSE
      /\ UNCHANGED <<pacs, byTeam, host>> /\ Numbers' = Numbers
      /\ listeners' = [listeners EXCEPT ![c] = 0]
      /\ byUser' = [byUser EXCEPT ![UserOf[c]] = Without(@, c)]
  BY FitsInv DEF Forget, Unlisted, Numbers
<1>2. k.pac \in Numbers /\ k.op = "connect" /\ Removes(k)
  BY <1>1 DEF Fits, Places, Hook, Ops, Removes
<1>3. /\ k2 \in Hook /\ k2.conn = k.conn /\ k2.op = k.op /\ k2.team = k.team
      /\ k2.pac = k.pac /\ k2.pc = "stale"
  BY <1>1 DEF Hook, Pcs
<1>4. c \in Conns /\ UserOf[c] \in Users
  BY <1>2, RecordTyped, UserOfAssumption
<1> HIDE DEF k2, c
<1>5. OneCall'
  BY <1>1, <1>3, GoesOne DEF HooksInv
<1>6. Lock'
  <2>1. \A m \in calls : Removes(m) => m = k
    BY <1>2 DEF HooksInv, Lock
  <2>2. ~Removes(k2)
    BY <1>3 DEF Removes
  <2>3. \A m \in calls' : ~Removes(m)
    BY <1>1, <2>1, <2>2 DEF Goes, Removes
  <2> QED BY <1>1, <2>3 DEF Lock, Removes
<1>7. Shapes' /\ Closed'
  BY <1>1, <1>2, <1>3 DEF HooksInv, Shapes, Closed, Goes, host, Places, Messages
<1>8. TypeOK'
  <2>1. listeners' \in [Conns -> {0} \cup Numbers'] /\ byUser' \in [Users -> SUBSET Numbers']
    BY <1>1, <1>4 DEF HooksInv, TypeOK, Without
  <2>2. harmed' \subseteq Numbers' \X Teams
    <3>1. listeners[c] # 0 => listeners[c] \in Numbers
      BY <1>4 DEF HooksInv, TypeOK
    <3>2. harmed' = harmed \/ (listeners[c] # 0 /\ harmed' = harmed \cup ({listeners[c]} \X Teams))
      BY DEF Forget, Unlisted, c
    <3> QED BY <1>1, <3>1, <3>2 DEF HooksInv, TypeOK
  <2>3. calls' \subseteq Hook' /\ pacs' \in Seq(Client) /\ byTeam' \in [Teams -> SUBSET Numbers']
    BY <1>1, <1>3 DEF HooksInv, TypeOK, Goes, Hook
  <2> QED BY <1>1, <2>1, <2>2, <2>3 DEF HooksInv, TypeOK, host
<1> QED BY <1>5, <1>6, <1>7, <1>8 DEF HooksInv

LEMMA KnownKeepsHooks ==
    ASSUME HooksInv, NEW k \in calls, Known(k)
    PROVE  HooksInv'
<1> DEFINE pc == IF k.op = "subscribe" THEN "append" ELSE "read"
           k2 == [k EXCEPT !.pc = pc]
<1>1. /\ Fits(k) /\ k \in Hook /\ k.pc = "known" /\ Numbers' = Numbers
      /\ UNCHANGED <<pacs, listeners, byUser, byTeam, locked, harmed, host>>
      /\ Ends(k) \/ Goes(k, k2)
  BY FitsInv DEF Known, Numbers
<1>2. k.op \in Messages /\ pc \in {"append", "read"}
  BY <1>1 DEF Fits, Places, Hook, Ops, Messages
<1>3. /\ k2 \in Hook /\ k2.conn = k.conn /\ k2.op = k.op /\ k2.team = k.team
      /\ k2.pac = k.pac /\ k2.pc = pc
  BY <1>1 DEF Hook, Pcs
<1>4. pc \in Places(k.op)
  BY <1>2 DEF Places, Messages
<1> HIDE DEF k2, pc
<1>5. Fits(k2) /\ ~Removes(k) /\ ~Removes(k2)
  BY <1>1, <1>2, <1>3, <1>4 DEF Fits, Removes, Messages
<1>6. CASE Ends(k)
  BY <1>1, <1>5, <1>6, HookEnds, OnlyHooks
<1>7. CASE Goes(k, k2)
  BY <1>1, <1>3, <1>5, <1>7, HookGoes, OnlyHooks
<1> QED BY <1>1, <1>6, <1>7

\* Where a team is named, there is one, and a record.
LEMMA NamesTeam ==
    ASSUME HooksInv, NEW k \in calls, k.pc \in {"append", "note", "read", "write", "drop"}
    PROVE  /\ Fits(k) /\ k \in Hook /\ k.team \in Teams /\ k.pac \in Numbers
           /\ k.pc \in {"append", "note"} => k.op = "subscribe"
           /\ k.pc = "read" => k.op = "unsubscribe"
           /\ k.pc \in {"write", "drop"} => k.op \in {"connect", "unsubscribe"}
<1>1. Fits(k) /\ k \in Hook
  BY FitsInv
<1> QED BY <1>1 DEF Fits, Places, Hook, Ops, Messages

LEMMA AppendKeepsHooks ==
    ASSUME HooksInv, NEW k \in calls, AppendToTeam(k)
    PROVE  HooksInv'
<1> DEFINE k2 == [k EXCEPT !.pc = "note"]
<1>1. /\ Fits(k) /\ k \in Hook /\ k.pc = "append" /\ Goes(k, k2) /\ Numbers' = Numbers
      /\ k.op = "subscribe" /\ k.team \in Teams /\ k.pac \in Numbers
      /\ byTeam' = [byTeam EXCEPT ![k.team] = @ \cup {k.pac}]
      /\ UNCHANGED <<pacs, listeners, byUser, locked, harmed, host>>
  BY NamesTeam DEF AppendToTeam, Numbers
<1>2. /\ k2 \in Hook /\ k2.conn = k.conn /\ k2.op = k.op /\ k2.team = k.team
      /\ k2.pac = k.pac /\ k2.pc = "note"
  BY <1>1 DEF Hook, Pcs
<1> HIDE DEF k2
<1>3. Fits(k2) /\ ~Removes(k) /\ ~Removes(k2)
  BY <1>1, <1>2 DEF Fits, Places, Removes
<1>4. CallsInv'
  BY <1>1, <1>2, <1>3, HookGoes
<1>5. byTeam' \in [Teams -> SUBSET Numbers]
  BY <1>1 DEF HooksInv, TypeOK
<1> QED BY <1>1, <1>4, <1>5 DEF CallsInv, HooksInv, TypeOK, host

LEMMA NoteKeepsHooks ==
    ASSUME HooksInv, NEW k \in calls, NoteTeam(k)
    PROVE  HooksInv'
<1> DEFINE x == pacs[k.pac].teams \cup {k.team}
<1>1. /\ Fits(k) /\ k \in Hook /\ k.pc = "note" /\ Ends(k)
      /\ k.team \in Teams /\ k.pac \in Numbers
      /\ pacs' = [pacs EXCEPT ![k.pac].teams = x]
      /\ UNCHANGED <<listeners, byUser, byTeam, locked, host>>
  BY NamesTeam DEF NoteTeam
<1>2. x \in SUBSET Teams
  BY <1>1, RecordTyped
<1> HIDE DEF x
<1>3. pacs' \in Seq(Client) /\ Numbers' = Numbers
  BY <1>1, <1>2, TeamsChange
<1>4. CallsInv'
  BY <1>1, <1>3, HookEnds DEF Removes
<1>5. harmed' \subseteq Numbers \X Teams
  BY DEF NoteTeam, HooksInv, TypeOK
<1> QED BY <1>1, <1>3, <1>4, <1>5 DEF CallsInv, HooksInv, TypeOK, host

LEMMA ReadKeepsHooks ==
    ASSUME HooksInv, NEW k \in calls, ReadTeam(k)
    PROVE  HooksInv'
<1>1. /\ Fits(k) /\ k \in Hook /\ Numbers' = Numbers
      /\ UNCHANGED <<pacs, listeners, byUser, byTeam, locked, harmed, host>>
  BY FitsInv DEF ReadTeam, Numbers
<1>2. ASSUME k.pc = "read", Goes(k, [k EXCEPT !.list = byTeam[k.team], !.pc = "write"])
      PROVE  HooksInv'
  <2> DEFINE k2 == [k EXCEPT !.list = byTeam[k.team], !.pc = "write"]
  <2>1. Goes(k, k2) /\ k.op = "unsubscribe" /\ k.team \in Teams /\ k.pac \in Numbers
    BY <1>2, NamesTeam
  <2>2. byTeam[k.team] \in SUBSET Numbers
    BY <2>1 DEF HooksInv, TypeOK
  <2>3. /\ k2 \in Hook /\ k2.conn = k.conn /\ k2.op = k.op /\ k2.team = k.team
        /\ k2.pac = k.pac /\ k2.pc = "write"
    BY <1>1, <2>2 DEF Hook, Pcs
  <2> HIDE DEF k2
  <2>4. Fits(k2) /\ ~Removes(k) /\ ~Removes(k2)
    BY <2>1, <2>3 DEF Fits, Places, Removes
  <2> QED BY <1>1, <2>1, <2>3, <2>4, HookGoes, OnlyHooks
<1>3. ASSUME k.pc = "each", NEW t \in k.teams,
             Goes(k, [k EXCEPT !.list = byTeam[t], !.team = t, !.pc = "write",
                               !.teams = @ \ {t}])
      PROVE  HooksInv'
  <2> DEFINE k2 == [k EXCEPT !.list = byTeam[t], !.team = t, !.pc = "write",
                             !.teams = @ \ {t}]
  <2>1. Goes(k, k2) /\ k.op = "connect" /\ t \in Teams /\ k.pac \in Numbers
    BY <1>1, <1>3 DEF Fits, Places, Hook, Ops
  <2>2. byTeam[t] \in SUBSET Numbers
    BY <2>1 DEF HooksInv, TypeOK
  <2>3. /\ k2 \in Hook /\ k2.conn = k.conn /\ k2.op = k.op /\ k2.team = t
        /\ k2.pac = k.pac /\ k2.pc = "write"
    BY <1>1, <2>1, <2>2 DEF Hook, Pcs
  <2> HIDE DEF k2
  <2>4. Fits(k2) /\ Removes(k) /\ Removes(k2)
    BY <1>3, <2>1, <2>3 DEF Fits, Places, Removes
  <2> QED BY <1>1, <2>1, <2>3, <2>4, HookGoes, OnlyHooks
<1> QED BY <1>2, <1>3 DEF ReadTeam

LEMMA WriteKeepsHooks ==
    ASSUME HooksInv, NEW k \in calls, WriteTeam(k)
    PROVE  HooksInv'
<1> DEFINE k2 == [k EXCEPT !.list = {}, !.pc = "drop"]
           c == pacs[k.pac].conn
           new == Without(k.list, c)
           due == Without(byTeam[k.team], c)
<1>1. /\ Fits(k) /\ k \in Hook /\ k.pc = "write" /\ Goes(k, k2) /\ Numbers' = Numbers
      /\ k.op \in {"connect", "unsubscribe"} /\ k.team \in Teams /\ k.pac \in Numbers
      /\ byTeam' = [byTeam EXCEPT ![k.team] = new]
      /\ harmed' = harmed \cup (((new \ due) \cup (due \ new)) \X {k.team})
      /\ UNCHANGED <<pacs, listeners, byUser, locked, host>>
  BY NamesTeam DEF WriteTeam, Numbers
<1>2. /\ k2 \in Hook /\ k2.conn = k.conn /\ k2.op = k.op /\ k2.team = k.team
      /\ k2.pac = k.pac /\ k2.pc = "drop"
  BY <1>1 DEF Hook, Pcs
<1>3. new \in SUBSET Numbers /\ due \in SUBSET Numbers
  BY <1>1 DEF HooksInv, TypeOK, Hook, Without
<1> HIDE DEF k2, new, due
<1>4. Fits(k2) /\ (Removes(k) <=> Removes(k2))
  BY <1>1, <1>2 DEF Fits, Places, Removes
<1>5. CallsInv'
  BY <1>1, <1>2, <1>4, HookGoes
<1>6. byTeam' \in [Teams -> SUBSET Numbers] /\ harmed' \subseteq Numbers \X Teams
  BY <1>1, <1>3 DEF HooksInv, TypeOK
<1> QED BY <1>1, <1>5, <1>6 DEF CallsInv, HooksInv, TypeOK, host

LEMMA DropKeepsHooks ==
    ASSUME HooksInv, NEW k \in calls, DropTeam(k)
    PROVE  HooksInv'
<1> DEFINE x == pacs[k.pac].teams \ {k.team}
           k2 == [k EXCEPT !.team = "none", !.pc = "each"]
<1>1. /\ Fits(k) /\ k \in Hook /\ k.pc = "drop"
      /\ k.op \in {"connect", "unsubscribe"} /\ k.team \in Teams /\ k.pac \in Numbers
      /\ pacs' = [pacs EXCEPT ![k.pac].teams = x]
      /\ UNCHANGED <<listeners, byUser, byTeam, locked, host>>
  BY NamesTeam DEF DropTeam
<1>2. x \in SUBSET Teams
  BY <1>1, RecordTyped
<1>3. /\ k2 \in Hook /\ k2.conn = k.conn /\ k2.op = k.op
      /\ k2.pac = k.pac /\ k2.pc = "each"
  BY <1>1 DEF Hook, Pcs
<1> HIDE DEF x
<1>4. pacs' \in Seq(Client) /\ Numbers' = Numbers
  BY <1>1, <1>2, TeamsChange
<1>5. CallsInv'
  <2>1. CASE k.op = "connect"
    <3>1. Goes(k, k2)
      BY <2>1 DEF DropTeam
    <3> HIDE DEF k2
    <3>2. Fits(k2) /\ Removes(k) /\ Removes(k2)
      BY <1>1, <1>3, <2>1 DEF Fits, Places, Removes, Messages
    <3> QED BY <1>1, <1>3, <1>4, <3>1, <3>2, HookGoes
  <2>2. CASE k.op # "connect"
    BY <1>1, <1>4, <2>2, HookEnds DEF DropTeam, Removes
  <2> QED BY <2>1, <2>2
<1>6. harmed' \subseteq Numbers \X Teams
  BY DEF DropTeam, HooksInv, TypeOK
<1> QED BY <1>1, <1>4, <1>5, <1>6 DEF CallsInv, HooksInv, TypeOK, host

-----------------------------------------------------------------------------
(* What the host and the client do.                                        *)

\* The subscriptions of a client whose connection opens, each of them once.
Repeated(teams) == SetToSeq({<<"subscribe", t>> : t \in teams})

LEMMA RepeatedAll ==
    ASSUME NEW teams \in SUBSET Teams
    PROVE  /\ Repeated(teams) \in Seq({"subscribe", "unsubscribe"} \X Teams)
           /\ \A i \in 1..Len(Repeated(teams)) :
                /\ Repeated(teams)[i][1] = "subscribe"
                /\ Repeated(teams)[i][2] \in teams
           /\ \A t \in teams : \E i \in 1..Len(Repeated(teams)) :
                /\ Repeated(teams)[i] = <<"subscribe", t>>
                /\ \A j \in 1..Len(Repeated(teams)) : Repeated(teams)[j][2] = t => j = i
<1> DEFINE S == {<<"subscribe", t>> : t \in teams}
           f == [t \in teams |-> <<"subscribe", t>>]
<1>1. IsFiniteSet(teams)
  BY TeamsAssumption, FS_Subset
<1>2. f \in Bijection(teams, S)
  BY DEF Bijection, Injection, Surjection, IsInjective
<1>3. IsFiniteSet(S)
  BY <1>1, <1>2, FS_Bijection DEF ExistsBijection
<1> HIDE DEF f
<1>4. Cardinality(S) \in Nat /\ \E g \in [1..Cardinality(S) -> S] : IsInjective(g)
  BY <1>3, FS_CardinalityType DEF ExistsBijection, Bijection, Injection
<1> DEFINE q == Repeated(teams)
<1>5. q \in [1..Cardinality(S) -> S] /\ IsInjective(q)
  BY <1>4 DEF Repeated, SetToSeq
<1>6. q \in Surjection(1..Cardinality(S), S)
  <2>1. q \in Injection(1..Cardinality(S), S)
    BY <1>5 DEF Injection
  <2>2. Cardinality(1..Cardinality(S)) = Cardinality(S)
    BY <1>4, FS_Interval
  <2> QED BY <1>3, <2>1, <2>2, FS_Injection
<1>7. q \in Seq(S) /\ Len(q) = Cardinality(S) /\ DOMAIN q = 1..Len(q)
  <2> HIDE DEF S, q
  <2>1. ASSUME NEW n \in Nat, NEW g \in [1..n -> S] PROVE g \in Seq(S) /\ Len(g) = n
    OBVIOUS
  <2> QED BY <1>4, <1>5, <2>1
<1>8. S \subseteq {"subscribe", "unsubscribe"} \X Teams
  OBVIOUS
<1>9. q \in Seq({"subscribe", "unsubscribe"} \X Teams)
  BY <1>7, <1>8
<1>10. \A i \in 1..Len(q) : q[i] \in S
  BY <1>5, <1>7
<1>11. ASSUME NEW t \in teams
       PROVE  \E i \in 1..Len(q) : /\ q[i] = <<"subscribe", t>>
                                   /\ \A j \in 1..Len(q) : q[j][2] = t => j = i
  <2>1. PICK i \in 1..Len(q) : q[i] = <<"subscribe", t>>
    BY <1>6, <1>7 DEF Surjection
  <2>2. \A j \in 1..Len(q) : q[j][2] = t => q[j] = <<"subscribe", t>>
    BY <1>10
  <2>3. \A j \in 1..Len(q) : q[j] = q[i] => j = i
    BY <1>5, <1>7 DEF IsInjective
  <2> QED BY <2>1, <2>2, <2>3
<1> QED BY <1>9, <1>10, <1>11

\* No hook of the connection runs when the next one starts.
LEMMA NoneRuns ==
    ASSUME Overtakes = {}, NEW c \in Conns, MayStart(c)
    PROVE  \A k \in calls : k.conn # c
BY DEF MayStart

LEMMA CallStarts ==
    ASSUME NEW c \in Conns, NEW op \in Ops, NEW t \in Teams \cup {"none"}
    PROVE  LET k == Call(c, op, t)
           IN  /\ k \in Hook /\ k.conn = c /\ k.op = op /\ k.team = t /\ k.pc = "look"
               /\ ~Removes(k) /\ ~Own(k)
BY DEF Call, Hook, Pcs, Removes, Own

\* A hook starts: c is its connection, opened or closed by the step, or not.
LEMMA StartKeepsHooks ==
    ASSUME HooksInv, Overtakes = {}, NEW c \in Conns, NEW op \in Ops,
           NEW t \in Teams \cup {"none"}, MayStart(c),
           op \in Messages => t \in Teams,
           calls' = calls \cup {Call(c, op, t)},
           isOpen' = [isOpen EXCEPT ![c] = (op # "disconnect")],
           UNCHANGED <<pacs, locked>>
    PROVE  calls' \subseteq Hook' /\ OneCall' /\ Shapes' /\ Lock'
<1> DEFINE k == Call(c, op, t)
<1>1. /\ k \in Hook /\ k.conn = c /\ k.op = op /\ k.team = t /\ k.pc = "look"
      /\ ~Removes(k)
  BY CallStarts
<1>2. \A m \in calls : m.conn # c
  BY NoneRuns
<1>3. calls' = calls \cup {k}
  OBVIOUS
<1> HIDE DEF k
<1>4. calls' \subseteq Hook'
  BY <1>1, <1>3 DEF HooksInv, TypeOK, Hook, Numbers
<1>5. OneCall'
  BY <1>1, <1>2, <1>3 DEF HooksInv, OneCall
<1>6. Lock'
  BY <1>1, <1>3 DEF HooksInv, Lock, Removes
<1>7. Shapes'
  <2>1. "look" \in Places(op)
    BY DEF Places, Ops
  <2>2. Numbers' = Numbers
    BY DEF Numbers
  <2>3. \A m \in calls : isOpen'[m.conn] = isOpen[m.conn]
    BY <1>2 DEF HooksInv, TypeOK
  <2>4. isOpen'[c] <=> op # "disconnect"
    BY DEF HooksInv, TypeOK
  <2>5. ASSUME NEW m \in calls
        PROVE  /\ m.pc \in Places(m.op)
               /\ m.pc \notin {"look", "register"} => m.pac \in Numbers'
               /\ m.op \in Messages \/ m.pc \in {"write", "drop"} => m.team \in Teams
               /\ isOpen'[m.conn] <=> m.op # "disconnect"
    BY <2>2, <2>3 DEF HooksInv, Shapes
  <2>6. /\ k.pc \in Places(k.op)
        /\ k.pc \notin {"look", "register"} => k.pac \in Numbers'
        /\ k.op \in Messages \/ k.pc \in {"write", "drop"} => k.team \in Teams
        /\ isOpen'[k.conn] <=> k.op # "disconnect"
    BY <1>1, <2>1, <2>4
  <2> QED BY <1>3, <2>5, <2>6 DEF Shapes
<1> QED BY <1>4, <1>5, <1>6, <1>7

LEMMA EventCounted ==
    ASSUME HooksInv, Event
    PROVE  events' \in 0..MaxEvents
BY EventsAssumption DEF HooksInv, TypeOK, Event

LEMMA OpenKeepsHooks ==
    ASSUME HooksInv, Overtakes = {}, NEW c \in Conns, Open(c)
    PROVE  HooksInv'
<1>1. /\ ~isOpen[c] /\ MayStart(c) /\ events' \in 0..MaxEvents
      /\ isOpen' = [isOpen EXCEPT ![c] = TRUE]
      /\ calls' = calls \cup {Call(c, "connect", "none")}
      /\ mail' = [mail EXCEPT ![c] = Repeated(watches[c])]
      /\ unheard' = {ct \in unheard : ct[1] # c}
      /\ UNCHANGED <<pacs, listeners, byUser, byTeam, locked, watches, harmed>>
  BY EventCounted DEF Open, Repeated
<1>2. calls' \subseteq Hook' /\ OneCall' /\ Shapes' /\ Lock'
  BY <1>1, StartKeepsHooks DEF Ops, Messages
<1>3. watches[c] \in SUBSET Teams
  BY DEF HooksInv, TypeOK
<1>4. /\ mail' \in [Conns -> Seq({"subscribe", "unsubscribe"} \X Teams)]
      /\ isOpen' \in [Conns -> BOOLEAN]
  BY <1>1, <1>3, RepeatedAll DEF HooksInv, TypeOK
<1>5. Closed'
  BY <1>1 DEF HooksInv, TypeOK, Closed
<1> QED BY <1>1, <1>2, <1>4, <1>5 DEF HooksInv, TypeOK, Numbers

LEMMA CloseKeepsHooks ==
    ASSUME HooksInv, Overtakes = {}, NEW c \in Conns, Close(c)
    PROVE  HooksInv'
<1>1. /\ isOpen[c] /\ MayStart(c) /\ events' \in 0..MaxEvents
      /\ isOpen' = [isOpen EXCEPT ![c] = FALSE]
      /\ calls' = calls \cup {Call(c, "disconnect", "none")}
      /\ mail' = [mail EXCEPT ![c] = <<>>]
      /\ UNCHANGED <<pacs, listeners, byUser, byTeam, locked, watches, unheard>>
  BY EventCounted DEF Close
<1>2. calls' \subseteq Hook' /\ OneCall' /\ Shapes' /\ Lock'
  BY <1>1, StartKeepsHooks DEF Ops, Messages
<1>3. /\ mail' \in [Conns -> Seq({"subscribe", "unsubscribe"} \X Teams)]
      /\ isOpen' \in [Conns -> BOOLEAN]
  BY <1>1 DEF HooksInv, TypeOK
<1>4. Closed'
  BY <1>1 DEF HooksInv, TypeOK, Closed
<1>5. harmed' \subseteq Numbers \X Teams
  BY DEF Close, HooksInv, TypeOK, Records
<1> QED BY <1>1, <1>2, <1>3, <1>4, <1>5 DEF HooksInv, TypeOK, Numbers

LEMMA WatchKeepsHooks ==
    ASSUME HooksInv, NEW c \in Conns, NEW t \in Teams, Watch(c, t)
    PROVE  HooksInv'
<1>1. /\ events' \in 0..MaxEvents
      /\ UNCHANGED <<pacs, listeners, byUser, byTeam, calls, locked, isOpen>>
  BY EventCounted DEF Watch
<1>2. watches' \in [Conns -> SUBSET Teams] /\ unheard' \subseteq Conns \X Teams
  BY DEF Watch, HooksInv, TypeOK
<1>3. mail' \in [Conns -> Seq({"subscribe", "unsubscribe"} \X Teams)]
  BY DEF Watch, HooksInv, TypeOK
<1>4. harmed' \subseteq Numbers \X Teams
  BY DEF Watch, HooksInv, TypeOK, Records
<1>5. Closed'
  BY DEF Watch, HooksInv, TypeOK, Closed
<1>6. OneCall' /\ Shapes' /\ Lock'
  BY <1>1 DEF HooksInv, OneCall, Shapes, Lock, Numbers
<1> QED BY <1>1, <1>2, <1>3, <1>4, <1>5, <1>6 DEF HooksInv, TypeOK, Hook, Numbers

LEMMA PostKeepsHooks ==
    ASSUME HooksInv, Overtakes = {}, NEW c \in Conns, Post(c)
    PROVE  HooksInv'
<1> DEFINE op == Head(mail[c])[1]
           t == Head(mail[c])[2]
<1>1. /\ mail[c] # <<>> /\ MayStart(c)
      /\ calls' = calls \cup {Call(c, op, t)}
      /\ mail' = [mail EXCEPT ![c] = Tail(@)]
      /\ UNCHANGED <<pacs, listeners, byUser, byTeam, locked, isOpen, watches, unheard, harmed, events>>
  BY DEF Post
<1>2. mail[c] \in Seq({"subscribe", "unsubscribe"} \X Teams) /\ mail \in [Conns -> Seq({"subscribe", "unsubscribe"} \X Teams)]
  BY DEF HooksInv, TypeOK
<1>3. Head(mail[c]) \in {"subscribe", "unsubscribe"} \X Teams
  BY <1>1, <1>2
<1>4. op \in Messages /\ t \in Teams
  BY <1>3 DEF Messages
<1>5. isOpen[c] /\ isOpen \in [Conns -> BOOLEAN]
  BY <1>1 DEF HooksInv, TypeOK, Closed
<1> HIDE DEF op, t
<1>6. op \in Ops /\ op # "disconnect"
  BY <1>4 DEF Messages, Ops
<1>7. isOpen' = [isOpen EXCEPT ![c] = (op # "disconnect")]
  BY <1>1, <1>5, <1>6
<1>8. calls' \subseteq Hook' /\ OneCall' /\ Shapes' /\ Lock'
  BY <1>1, <1>4, <1>6, <1>7, StartKeepsHooks
<1>9. mail' \in [Conns -> Seq({"subscribe", "unsubscribe"} \X Teams)]
  <2>1. Tail(mail[c]) \in Seq({"subscribe", "unsubscribe"} \X Teams)
    BY <1>1, <1>2
  <2> QED BY <1>1, <1>2, <2>1
<1>10. Closed'
  BY <1>1, <1>2, <1>5 DEF HooksInv, Closed
<1> QED BY <1>1, <1>8, <1>9, <1>10 DEF HooksInv, TypeOK, Numbers

LEMMA RestartKeepsHooks ==
    ASSUME HooksInv, Restart
    PROVE  HooksInv'
<1>1. /\ events' \in 0..MaxEvents /\ pacs' = <<>> /\ harmed' = {}
      /\ listeners' = [c \in Conns |-> 0]
      /\ byUser' = [u \in Users |-> {}] /\ byTeam' = [t \in Teams |-> {}]
      /\ calls' = {} /\ locked' = FALSE /\ mail' = [c \in Conns |-> <<>>]
      /\ unheard' = {ct \in Conns \X Teams : isOpen[ct[1]] /\ ct[2] \in watches[ct[1]]}
      /\ UNCHANGED <<isOpen, watches>>
  BY EventCounted DEF Restart
<1>2. Numbers' = {} /\ pacs' \in Seq(Client)
  BY <1>1 DEF Numbers
<1>3. <<>> \in Seq({"subscribe", "unsubscribe"} \X Teams)
  OBVIOUS
<1>4. TypeOK'
  BY <1>1, <1>2, <1>3 DEF HooksInv, TypeOK
<1> QED BY <1>1, <1>4 DEF HooksInv, OneCall, Shapes, Closed, Lock

LEMMA AgeKeepsHooks ==
    ASSUME HooksInv, NEW p \in Numbers, Age(p)
    PROVE  HooksInv'
<1>1. UNCHANGED <<listeners, byUser, byTeam, calls, locked, harmed, host>>
  BY DEF Age
<1>2. pacs' \in Seq(Client) /\ Numbers' = Numbers
  BY StateChanges DEF Age
<1> QED BY <1>1, <1>2 DEF HooksInv, TypeOK, OneCall, Shapes, Closed, Lock, Hook, host

LEMMA StutterKeepsHooks ==
    ASSUME HooksInv, UNCHANGED vars
    PROVE  HooksInv'
BY DEF HooksInv, TypeOK, OneCall, Shapes, Closed, Lock, Hook, Numbers, vars, hooks, host

LEMMA InitHooks == Init => HooksInv
<1> SUFFICES ASSUME Init PROVE HooksInv
    OBVIOUS
<1>1. Numbers = {} /\ pacs \in Seq(Client)
  BY DEF Init, Numbers
<1>2. <<>> \in Seq({"subscribe", "unsubscribe"} \X Teams)
  OBVIOUS
<1>3. TypeOK
  <2>1. events \in 0..MaxEvents
    BY EventsAssumption DEF Init
  <2>2. mail \in [Conns -> Seq({"subscribe", "unsubscribe"} \X Teams)]
    BY <1>2 DEF Init
  <2>3. /\ listeners \in [Conns -> {0} \cup Numbers] /\ isOpen \in [Conns -> BOOLEAN]
        /\ watches \in [Conns -> SUBSET Teams]
    BY DEF Init
  <2>4. byUser \in [Users -> SUBSET Numbers] /\ byTeam \in [Teams -> SUBSET Numbers]
    BY DEF Init
  <2> QED BY <1>1, <2>1, <2>2, <2>3, <2>4 DEF Init, TypeOK
<1> QED BY <1>3 DEF Init, HooksInv, OneCall, Shapes, Closed, Lock

LEMMA StepKeepsHooks ==
    ASSUME HooksInv, Overtakes = {}, [Next]_vars
    PROVE  HooksInv'
<1>1. ASSUME NEW k \in calls, Step(k) PROVE HooksInv'
  BY <1>1, LookKeepsHooks, RegisterKeepsHooks, ReviveOrMarkKeepsHooks, OthersKeepsHooks,
     StaleKeepsHooks, ExpiryKeepsHooks, TakeOutKeepsHooks, ForgetKeepsHooks,
     KnownKeepsHooks, AppendKeepsHooks, NoteKeepsHooks, ReadKeepsHooks,
     WriteKeepsHooks, DropKeepsHooks DEF Step
<1> QED BY <1>1, OpenKeepsHooks, CloseKeepsHooks, WatchKeepsHooks, PostKeepsHooks,
           RestartKeepsHooks, AgeKeepsHooks, StutterKeepsHooks DEF Next

-----------------------------------------------------------------------------
(* What a hook finds in the map when it comes back to it.                  *)

\* The records keep their connection and state, and what is out of the map
\* stays harmed.
SameMaps ==
    /\ Numbers' = Numbers
    /\ \A p \in Numbers : pacs'[p].conn = pacs[p].conn /\ pacs'[p].state = pacs[p].state
    /\ UNCHANGED <<listeners, byUser, isOpen>>
    /\ \A p \in Numbers : listeners[pacs[p].conn] # p =>
         \A t \in Teams : <<p, t>> \in harmed => <<p, t>> \in harmed'

LEMMA MapsStay ==
    ASSUME MapsInv, SameMaps
    PROVE  MapInv' /\ UsersInv'
<1>1. \A c \in Conns : listeners[c] # 0 => listeners[c] \in Numbers
  BY DEF MapsInv, HooksInv, TypeOK
<1>2. MapInv'
  BY <1>1 DEF MapsInv, MapInv, SameMaps
<1>3. UsersInv'
  BY DEF MapsInv, UsersInv, SameMaps
<1> QED BY <1>2, <1>3

\* A hook goes on, with its own record if it had it before.
LEMMA GoesKeepsMaps ==
    ASSUME MapsInv, SameMaps, NEW k \in calls, NEW k2, Goes(k, k2),
           k2.conn = k.conn, k2.op = k.op, k2.pc \notin {"look", "register", "revive"},
           k.pc \notin {"look", "register", "revive"},
           Own(k2) => Own(k) /\ k2.pac = k.pac
    PROVE  MapInv' /\ UsersInv' /\ OwnInv' /\ ActiveInv'
<1>1. \A c \in Conns : listeners[c] # 0 => listeners[c] \in Numbers
  BY DEF MapsInv, HooksInv, TypeOK
<1>2. \A m \in calls : Fits(m) /\ m \in Hook
  BY FitsInv DEF MapsInv
<1>3. \A m \in calls : Own(m) => m.pac \in Numbers
  BY <1>2 DEF Fits, Own
<1>4. OwnInv'
  BY <1>3 DEF MapsInv, OwnInv, SameMaps, Goes, Own
<1>5. \A c \in Conns : Expected(c) <=> Expected(c)'
  BY DEF Expected, Goes, SameMaps
<1>6. \A c \in Conns : listeners'[c] # 0 =>
         (pacs'[listeners'[c]].state = "active" <=> Expected(c)')
  BY <1>1, <1>5 DEF MapsInv, ActiveInv, SameMaps
<1>7. \A m \in calls' : m.op \in Messages /\ Own(m) => pacs'[m.pac].state = "active"
  BY <1>3 DEF MapsInv, ActiveInv, SameMaps, Goes, Own
<1>8. \A p \in Numbers' : listeners'[pacs'[p].conn] # p /\ pacs'[p].state = "active" =>
         \A t \in Teams : <<p, t>> \in harmed'
  BY DEF MapsInv, ActiveInv, SameMaps
<1>9. ActiveInv'
  BY <1>6, <1>7, <1>8 DEF ActiveInv, Own
<1> QED BY <1>4, <1>9, MapsStay

LEMMA EndsKeepsMaps ==
    ASSUME MapsInv, SameMaps, NEW k \in calls, Ends(k), k.op # "disconnect",
           k.pc \notin {"look", "register", "revive"}
    PROVE  MapInv' /\ UsersInv' /\ OwnInv' /\ ActiveInv'
<1>1. \A c \in Conns : listeners[c] # 0 => listeners[c] \in Numbers
  BY DEF MapsInv, HooksInv, TypeOK
<1>2. \A m \in calls : Fits(m) /\ m \in Hook
  BY FitsInv DEF MapsInv
<1>3. \A m \in calls : Own(m) => m.pac \in Numbers
  BY <1>2 DEF Fits, Own
<1>4. OwnInv'
  BY <1>3 DEF MapsInv, OwnInv, SameMaps, Ends, Own
<1>5. isOpen[k.conn]
  BY DEF MapsInv, HooksInv, Shapes
<1>6. \A c \in Conns : Expected(c) <=> Expected(c)'
  BY <1>5 DEF Expected, Ends, SameMaps
<1>7. \A c \in Conns : listeners'[c] # 0 =>
         (pacs'[listeners'[c]].state = "active" <=> Expected(c)')
  BY <1>1, <1>6 DEF MapsInv, ActiveInv, SameMaps
<1>8. \A m \in calls' : m.op \in Messages /\ Own(m) => pacs'[m.pac].state = "active"
  BY <1>3 DEF MapsInv, ActiveInv, SameMaps, Ends, Own
<1>9. \A p \in Numbers' : listeners'[pacs'[p].conn] # p /\ pacs'[p].state = "active" =>
         \A t \in Teams : <<p, t>> \in harmed'
  BY DEF MapsInv, ActiveInv, SameMaps
<1>10. ActiveInv'
  BY <1>7, <1>8, <1>9 DEF ActiveInv, Own
<1> QED BY <1>4, <1>10, MapsStay

LEMMA ClearingKeepsMaps ==
    ASSUME MapsInv, NEW k \in calls,
           Others(k) \/ Stale(k) \/ Expiry(k) \/ TakeOut(k)
    PROVE  MapInv' /\ UsersInv' /\ OwnInv' /\ ActiveInv'
<1>1. k \in Hook /\ Fits(k) /\ k.pc \in {"others", "stale", "expiry", "remove"}
  BY FitsInv DEF MapsInv, Others, Stale, Expiry, TakeOut
<1>2. k.op = "connect"
  BY <1>1 DEF Fits, Places, Hook, Ops
<1>3. SameMaps
  BY DEF SameMaps, Others, Stale, Expiry, TakeOut, host, Numbers
<1>4. ASSUME NEW k2, Goes(k, k2), k2.conn = k.conn, k2.op = k.op,
             k2.pc \in {"stale", "expiry", "remove", "each"}
      PROVE  MapInv' /\ UsersInv' /\ OwnInv' /\ ActiveInv'
  <2>1. ~Own(k2)
    BY <1>2, <1>4 DEF Own, Messages
  <2> QED BY <1>1, <1>3, <1>4, <2>1, GoesKeepsMaps
<1>5. CASE Others(k)
  <2> DEFINE k2 == [k EXCEPT !.left = byUser[UserOf[k.conn]], !.pc = "stale"]
  <2>1. Goes(k, k2) /\ k2.conn = k.conn /\ k2.op = k.op /\ k2.pc = "stale"
    BY <1>1, <1>5 DEF Others, Hook
  <2> HIDE DEF k2
  <2> QED BY <1>4, <2>1
<1>6. CASE Stale(k)
  <2>1. ASSUME Ends(k) PROVE MapInv' /\ UsersInv' /\ OwnInv' /\ ActiveInv'
    BY <1>1, <1>2, <1>3, <2>1, EndsKeepsMaps
  <2>2. ASSUME NEW p \in k.left, NEW pc \in {"stale", "expiry"},
               Goes(k, [k EXCEPT !.left = @ \ {p}, !.pac = p, !.pc = pc])
        PROVE  MapInv' /\ UsersInv' /\ OwnInv' /\ ActiveInv'
    <3> DEFINE k2 == [k EXCEPT !.left = @ \ {p}, !.pac = p, !.pc = pc]
    <3>1. Goes(k, k2) /\ k2.conn = k.conn /\ k2.op = k.op /\ k2.pc = pc
      BY <1>1, <2>2 DEF Hook
    <3> HIDE DEF k2
    <3> QED BY <1>4, <3>1
  <2> QED BY <1>6, <2>1, <2>2 DEF Stale
<1>7. CASE Expiry(k)
  <2> DEFINE pc == IF pacs[k.pac].state = "inactive" THEN "stale" ELSE "remove"
             k2 == [k EXCEPT !.pc = pc]
  <2>1. Goes(k, k2) /\ k2.conn = k.conn /\ k2.op = k.op /\ k2.pc \in {"stale", "remove"}
    BY <1>1, <1>7 DEF Expiry, Hook
  <2> HIDE DEF k2
  <2> QED BY <1>4, <2>1
<1>8. CASE TakeOut(k)
  <2> DEFINE k2 == [k EXCEPT !.teams = pacs[k.pac].teams, !.pc = "each"]
  <2>1. Goes(k, k2) /\ k2.conn = k.conn /\ k2.op = k.op /\ k2.pc = "each"
    BY <1>1, <1>8 DEF TakeOut, Hook
  <2> HIDE DEF k2
  <2> QED BY <1>4, <2>1
<1> QED BY <1>5, <1>6, <1>7, <1>8

\* A hook on a team changes no connection and no state, and what it does no
\* harm to any more is in the map.
LEMMA TeamStepSame ==
    ASSUME MapsInv, NEW k \in calls,
           AppendToTeam(k) \/ NoteTeam(k) \/ ReadTeam(k) \/ WriteTeam(k) \/ DropTeam(k)
    PROVE  SameMaps
<1>1. UNCHANGED <<listeners, byUser, isOpen>>
  BY DEF AppendToTeam, NoteTeam, ReadTeam, WriteTeam, DropTeam, host
<1>2. /\ Numbers' = Numbers
      /\ \A p \in Numbers : pacs'[p].conn = pacs[p].conn /\ pacs'[p].state = pacs[p].state
  <2>1. CASE AppendToTeam(k) \/ ReadTeam(k) \/ WriteTeam(k)
    BY <2>1 DEF AppendToTeam, ReadTeam, WriteTeam, Numbers
  <2>2. CASE NoteTeam(k) \/ DropTeam(k)
    <3>1. k.team \in Teams /\ k.pac \in Numbers
      BY <2>2, NamesTeam DEF MapsInv, NoteTeam, DropTeam
    <3>2. pacs[k.pac].teams \in SUBSET Teams
      BY <3>1, RecordTyped DEF MapsInv
    <3>3. PICK x \in SUBSET Teams : pacs' = [pacs EXCEPT ![k.pac].teams = x]
      BY <2>2, <3>1, <3>2 DEF NoteTeam, DropTeam
    <3> QED BY <3>1, <3>3, TeamsChange DEF MapsInv
  <2> QED BY <2>1, <2>2
<1>3. \A p \in Numbers : listeners[pacs[p].conn] # p =>
         \A t \in Teams : <<p, t>> \in harmed => <<p, t>> \in harmed'
  <2>1. CASE AppendToTeam(k) \/ ReadTeam(k) \/ WriteTeam(k)
    BY <2>1 DEF AppendToTeam, ReadTeam, WriteTeam
  <2>2. CASE NoteTeam(k) \/ DropTeam(k)
    <3>1. harmed' = harmed \/ (listeners[k.conn] = k.pac /\ harmed' = harmed \ {<<k.pac, k.team>>})
      BY <2>2 DEF NoteTeam, DropTeam
    <3>2. k.pac \in Numbers /\ k \in Hook
      BY <2>2, NamesTeam DEF MapsInv, NoteTeam, DropTeam
    <3>3. listeners[k.conn] = k.pac => pacs[k.pac].conn = k.conn
      <4>1. 0 \notin Numbers
        BY DEF MapsInv, HooksInv, TypeOK, Numbers
      <4> QED BY <3>2, <4>1 DEF MapsInv, MapInv, Hook
    <3> QED BY <3>1, <3>3
  <2> QED BY <2>1, <2>2
<1> QED BY <1>1, <1>2, <1>3 DEF SameMaps

LEMMA TeamHookKeepsMaps ==
    ASSUME MapsInv, NEW k \in calls,
           Known(k) \/ AppendToTeam(k) \/ NoteTeam(k) \/ ReadTeam(k) \/ WriteTeam(k) \/ DropTeam(k)
    PROVE  MapInv' /\ UsersInv' /\ OwnInv' /\ ActiveInv'
<1>1. k \in Hook /\ Fits(k)
  BY FitsInv DEF MapsInv
<1>2. /\ k.pc \in {"known", "append", "note", "read", "write", "drop", "each"}
      /\ k.op # "disconnect"
  <2>1. k.pc \in {"known", "append", "note", "read", "write", "drop", "each"}
    BY DEF Known, AppendToTeam, NoteTeam, ReadTeam, WriteTeam, DropTeam
  <2> QED BY <1>1, <2>1 DEF Fits, Places
<1>3. SameMaps
  <2>1. CASE Known(k)
    BY <2>1 DEF Known, SameMaps, host, Numbers
  <2> QED BY <2>1, TeamStepSame
<1>4. ASSUME NEW k2, Goes(k, k2), k2.conn = k.conn, k2.op = k.op, k2.pac = k.pac,
             k2.pc \in {"append", "read", "note", "write", "drop", "each"},
             k.op = "connect" => k2.pc \in {"write", "drop", "each"}
      PROVE  MapInv' /\ UsersInv' /\ OwnInv' /\ ActiveInv'
  <2>1. Own(k2) => Own(k)
    BY <1>2, <1>4 DEF Own, Messages
  <2> QED BY <1>2, <1>3, <1>4, <2>1, GoesKeepsMaps
<1>5. ASSUME Ends(k) PROVE MapInv' /\ UsersInv' /\ OwnInv' /\ ActiveInv'
  BY <1>2, <1>3, <1>5, EndsKeepsMaps
<1>6. CASE Known(k)
  <2> DEFINE k2 == [k EXCEPT !.pc = IF k.op = "subscribe" THEN "append" ELSE "read"]
  <2>1. /\ Ends(k) \/ Goes(k, k2)
        /\ k2.conn = k.conn /\ k2.op = k.op /\ k2.pac = k.pac /\ k2.pc \in {"append", "read"}
    BY <1>1, <1>6 DEF Known, Hook
  <2>2. k.op # "connect"
    BY <1>1, <1>6 DEF Known, Fits, Places
  <2> HIDE DEF k2
  <2> QED BY <1>4, <1>5, <2>1, <2>2
<1>7. CASE AppendToTeam(k)
  <2> DEFINE k2 == [k EXCEPT !.pc = "note"]
  <2>1. Goes(k, k2) /\ k2.conn = k.conn /\ k2.op = k.op /\ k2.pac = k.pac /\ k2.pc = "note"
    BY <1>1, <1>7 DEF AppendToTeam, Hook
  <2>2. k.op # "connect"
    BY <1>1, <1>7 DEF AppendToTeam, Fits, Places
  <2> HIDE DEF k2
  <2> QED BY <1>4, <2>1, <2>2
<1>8. CASE NoteTeam(k)
  BY <1>5, <1>8 DEF NoteTeam
<1>9. CASE ReadTeam(k)
  <2>1. ASSUME NEW list, NEW team, NEW teams,
               Goes(k, [k EXCEPT !.list = list, !.team = team, !.pc = "write", !.teams = teams])
        PROVE  MapInv' /\ UsersInv' /\ OwnInv' /\ ActiveInv'
    <3> DEFINE k2 == [k EXCEPT !.list = list, !.team = team, !.pc = "write", !.teams = teams]
    <3>1. Goes(k, k2) /\ k2.conn = k.conn /\ k2.op = k.op /\ k2.pac = k.pac /\ k2.pc = "write"
      BY <1>1, <2>1 DEF Hook
    <3> HIDE DEF k2
    <3> QED BY <1>4, <3>1
  <2>2. ASSUME Goes(k, [k EXCEPT !.list = byTeam[k.team], !.pc = "write"])
        PROVE  MapInv' /\ UsersInv' /\ OwnInv' /\ ActiveInv'
    <3> DEFINE k2 == [k EXCEPT !.list = byTeam[k.team], !.pc = "write"]
    <3>1. Goes(k, k2) /\ k2.conn = k.conn /\ k2.op = k.op /\ k2.pac = k.pac /\ k2.pc = "write"
      BY <1>1, <2>2 DEF Hook
    <3> HIDE DEF k2
    <3> QED BY <1>4, <3>1
  <2> QED BY <1>9, <2>1, <2>2 DEF ReadTeam
<1>10. CASE WriteTeam(k)
  <2> DEFINE k2 == [k EXCEPT !.list = {}, !.pc = "drop"]
  <2>1. Goes(k, k2) /\ k2.conn = k.conn /\ k2.op = k.op /\ k2.pac = k.pac /\ k2.pc = "drop"
    BY <1>1, <1>10 DEF WriteTeam, Hook
  <2> HIDE DEF k2
  <2> QED BY <1>4, <2>1
<1>11. CASE DropTeam(k)
  <2> DEFINE k2 == [k EXCEPT !.team = "none", !.pc = "each"]
  <2>1. /\ Ends(k) \/ Goes(k, k2)
        /\ k2.conn = k.conn /\ k2.op = k.op /\ k2.pac = k.pac /\ k2.pc = "each"
    BY <1>1, <1>11 DEF DropTeam, Hook
  <2> HIDE DEF k2
  <2> QED BY <1>4, <1>5, <2>1
<1> QED BY <1>6, <1>7, <1>8, <1>9, <1>10, <1>11

\* The records of two connections are two.
LEMMA MapTyped ==
    ASSUME MapsInv, NEW c \in Conns, listeners[c] # 0
    PROVE  listeners[c] \in Numbers /\ pacs[listeners[c]].conn = c
BY DEF MapsInv, HooksInv, TypeOK, MapInv

LEMMA OwnTyped ==
    ASSUME MapsInv, NEW k \in calls, Own(k)
    PROVE  /\ k.pac \in Numbers /\ pacs[k.pac].conn = k.conn /\ k.conn \in Conns
           /\ listeners[k.conn] \in {0, k.pac}
<1>1. Fits(k) /\ k \in Hook
  BY FitsInv DEF MapsInv
<1> QED BY <1>1 DEF MapsInv, OwnInv, Fits, Own, Hook

LEMMA LookKeepsMaps ==
    ASSUME MapsInv, NEW k \in calls, Look(k)
    PROVE  MapInv' /\ UsersInv' /\ OwnInv' /\ ActiveInv'
<1>1. k \in Hook /\ Fits(k) /\ k.pc = "look" /\ k.conn \in Conns
  BY FitsInv DEF MapsInv, Look, Hook
<1>2. /\ UNCHANGED <<pacs, listeners, byUser, harmed, isOpen>>
      /\ Numbers' = Numbers
  BY DEF Look, host, Numbers
<1>3. MapInv' /\ UsersInv'
  BY <1>2, MapsStay DEF SameMaps
<1>4. \A m \in calls : m.conn = k.conn => m = k
  BY DEF MapsInv, HooksInv, OneCall
<1>5. \A p \in Numbers' : listeners'[pacs'[p].conn] # p /\ pacs'[p].state = "active" =>
         \A t \in Teams : <<p, t>> \in harmed'
  BY <1>2 DEF MapsInv, ActiveInv
<1>6. CASE listeners[k.conn] = 0
  <2> DEFINE k2 == [k EXCEPT !.pc = "register"]
  <2>1. /\ Ends(k) \/ Goes(k, k2)
        /\ k2.conn = k.conn /\ k2.op = k.op /\ k2.pc = "register"
    BY <1>1, <1>6 DEF Look, Hook
  <2> HIDE DEF k2
  <2>2. ~Own(k2) \/ k2.op \notin Messages
    BY <2>1 DEF Own
  <2>3. ~Own(k2)
    BY <2>1 DEF Own
  <2>4. OwnInv'
    BY <1>2, <1>6, <2>1, <2>3 DEF MapsInv, OwnInv, Goes, Ends, Own
  <2>5. \A c \in Conns : c # k.conn => (Expected(c) <=> Expected(c)')
    BY <1>2, <2>1 DEF Expected, Goes, Ends
  <2>6. \A c \in Conns : listeners'[c] # 0 =>
           (pacs'[listeners'[c]].state = "active" <=> Expected(c)')
    BY <1>2, <1>6, <2>5 DEF MapsInv, ActiveInv
  <2>7. \A m \in calls' : m.op \in Messages /\ Own(m) => pacs'[m.pac].state = "active"
    BY <1>2, <2>1, <2>3 DEF MapsInv, ActiveInv, Goes, Ends, Own
  <2> QED BY <1>3, <1>5, <2>4, <2>6, <2>7 DEF ActiveInv, Own
<1>7. CASE listeners[k.conn] # 0
  <2> DEFINE k2 == [k EXCEPT !.pac = listeners[k.conn], !.pc = Branch(k.op)]
  <2>1. Goes(k, k2) /\ k2.conn = k.conn /\ k2.op = k.op /\ k2.pac = listeners[k.conn] /\ k2.pc = Branch(k.op)
    BY <1>1, <1>7 DEF Look, Hook
  <2> HIDE DEF k2
  <2>2. pacs[k2.pac].conn = k2.conn /\ listeners[k2.conn] = k2.pac
    BY <1>1, <1>7, <2>1, MapTyped
  <2>3. k2.pc \in {"revive", "mark", "known"} /\ (k2.pc = "revive" <=> k.op = "connect")
    BY <2>1 DEF Branch
  <2>4. OwnInv'
    BY <1>2, <2>1, <2>2, <2>3 DEF MapsInv, OwnInv, Goes, Own
  <2>5. \A c \in Conns : Expected(c) <=> Expected(c)'
    <3> SUFFICES ASSUME NEW c \in Conns PROVE Expected(c) <=> Expected(c)'
        OBVIOUS
    <3>1. CASE c # k.conn
      BY <1>2, <2>1, <3>1 DEF Expected, Goes
    <3>2. CASE c = k.conn
      <4>1. Expected(c) <=> k.op # "connect"
        BY <1>1, <1>4, <3>2 DEF Expected
      <4>2. \A m \in calls' : m.conn = c => m = k2
        BY <1>4, <2>1, <3>2 DEF Goes
      <4>3. k2 \in calls' /\ k2.conn = c
        BY <2>1, <3>2 DEF Goes
      <4>4. Expected(c)' <=> k.op # "connect"
        BY <2>1, <2>3, <4>2, <4>3 DEF Expected
      <4> QED BY <4>1, <4>4
    <3> QED BY <3>1, <3>2
  <2>6. \A c \in Conns : listeners'[c] # 0 =>
           (pacs'[listeners'[c]].state = "active" <=> Expected(c)')
    BY <1>2, <2>5 DEF MapsInv, ActiveInv
  <2>7. k2.op \in Messages => pacs[k2.pac].state = "active"
    <3>1. k.op \in Messages => Expected(k.conn)
      BY <1>1, <1>4 DEF Expected, Messages
    <3> QED BY <1>1, <1>7, <2>1, <3>1 DEF MapsInv, ActiveInv
  <2>8. \A m \in calls' : m.op \in Messages /\ Own(m) => pacs'[m.pac].state = "active"
    BY <1>2, <2>1, <2>7 DEF MapsInv, ActiveInv, Goes, Own
  <2> QED BY <1>3, <1>5, <2>4, <2>6, <2>8 DEF ActiveInv, Own
<1> QED BY <1>6, <1>7

LEMMA RegisterKeepsMaps ==
    ASSUME MapsInv, NEW k \in calls, Register(k)
    PROVE  MapInv' /\ UsersInv' /\ OwnInv' /\ ActiveInv'
<1> DEFINE p == Len(pacs) + 1
           k2 == [k EXCEPT !.pac = p, !.pc = IF k.op = "connect" THEN "others" ELSE "known"]
           c == k.conn
<1>1. k \in Hook /\ Fits(k) /\ k.pc = "register" /\ c \in Conns /\ k.op # "disconnect"
  <2>1. k \in Hook /\ Fits(k) /\ k.pc = "register"
    BY FitsInv DEF MapsInv, Register
  <2> QED BY <2>1 DEF Fits, Places, Hook
<1>2. /\ pacs' = Append(pacs, [conn |-> c, state |-> "active", teams |-> {}])
      /\ listeners' = [listeners EXCEPT ![c] = p]
      /\ byUser' = [byUser EXCEPT ![UserOf[c]] = @ \cup {p}]
      /\ Goes(k, k2) /\ UNCHANGED <<harmed, isOpen>>
  BY DEF Register, host
<1>3. pacs \in Seq(Client) /\ listeners \in [Conns -> {0} \cup Numbers] /\ byUser \in [Users -> SUBSET Numbers]
  BY DEF MapsInv, HooksInv, TypeOK
<1>4. /\ Numbers' = Numbers \cup {p} /\ p \notin Numbers /\ p # 0 /\ 0 \notin Numbers
      /\ pacs'[p].conn = c /\ pacs'[p].state = "active"
      /\ \A q \in Numbers : pacs'[q] = pacs[q]
  BY <1>2, <1>3 DEF Numbers
<1>5. listeners[c] = 0
  BY <1>1 DEF MapsInv, OwnInv
<1>6. k2.conn = c /\ k2.op = k.op /\ k2.pac = p /\ k2.pc = (IF k.op = "connect" THEN "others" ELSE "known")
  BY <1>1 DEF Hook
<1>7. \A m \in calls : m.conn = c => m = k
  BY DEF MapsInv, HooksInv, OneCall
<1> HIDE DEF k2, p, c
<1>8. listeners'[c] = p /\ \A d \in Conns : d # c => listeners'[d] = listeners[d]
  BY <1>1, <1>2, <1>3
<1>9. \A d \in Conns : listeners[d] # 0 => listeners[d] \in Numbers
  BY <1>3
<1>10. MapInv'
  BY <1>4, <1>8, <1>9 DEF MapsInv, MapInv
<1>11. UsersInv'
  <2> SUFFICES ASSUME NEW u \in Users
               PROVE  byUser'[u] = {listeners'[d] : d \in {e \in Conns : UserOf[e] = u /\ listeners'[e] # 0}}
      BY DEF UsersInv
  <2>1. byUser[u] = {listeners[d] : d \in {e \in Conns : UserOf[e] = u /\ listeners[e] # 0}}
    BY DEF MapsInv, UsersInv
  <2>2. CASE u = UserOf[c]
    <3>1. byUser'[u] = byUser[u] \cup {p}
      BY <1>2, <1>3, <2>2
    <3> QED BY <1>1, <1>4, <1>5, <1>8, <2>1, <2>2, <3>1
  <2>3. CASE u # UserOf[c]
    <3>1. byUser'[u] = byUser[u]
      BY <1>2, <1>3, <2>3
    <3> QED BY <1>1, <1>8, <2>1, <2>3, <3>1
  <2> QED BY <2>2, <2>3
<1>12. \A m \in calls' : m = k2 \/ (m \in calls /\ m.conn # c)
  BY <1>2, <1>7 DEF Goes
<1>13. \A m \in calls : Own(m) => m.pac \in Numbers /\ m.conn \in Conns
  BY OwnTyped
<1>14. \A m \in calls : m.conn \in Conns
  BY DEF MapsInv, HooksInv, TypeOK, Hook
<1>15. OwnInv'
  <2> SUFFICES ASSUME NEW m \in calls'
               PROVE  /\ Own(m) => pacs'[m.pac].conn = m.conn /\ listeners'[m.conn] \in {0, m.pac}
                      /\ m.pc = "register" => listeners'[m.conn] = 0
      BY DEF OwnInv, Own
  <2>1. CASE m = k2
    BY <1>4, <1>6, <1>8, <2>1
  <2>2. CASE m \in calls /\ m.conn # c
    BY <1>4, <1>8, <1>13, <1>14, <2>2 DEF MapsInv, OwnInv
  <2> QED BY <1>12, <2>1, <2>2
<1>16. ActiveInv'
  <2>1. \A d \in Conns : d # c => (Expected(d) <=> Expected(d)')
    BY <1>2, <1>6, <1>12 DEF Expected, Goes, c
  <2>2. Expected(c)'
    <3>1. isOpen'[c] = TRUE
      BY <1>1, <1>2 DEF MapsInv, HooksInv, Shapes, TypeOK, c
    <3> QED BY <1>6, <1>12, <3>1 DEF Expected
  <2>3. \A d \in Conns : listeners'[d] # 0 =>
           (pacs'[listeners'[d]].state = "active" <=> Expected(d)')
    BY <1>4, <1>8, <1>9, <2>1, <2>2 DEF MapsInv, ActiveInv
  <2>4. \A m \in calls' : m.op \in Messages /\ Own(m) => pacs'[m.pac].state = "active"
    BY <1>4, <1>6, <1>12, <1>13 DEF MapsInv, ActiveInv
  <2>5. ASSUME NEW q \in Numbers', listeners'[pacs'[q].conn] # q, pacs'[q].state = "active", NEW t \in Teams
        PROVE  <<q, t>> \in harmed'
    <3>1. q # p
      BY <1>4, <1>8, <2>5
    <3>2. q \in Numbers /\ pacs'[q] = pacs[q]
      BY <1>4, <3>1
    <3>3. listeners[pacs[q].conn] # q
      <4>1. pacs[q].conn \in Conns
        BY <3>2, RecordTyped DEF MapsInv
      <4> QED BY <1>4, <1>5, <1>8, <2>5, <3>2, <4>1
    <3> QED BY <1>2, <2>5, <3>2, <3>3 DEF MapsInv, ActiveInv
  <2> QED BY <2>3, <2>4, <2>5 DEF ActiveInv, Own
<1> QED BY <1>10, <1>11, <1>15, <1>16

\* The state of the record of k follows its connection, and k has ended.
LEMMA StateKeepsMaps ==
    ASSUME MapsInv, NEW k \in calls, Revive(k) \/ Mark(k)
    PROVE  MapInv' /\ UsersInv' /\ OwnInv' /\ ActiveInv'
<1> DEFINE x == IF k.pc = "revive" THEN "active" ELSE "inactive"
           c == k.conn
<1>1. /\ k \in Hook /\ Fits(k) /\ Ends(k) /\ k.pc \in {"revive", "mark"}
      /\ pacs' = [pacs EXCEPT ![k.pac].state = x]
      /\ UNCHANGED <<listeners, byUser, isOpen>>
  BY FitsInv DEF MapsInv, Revive, Mark, host
<1>2. k.pac \in Numbers /\ pacs[k.pac].conn = c /\ c \in Conns /\ listeners[c] \in {0, k.pac}
  BY <1>1, OwnTyped DEF Own
<1>3. /\ Numbers' = Numbers
      /\ \A q \in Numbers : /\ pacs'[q].conn = pacs[q].conn
                            /\ pacs'[q].state = (IF q = k.pac THEN x ELSE pacs[q].state)
  <2>1. x \in {"active", "inactive", "expired"}
    OBVIOUS
  <2> QED BY <1>1, <1>2, <2>1, StateChanges DEF MapsInv
<1>4. \A m \in calls : m.conn = c => m = k
  BY DEF MapsInv, HooksInv, OneCall
<1>5. \A d \in Conns : listeners[d] # 0 => listeners[d] \in Numbers /\ pacs[listeners[d]].conn = d
  BY MapTyped
<1>6. \A m \in calls : Own(m) => m.pac \in Numbers /\ pacs[m.pac].conn = m.conn
  BY OwnTyped
<1>7. \A m \in calls' : m \in calls /\ m.conn # c
  BY <1>1, <1>4 DEF Ends
<1>8. isOpen[c] <=> k.pc = "revive"
  BY <1>1 DEF MapsInv, HooksInv, Shapes, Fits, Places, Hook, Ops
<1> HIDE DEF c
<1>9. MapInv'
  BY <1>1, <1>3, <1>5 DEF MapInv
<1>10. UsersInv'
  BY <1>1 DEF MapsInv, UsersInv
<1>11. OwnInv'
  BY <1>1, <1>3, <1>6, <1>7 DEF MapsInv, OwnInv, Own
<1>12. ActiveInv'
  <2>1. ASSUME NEW d \in Conns, listeners'[d] # 0
        PROVE  pacs'[listeners'[d]].state = "active" <=> Expected(d)'
    <3>1. CASE d = c
      <4>1. Expected(d)' <=> isOpen[c]
        BY <1>1, <1>7, <3>1 DEF Expected
      <4> QED BY <1>1, <1>2, <1>3, <1>8, <2>1, <3>1, <4>1
    <3>2. CASE d # c
      <4>1. Expected(d) <=> Expected(d)'
        BY <1>1, <3>2 DEF Expected, Ends, c
      <4>2. listeners[d] # k.pac
        BY <1>1, <1>2, <1>5, <2>1, <3>2
      <4> QED BY <1>1, <1>3, <1>5, <2>1, <4>1, <4>2 DEF MapsInv, ActiveInv
    <3> QED BY <3>1, <3>2
  <2>2. ASSUME NEW m \in calls', m.op \in Messages, Own(m)
        PROVE  pacs'[m.pac].state = "active"
    <3>1. m \in calls /\ m.pac # k.pac
      BY <1>2, <1>6, <1>7, <2>2
    <3> QED BY <1>3, <1>6, <2>2, <3>1 DEF MapsInv, ActiveInv
  <2>3. ASSUME NEW q \in Numbers', listeners'[pacs'[q].conn] # q, pacs'[q].state = "active", NEW t \in Teams
        PROVE  <<q, t>> \in harmed'
    <3>1. q \in Numbers /\ listeners[pacs[q].conn] # q
      BY <1>1, <1>3, <2>3
    <3>2. CASE q = k.pac
      <4>1. k.pc = "revive" /\ listeners[k.conn] # k.pac
        BY <1>1, <1>2, <1>3, <2>3, <3>1, <3>2 DEF c
      <4>2. harmed' = harmed \cup ({k.pac} \X Teams)
        BY <4>1 DEF Revive, Mark
      <4> QED BY <3>2, <4>2
    <3>3. CASE q # k.pac
      <4>1. <<q, t>> \in harmed
        BY <1>3, <2>3, <3>1, <3>3 DEF MapsInv, ActiveInv
      <4> QED BY <4>1 DEF Revive, Mark
    <3> QED BY <3>2, <3>3
  <2> QED BY <2>1, <2>2, <2>3 DEF ActiveInv, Own
<1> QED BY <1>9, <1>10, <1>11, <1>12

LEMMA ForgetKeepsMaps ==
    ASSUME MapsInv, NEW k \in calls, Forget(k)
    PROVE  MapInv' /\ UsersInv' /\ OwnInv' /\ ActiveInv'
<1> DEFINE k2 == [k EXCEPT !.pc = "stale"]
           c == pacs[k.pac].conn
           p == listeners[c]
<1>1. /\ Fits(k) /\ k \in Hook /\ k.pc = "each" /\ Goes(k, k2)
      /\ UNCHANGED <<pacs, isOpen>> /\ Numbers' = Numbers
      /\ listeners' = [listeners EXCEPT ![c] = 0]
      /\ byUser' = [byUser EXCEPT ![UserOf[c]] = Without(@, c)]
      /\ harmed' = IF p # 0 /\ (p # k.pac \/ pacs[p].state = "active")
                   THEN harmed \cup ({p} \X Teams) ELSE harmed
  BY FitsInv DEF MapsInv, Forget, Unlisted, Numbers, host
<1>2. k.pac \in Numbers /\ k.op = "connect"
  BY <1>1 DEF Fits, Places, Hook, Ops
<1>3. k2.conn = k.conn /\ k2.op = k.op /\ k2.pc = "stale"
  BY <1>1 DEF Hook
<1>4. c \in Conns /\ UserOf[c] \in Users
  BY <1>2, RecordTyped, UserOfAssumption DEF MapsInv
<1>5. listeners \in [Conns -> {0} \cup Numbers] /\ byUser \in [Users -> SUBSET Numbers]
  BY DEF MapsInv, HooksInv, TypeOK
<1> HIDE DEF k2, c, p
<1>6. listeners'[c] = 0 /\ \A d \in Conns : d # c => listeners'[d] = listeners[d]
  BY <1>1, <1>4, <1>5
<1>7. \A d \in Conns : listeners[d] # 0 => listeners[d] \in Numbers /\ pacs[listeners[d]].conn = d
  BY MapTyped
<1>8. \A m \in calls : m.conn \in Conns
  BY DEF MapsInv, HooksInv, TypeOK, Hook
<1>9. MapInv'
  BY <1>1, <1>6 DEF MapsInv, MapInv
<1>10. UsersInv'
  <2> SUFFICES ASSUME NEW u \in Users
               PROVE  byUser'[u] = {listeners'[d] : d \in {e \in Conns : UserOf[e] = u /\ listeners'[e] # 0}}
      BY DEF UsersInv
  <2>1. byUser[u] = {listeners[d] : d \in {e \in Conns : UserOf[e] = u /\ listeners[e] # 0}}
    BY DEF MapsInv, UsersInv
  <2>2. CASE u = UserOf[c]
    <3>1. byUser'[u] = {q \in byUser[u] : pacs[q].conn # c}
      BY <1>1, <1>5, <2>2 DEF Without
    <3> QED BY <1>4, <1>6, <1>7, <2>1, <2>2, <3>1
  <2>3. CASE u # UserOf[c]
    <3>1. byUser'[u] = byUser[u]
      BY <1>1, <1>5, <2>3
    <3> QED BY <1>4, <1>6, <2>1, <2>3, <3>1
  <2> QED BY <2>2, <2>3
<1>11. ~Own(k2)
  BY <1>2, <1>3 DEF Own, Messages
<1>12. OwnInv'
  <2> SUFFICES ASSUME NEW m \in calls'
               PROVE  /\ Own(m) => pacs'[m.pac].conn = m.conn /\ listeners'[m.conn] \in {0, m.pac}
                      /\ m.pc = "register" => listeners'[m.conn] = 0
      BY DEF OwnInv, Own
  <2>1. CASE m = k2
    BY <1>3, <1>11, <2>1
  <2>2. CASE m \in calls
    BY <1>1, <1>6, <1>8, <2>2 DEF MapsInv, OwnInv
  <2> QED BY <1>1, <2>1, <2>2 DEF Goes
<1>13. ActiveInv'
  <2>1. \A d \in Conns : Expected(d) <=> Expected(d)'
    BY <1>1, <1>3 DEF Expected, Goes
  <2>2. ASSUME NEW d \in Conns, listeners'[d] # 0
        PROVE  pacs'[listeners'[d]].state = "active" <=> Expected(d)'
    BY <1>1, <1>6, <2>1, <2>2 DEF MapsInv, ActiveInv
  <2>3. \A m \in calls' : m.op \in Messages /\ Own(m) => pacs'[m.pac].state = "active"
    BY <1>1, <1>11 DEF MapsInv, ActiveInv, Goes
  <2>4. ASSUME NEW q \in Numbers', listeners'[pacs'[q].conn] # q, pacs'[q].state = "active", NEW t \in Teams
        PROVE  <<q, t>> \in harmed'
    <3>1. q \in Numbers /\ pacs[q].state = "active" /\ pacs[q].conn \in Conns /\ q # 0
      <4>1. q \in Numbers
        BY <1>1, <2>4
      <4>2. pacs[q].conn \in Conns
        BY <4>1, RecordTyped DEF MapsInv
      <4>3. 0 \notin Numbers
        BY DEF MapsInv, HooksInv, TypeOK, Numbers
      <4> QED BY <1>1, <2>4, <4>1, <4>2, <4>3
    <3>2. CASE listeners[pacs[q].conn] = q
      <4>1. pacs[q].conn = c
        BY <1>1, <1>6, <2>4, <3>1, <3>2
      <4>2. p = q
        BY <3>2, <4>1 DEF p
      <4>3. harmed' = harmed \cup ({p} \X Teams)
        BY <1>1, <3>1, <4>2
      <4> QED BY <4>2, <4>3
    <3>3. CASE listeners[pacs[q].conn] # q
      <4>1. <<q, t>> \in harmed
        BY <3>1, <3>3 DEF MapsInv, ActiveInv
      <4> QED BY <1>1, <4>1
    <3> QED BY <3>2, <3>3
  <2> QED BY <2>2, <2>3, <2>4 DEF ActiveInv, Own
<1> QED BY <1>9, <1>10, <1>12, <1>13

\* A hook starts and finds the record of its connection as it has to be.
LEMMA StartKeepsMaps ==
    ASSUME MapsInv, Overtakes = {}, NEW c \in Conns, NEW op \in Ops,
           NEW t \in Teams \cup {"none"}, MayStart(c),
           calls' = calls \cup {Call(c, op, t)},
           isOpen[c] <=> op # "connect",
           isOpen' = [isOpen EXCEPT ![c] = (op # "disconnect")],
           UNCHANGED <<pacs, listeners, byUser>>, harmed \subseteq harmed'
    PROVE  MapInv' /\ UsersInv' /\ OwnInv' /\ ActiveInv'
<1> DEFINE k == Call(c, op, t)
<1>1. k.conn = c /\ k.op = op /\ k.pc = "look" /\ ~Own(k)
  BY CallStarts
<1>2. \A m \in calls : m.conn # c
  BY NoneRuns
<1>3. calls' = calls \cup {k}
  OBVIOUS
<1>4. Numbers' = Numbers
  BY DEF Numbers
<1> HIDE DEF k
<1>5. MapInv' /\ UsersInv'
  BY DEF MapsInv, MapInv, UsersInv
<1>6. OwnInv'
  BY <1>1, <1>3 DEF MapsInv, OwnInv, Own
<1>7. isOpen'[c] = (op # "disconnect") /\ \A d \in Conns : d # c => isOpen'[d] = isOpen[d]
  BY DEF MapsInv, HooksInv, TypeOK
<1>8. ActiveInv'
  <2>1. \A d \in Conns : Expected(d) <=> Expected(d)'
    <3>1. ASSUME NEW d \in Conns, d # c PROVE Expected(d) <=> Expected(d)'
      BY <1>1, <1>3, <1>7, <3>1 DEF Expected
    <3>2. Expected(c) <=> isOpen[c]
      BY <1>2 DEF Expected
    <3>3. Expected(c)' <=> op # "connect"
      BY <1>1, <1>2, <1>3 DEF Expected
    <3> QED BY <3>1, <3>2, <3>3
  <2>2. \A m \in calls' : m.op \in Messages /\ Own(m) => pacs'[m.pac].state = "active"
    BY <1>1, <1>3 DEF MapsInv, ActiveInv
  <2> QED BY <1>4, <2>1, <2>2 DEF MapsInv, ActiveInv, Own
<1> QED BY <1>5, <1>6, <1>8

LEMMA StepKeepsMaps ==
    ASSUME MapsInv, Overtakes = {}, [Next]_vars
    PROVE  MapsInv'
<1>1. HooksInv'
  BY StepKeepsHooks DEF MapsInv
<1>2. ASSUME NEW k \in calls, Step(k) PROVE MapInv' /\ UsersInv' /\ OwnInv' /\ ActiveInv'
  BY <1>2, LookKeepsMaps, RegisterKeepsMaps, StateKeepsMaps, ClearingKeepsMaps,
     ForgetKeepsMaps, TeamHookKeepsMaps DEF Step
<1>3. ASSUME NEW c \in Conns, Open(c) PROVE MapInv' /\ UsersInv' /\ OwnInv' /\ ActiveInv'
  BY <1>3, StartKeepsMaps DEF Open, Ops
<1>4. ASSUME NEW c \in Conns, Close(c) PROVE MapInv' /\ UsersInv' /\ OwnInv' /\ ActiveInv'
  BY <1>4, StartKeepsMaps DEF Close, Ops
<1>5. ASSUME NEW c \in Conns, Post(c) PROVE MapInv' /\ UsersInv' /\ OwnInv' /\ ActiveInv'
  <2> DEFINE op == Head(mail[c])[1]
             t == Head(mail[c])[2]
  <2>1. Head(mail[c]) \in {"subscribe", "unsubscribe"} \X Teams
    BY <1>5 DEF Post, MapsInv, HooksInv, TypeOK
  <2>2. op \in Ops /\ op # "disconnect" /\ op # "connect" /\ t \in Teams \cup {"none"}
    BY <2>1 DEF Ops
  <2>3. isOpen[c] = TRUE /\ isOpen \in [Conns -> BOOLEAN]
    BY <1>5 DEF Post, MapsInv, HooksInv, TypeOK, Closed
  <2>4. calls' = calls \cup {Call(c, op, t)} /\ MayStart(c)
    BY <1>5 DEF Post
  <2>5. UNCHANGED <<pacs, listeners, byUser, isOpen, harmed>>
    BY <1>5 DEF Post
  <2> HIDE DEF op, t
  <2>6. isOpen' = [isOpen EXCEPT ![c] = (op # "disconnect")]
    BY <2>2, <2>3, <2>5
  <2> QED BY <2>2, <2>3, <2>4, <2>5, <2>6, StartKeepsMaps
<1>6. ASSUME NEW c \in Conns, NEW t \in Teams, Watch(c, t)
      PROVE  MapInv' /\ UsersInv' /\ OwnInv' /\ ActiveInv'
  <2>1. /\ UNCHANGED <<pacs, listeners, byUser, calls, isOpen>> /\ harmed \subseteq harmed'
        /\ Numbers' = Numbers
    BY <1>6 DEF Watch, Numbers
  <2>2. \A d \in Conns : Expected(d) <=> Expected(d)'
    BY <2>1 DEF Expected
  <2> QED BY <2>1, <2>2 DEF MapsInv, MapInv, UsersInv, OwnInv, ActiveInv, Own
<1>7. ASSUME Restart PROVE MapInv' /\ UsersInv' /\ OwnInv' /\ ActiveInv'
  <2>1. /\ pacs' = <<>> /\ listeners' = [c \in Conns |-> 0]
        /\ byUser' = [u \in Users |-> {}] /\ calls' = {}
    BY <1>7 DEF Restart
  <2>2. Numbers' = {}
    BY <2>1 DEF Numbers
  <2>3. UsersInv'
    BY <2>1 DEF UsersInv
  <2> QED BY <2>1, <2>2, <2>3 DEF MapInv, OwnInv, ActiveInv
<1>8. ASSUME NEW p \in Numbers, Age(p) PROVE MapInv' /\ UsersInv' /\ OwnInv' /\ ActiveInv'
  <2>1. UNCHANGED <<listeners, byUser, calls, harmed, isOpen>> /\ pacs[p].state = "inactive"
    BY <1>8 DEF Age, host
  <2>2. /\ Numbers' = Numbers
        /\ \A q \in Numbers : /\ pacs'[q].conn = pacs[q].conn
                              /\ pacs'[q].state = "active" <=> pacs[q].state = "active"
    <3>1. pacs' = [pacs EXCEPT ![p].state = "expired"]
      BY <1>8 DEF Age
    <3>2. /\ Numbers' = Numbers
          /\ \A q \in Numbers : /\ pacs'[q].conn = pacs[q].conn
                                /\ pacs'[q].state = (IF q = p THEN "expired" ELSE pacs[q].state)
      BY <3>1, StateChanges DEF MapsInv
    <3> QED BY <2>1, <3>2
  <2>3. \A d \in Conns : Expected(d) <=> Expected(d)'
    BY <2>1 DEF Expected
  <2>4. MapInv' /\ UsersInv'
    BY <2>1, <2>2, MapTyped DEF MapsInv, MapInv, UsersInv
  <2>5. \A m \in calls : Own(m) => m.pac \in Numbers
    BY OwnTyped
  <2>6. OwnInv'
    BY <2>1, <2>2, <2>5 DEF MapsInv, OwnInv, Own
  <2>7. \A c \in Conns : listeners[c] # 0 => listeners[c] \in Numbers
    BY MapTyped
  <2>8. ActiveInv'
    BY <2>1, <2>2, <2>3, <2>5, <2>7 DEF MapsInv, ActiveInv, Own
  <2> QED BY <2>4, <2>6, <2>8
<1>9. ASSUME UNCHANGED vars PROVE MapInv' /\ UsersInv' /\ OwnInv' /\ ActiveInv'
  <2>1. \A d \in Conns : Expected(d) <=> Expected(d)'
    BY <1>9 DEF Expected, vars, hooks, host
  <2> QED BY <1>9, <2>1 DEF MapsInv, MapInv, UsersInv, OwnInv, ActiveInv, Own, vars, hooks, host, Numbers
<1>10. MapInv' /\ UsersInv' /\ OwnInv' /\ ActiveInv'
  BY <1>2, <1>3, <1>4, <1>5, <1>6, <1>7, <1>8, <1>9 DEF Next
<1> QED BY <1>1, <1>10 DEF MapsInv

LEMMA InitMaps == Init => MapsInv
<1> SUFFICES ASSUME Init PROVE MapsInv
    OBVIOUS
<1>1. Numbers = {}
  BY DEF Init, Numbers
<1>2. UsersInv
  BY DEF Init, UsersInv
<1> QED BY <1>1, <1>2, InitHooks DEF Init, MapsInv, MapInv, OwnInv, ActiveInv

-----------------------------------------------------------------------------
(* How a list and a record differ.                                         *)

LEMMA NoDoom ==
    ASSUME MapsInv, ~locked, NEW c \in Conns
    PROVE  ~Doomed(c)
BY DEF MapsInv, HooksInv, Lock, Doomed

\* The records that count as active stay so, but where a hook is to mark one.
StillActive ==
    \A c \in Conns :
      listeners[c] # 0 /\ pacs[listeners[c]].state = "active"
      /\ (\A m \in calls : m.pc = "mark" => m.conn # c)
        => pacs'[listeners[c]].state = "active"

\* A removal under way goes on, and nobody marks the record inactive.
DoomsOn ==
    /\ UNCHANGED listeners
    /\ \A p \in Numbers : pacs'[p].conn = pacs[p].conn
    /\ StillActive
    /\ \A m \in calls : Removes(m) => \E n \in calls' : Removes(n) /\ n.pac = m.pac
    /\ \A m \in calls' : m.pc = "mark" => m \in calls

LEMMA DoomStays ==
    ASSUME MapsInv, DoomsOn, NEW c \in Conns, Doomed(c)
    PROVE  Doomed(c)'
<1>1. PICK k \in calls :
        /\ Removes(k) /\ pacs[k.pac].conn = c
        /\ \/ k.pac # listeners[c]
           \/ /\ pacs[listeners[c]].state = "active"
              /\ \A m \in calls : m.pc = "mark" => m.conn # c
  BY DEF Doomed
<1>2. listeners[c] # 0 /\ listeners'[c] = listeners[c]
  BY DEF Doomed, DoomsOn
<1>3. PICK n \in calls' : Removes(n) /\ n.pac = k.pac
  BY <1>1 DEF DoomsOn
<1>4. k.pac \in Numbers
  <2>1. Fits(k)
    BY FitsInv DEF MapsInv
  <2> QED BY <1>1, <2>1 DEF Fits, Removes
<1>5. pacs'[n.pac].conn = c
  BY <1>1, <1>3, <1>4 DEF DoomsOn
<1>6. \/ n.pac # listeners'[c]
      \/ /\ pacs'[listeners'[c]].state = "active"
         /\ \A m \in calls' : m.pc = "mark" => m.conn # c
  BY <1>1, <1>2, <1>3 DEF DoomsOn, StillActive
<1> QED BY <1>2, <1>3, <1>5, <1>6 DEF Doomed, Removes

\* No hook comes to note or drop a team, or is done with it.
SameSteps ==
    /\ \A p \in Numbers, t \in Teams : Noting(p, t) <=> Noting(p, t)'
    /\ \A p \in Numbers, t \in Teams : Dropping(p, t) <=> Dropping(p, t)'

SameLists ==
    /\ Numbers' = Numbers
    /\ \A p \in Numbers : pacs'[p].conn = pacs[p].conn /\ pacs'[p].teams = pacs[p].teams
    /\ UNCHANGED <<listeners, byTeam>>
    /\ harmed \subseteq harmed'

LEMMA AgreeStay ==
    ASSUME ListsInv, SameLists, SameSteps, \A c \in Conns : Doomed(c) => Doomed(c)'
    PROVE  ListedInv' /\ UnlistedInv'
<1>1. \A c \in Conns : listeners[c] # 0 => listeners[c] \in Numbers
  BY MapTyped DEF ListsInv
<1>2. \A p \in Numbers, t \in Teams : Agrees(p, t) => Agrees(p, t)'
  BY DEF Agrees, SameLists, SameSteps
<1>3. ListedInv'
  <2> SUFFICES ASSUME NEW c \in Conns, listeners'[c] # 0, NEW t \in Teams
               PROVE  Doomed(c)' \/ <<listeners'[c], t>> \in harmed' \/ Agrees(listeners[c], t)'
      BY DEF ListedInv, SameLists
  <2>1. listeners[c] # 0 /\ listeners'[c] = listeners[c]
    BY DEF SameLists
  <2>2. Doomed(c) \/ <<listeners[c], t>> \in harmed \/ Agrees(listeners[c], t)
    BY <2>1 DEF ListsInv, ListedInv
  <2> QED BY <1>1, <1>2, <2>1, <2>2 DEF SameLists
<1>4. UnlistedInv'
  BY DEF ListsInv, UnlistedInv, SameLists
<1> QED BY <1>3, <1>4

\* The removals under way are those that were, and a record gets teams only
\* where harm is due.
LEMMA RemovalStays ==
    ASSUME ListsInv, Numbers' = Numbers, UNCHANGED listeners,
           \A p \in Numbers : pacs'[p].conn = pacs[p].conn,
           \A c \in Conns : Doomed(c) => Doomed(c)',
           \A m \in calls' : Removes(m) => m \in calls,
           \A c \in Conns : \A m \in calls :
              Removes(m) /\ pacs[m.pac].conn = c /\ listeners[c] # 0 /\ ~Doomed(c) =>
                pacs'[m.pac].teams \subseteq pacs[m.pac].teams
    PROVE  RemovalInv'
<1> SUFFICES ASSUME NEW m \in calls', NEW c \in Conns, Removes(m), pacs'[m.pac].conn = c,
                    listeners'[c] # 0, ~Doomed(c)'
             PROVE  pacs'[m.pac].teams \subseteq Remaining(m)
    BY DEF RemovalInv, Removes, Remaining
<1>1. m \in calls /\ m.pac \in Numbers
  <2>1. m \in calls
    OBVIOUS
  <2>2. Fits(m)
    BY <2>1, FitsInv DEF ListsInv, MapsInv
  <2> QED BY <2>1, <2>2 DEF Fits, Removes
<1>2. pacs[m.pac].conn = c /\ listeners[c] # 0 /\ ~Doomed(c)
  BY <1>1
<1>3. pacs[m.pac].teams \subseteq Remaining(m)
  BY <1>1, <1>2 DEF ListsInv, RemovalInv
<1> QED BY <1>1, <1>2, <1>3

\* Hooks that start, end or go on where they touch no list by team.
Quiets(k) == k.pc \notin {"note", "drop", "each", "write"}

\* Hooks come and go that touch no list by team.
QuietStep ==
    /\ SameLists
    /\ StillActive
    /\ \A m \in calls : Quiets(m) \/ m \in calls'
    /\ \A m \in calls' : (Quiets(m) /\ m.pc # "mark") \/ m \in calls

LEMMA QuietStepKeepsLists ==
    ASSUME ListsInv, QuietStep
    PROVE  ListedInv' /\ UnlistedInv' /\ RemovalInv'
<1>1. \A m \in calls' : Removes(m) => m \in calls
  BY DEF Removes, Quiets, QuietStep
<1>2. \A m \in calls : Removes(m) \/ m.pc \in {"note", "drop"} => m \in calls'
  BY DEF Removes, Quiets, QuietStep
<1>3. \A m \in calls' : m.pc \in {"mark", "note", "drop"} => m \in calls
  BY DEF Quiets, QuietStep
<1>4. DoomsOn
  BY <1>2, <1>3 DEF DoomsOn, SameLists, QuietStep
<1>5. \A c \in Conns : Doomed(c) => Doomed(c)'
  BY <1>4, DoomStays DEF ListsInv
<1>6. SameSteps
  BY <1>2, <1>3 DEF SameSteps, Noting, Dropping
<1>7. RemovalInv'
  <2>1. \A m \in calls : Removes(m) => m.pac \in Numbers
    BY FitsInv DEF ListsInv, MapsInv, Fits, Removes
  <2> QED BY <1>1, <1>5, <2>1, RemovalStays DEF SameLists, QuietStep
<1> QED BY <1>5, <1>6, <1>7, AgreeStay DEF QuietStep

LEMMA LookKeepsLists ==
    ASSUME ListsInv, NEW k \in calls, Look(k)
    PROVE  ListedInv' /\ UnlistedInv' /\ RemovalInv'
<1>1. /\ ~locked /\ SameLists /\ locked' = locked /\ k.pc = "look" /\ k \in Hook
      /\ UNCHANGED <<pacs, harmed>>
  BY FitsInv DEF Look, SameLists, Numbers, ListsInv, MapsInv
<1>2. \A c \in Conns : ~Doomed(c)
  BY <1>1, NoDoom DEF ListsInv
<1>3. \A m \in calls : ~Removes(m)
  BY <1>1 DEF ListsInv, MapsInv, HooksInv, Lock
<1>4. ASSUME \A m \in calls : m = k \/ m \in calls',
             \A m \in calls' : m \in calls \/ m.pc \in {"register", "revive", "mark", "known"}
      PROVE  ListedInv' /\ UnlistedInv' /\ RemovalInv'
  <2>1. \A m \in calls' : ~Removes(m)
    BY <1>3, <1>4 DEF Removes
  <2>2. SameSteps
    BY <1>1, <1>4 DEF SameSteps, Noting, Dropping
  <2>3. RemovalInv'
    BY <2>1 DEF RemovalInv, Removes
  <2> QED BY <1>1, <1>2, <2>2, <2>3, AgreeStay
<1>5. CASE listeners[k.conn] = 0 /\ k.op = "disconnect"
  BY <1>4, <1>5 DEF Look, Ends
<1>6. CASE listeners[k.conn] = 0 /\ k.op # "disconnect"
  <2> DEFINE k2 == [k EXCEPT !.pc = "register"]
  <2>1. Goes(k, k2) /\ k2.pc = "register"
    BY <1>1, <1>6 DEF Look, Hook
  <2> HIDE DEF k2
  <2> QED BY <1>4, <2>1 DEF Goes
<1>7. CASE listeners[k.conn] # 0
  <2> DEFINE k2 == [k EXCEPT !.pac = listeners[k.conn], !.pc = Branch(k.op)]
  <2>1. Goes(k, k2) /\ k2.pc = Branch(k.op)
    BY <1>1, <1>7 DEF Look, Hook
  <2>2. k2.pc \in {"register", "revive", "mark", "known"}
    BY <2>1 DEF Branch
  <2> HIDE DEF k2
  <2> QED BY <1>4, <2>1, <2>2 DEF Goes
<1> QED BY <1>5, <1>6, <1>7

LEMMA ClearingKeepsLists ==
    ASSUME ListsInv, NEW k \in calls, Others(k) \/ Stale(k) \/ Expiry(k) \/ Known(k)
    PROVE  ListedInv' /\ UnlistedInv' /\ RemovalInv'
<1>1. /\ SameLists /\ UNCHANGED <<pacs, listeners>> /\ Quiets(k) /\ k \in Hook
      /\ k.pc \in {"others", "stale", "expiry", "known"}
  BY FitsInv DEF Others, Stale, Expiry, Known, SameLists, Numbers, ListsInv, MapsInv, Quiets
<1>2. ASSUME NEW k2, Goes(k, k2), k2.pc \in {"stale", "expiry", "remove", "append", "read"}
      PROVE  ListedInv' /\ UnlistedInv' /\ RemovalInv'
  <2>1. QuietStep
    BY <1>1, <1>2 DEF Goes, Quiets, QuietStep, StillActive
  <2> QED BY <2>1, QuietStepKeepsLists
<1>3. ASSUME Ends(k) PROVE ListedInv' /\ UnlistedInv' /\ RemovalInv'
  <2>1. QuietStep
    BY <1>1, <1>3 DEF Ends, QuietStep, StillActive
  <2> QED BY <2>1, QuietStepKeepsLists
<1>4. CASE Others(k)
  <2> DEFINE k2 == [k EXCEPT !.left = byUser[UserOf[k.conn]], !.pc = "stale"]
  <2>1. Goes(k, k2) /\ k2.pc = "stale"
    BY <1>1, <1>4 DEF Others, Hook
  <2> HIDE DEF k2
  <2> QED BY <1>2, <2>1
<1>5. CASE Stale(k)
  <2>1. ASSUME NEW p \in k.left, NEW pc \in {"stale", "expiry"},
               Goes(k, [k EXCEPT !.left = @ \ {p}, !.pac = p, !.pc = pc])
        PROVE  ListedInv' /\ UnlistedInv' /\ RemovalInv'
    <3> DEFINE k2 == [k EXCEPT !.left = @ \ {p}, !.pac = p, !.pc = pc]
    <3>1. Goes(k, k2) /\ k2.pc = pc
      BY <1>1, <2>1 DEF Hook
    <3> HIDE DEF k2
    <3> QED BY <1>2, <3>1
  <2> QED BY <1>3, <1>5, <2>1 DEF Stale
<1>6. CASE Expiry(k)
  <2> DEFINE pc == IF pacs[k.pac].state = "inactive" THEN "stale" ELSE "remove"
             k2 == [k EXCEPT !.pc = pc]
  <2>1. Goes(k, k2) /\ k2.pc \in {"stale", "remove"}
    BY <1>1, <1>6 DEF Expiry, Hook
  <2> HIDE DEF k2
  <2> QED BY <1>2, <2>1
<1>7. CASE Known(k)
  <2> DEFINE k2 == [k EXCEPT !.pc = IF k.op = "subscribe" THEN "append" ELSE "read"]
  <2>1. (Ends(k) \/ Goes(k, k2)) /\ k2.pc \in {"append", "read"}
    BY <1>1, <1>7 DEF Known, Hook
  <2> HIDE DEF k2
  <2> QED BY <1>2, <1>3, <2>1
<1> QED BY <1>4, <1>5, <1>6, <1>7

\* The state of a record changes; none that counts as active, unless its own
\* connection has closed.
LEMMA StateKeepsLists ==
    ASSUME ListsInv, NEW k \in calls, Revive(k) \/ Mark(k)
    PROVE  ListedInv' /\ UnlistedInv' /\ RemovalInv'
<1>1. /\ k.pc \in {"revive", "mark"} /\ Ends(k) /\ k \in Hook
      /\ UNCHANGED <<listeners, byTeam>> /\ harmed \subseteq harmed'
  BY FitsInv DEF Revive, Mark, ListsInv, MapsInv
<1>2. Own(k) /\ Quiets(k)
  BY <1>1 DEF Own, Quiets
<1>3. k.pac \in Numbers /\ pacs[k.pac].conn = k.conn /\ k.conn \in Conns
  BY <1>2, OwnTyped DEF ListsInv
<1>4. PICK x \in {"active", "inactive"} :
         /\ pacs' = [pacs EXCEPT ![k.pac].state = x]
         /\ x = "inactive" => k.pc = "mark"
  BY DEF Revive, Mark
<1> x \in {"active", "inactive", "expired"} /\ pacs' = [pacs EXCEPT ![k.pac].state = x]
  BY <1>4
<1>5. /\ Numbers' = Numbers
      /\ \A q \in Numbers :
           /\ pacs'[q].conn = pacs[q].conn /\ pacs'[q].teams = pacs[q].teams
           /\ pacs'[q].state = (IF q = k.pac THEN x ELSE pacs[q].state)
  BY <1>3, <1>4, StateChanges DEF ListsInv, MapsInv
<1>6. SameLists
  BY <1>1, <1>5 DEF SameLists
<1>7. StillActive
  <2> SUFFICES ASSUME NEW c \in Conns, listeners[c] # 0, pacs[listeners[c]].state = "active",
                      \A m \in calls : m.pc = "mark" => m.conn # c
               PROVE  pacs'[listeners[c]].state = "active"
      BY DEF StillActive
  <2>1. listeners[c] \in Numbers /\ pacs[listeners[c]].conn = c
    BY MapTyped DEF ListsInv
  <2> QED BY <1>3, <1>4, <1>5, <2>1
<1>8. QuietStep
  BY <1>1, <1>2, <1>6, <1>7 DEF Ends, QuietStep
<1> QED BY <1>8, QuietStepKeepsLists

LEMMA AgeKeepsLists ==
    ASSUME ListsInv, NEW p \in Numbers, Age(p)
    PROVE  ListedInv' /\ UnlistedInv' /\ RemovalInv'
<1>1. pacs[p].state = "inactive" /\ UNCHANGED <<listeners, byTeam, calls, harmed>>
  BY DEF Age
<1>2. pacs' = [pacs EXCEPT ![p].state = "expired"]
  BY DEF Age
<1>3. /\ Numbers' = Numbers
      /\ \A q \in Numbers :
           /\ pacs'[q].conn = pacs[q].conn /\ pacs'[q].teams = pacs[q].teams
           /\ pacs'[q].state = (IF q = p THEN "expired" ELSE pacs[q].state)
  BY <1>2, StateChanges DEF ListsInv, MapsInv
<1>4. SameLists
  BY <1>1, <1>3 DEF SameLists
<1>5. StillActive
  BY <1>1, <1>3, MapTyped DEF ListsInv, StillActive
<1>6. QuietStep
  BY <1>1, <1>4, <1>5 DEF QuietStep
<1> QED BY <1>6, QuietStepKeepsLists

\* The connections open and close, the client speaks, the host hands over, or
\* nothing happens.
LEMMA HostKeepsLists ==
    ASSUME ListsInv, UNCHANGED <<pacs, listeners, byTeam>>, harmed \subseteq harmed',
           calls \subseteq calls', \A m \in calls' : m \in calls \/ m.pc = "look"
    PROVE  ListedInv' /\ UnlistedInv' /\ RemovalInv'
<1>1. SameLists /\ StillActive
  BY DEF SameLists, StillActive, Numbers
<1>2. QuietStep
  BY <1>1 DEF QuietStep, Quiets
<1> QED BY <1>2, QuietStepKeepsLists

LEMMA RegisterKeepsLists ==
    ASSUME ListsInv, MapsInv', NEW k \in calls, Register(k)
    PROVE  ListedInv' /\ UnlistedInv' /\ RemovalInv'
<1> DEFINE p == Len(pacs) + 1
           new == [conn |-> k.conn, state |-> "active", teams |-> {}]
           k2 == [k EXCEPT !.pac = p, !.pc = IF k.op = "connect" THEN "others" ELSE "known"]
<1>1. /\ k \in Hook /\ k.conn \in Conns /\ k.pc = "register" /\ ~locked
      /\ pacs \in Seq(Client) /\ listeners[k.conn] = 0
  <2>1. k \in Hook /\ k.pc = "register" /\ ~locked
    BY FitsInv DEF Register, ListsInv, MapsInv
  <2> QED BY <2>1 DEF Hook, ListsInv, MapsInv, HooksInv, TypeOK, OwnInv
<1>2. /\ pacs' = Append(pacs, new) /\ Goes(k, k2)
      /\ listeners' = [listeners EXCEPT ![k.conn] = p]
      /\ UNCHANGED <<byTeam, locked, harmed>>
  BY DEF Register
<1>3. k2.pc \in {"others", "known"}
  BY <1>1 DEF Hook
<1>4. new.conn = k.conn /\ new.teams = {} /\ new \in Client
  BY <1>1 DEF Client
<1> HIDE DEF k2, new
<1>5. /\ Numbers = 1..Len(pacs) /\ Len(pacs) \in Nat /\ Numbers' = 1..p
      /\ pacs'[p] = new /\ \A q \in Numbers : pacs'[q] = pacs[q]
  BY <1>1, <1>2, <1>4 DEF Numbers
<1>6. p \notin Numbers /\ p # 0 /\ Numbers' = Numbers \cup {p}
  BY <1>5
<1> HIDE DEF p
<1>7. \A c \in Conns : ~Doomed(c)
  BY <1>1, NoDoom DEF ListsInv
<1>8. RemovalInv'
  <2>1. \A m \in calls' : ~Removes(m)
    BY <1>1, <1>2, <1>3 DEF Goes, ListsInv, MapsInv, HooksInv, Lock, Removes
  <2> QED BY <2>1 DEF RemovalInv, Removes
<1>9. \A c \in Conns : listeners'[c] = (IF c = k.conn THEN p ELSE listeners[c])
  BY <1>1, <1>2 DEF ListsInv, MapsInv, HooksInv, TypeOK
<1>10. SameSteps
  BY <1>1, <1>2, <1>3 DEF SameSteps, Noting, Dropping, Goes
<1>11. ListedInv'
  <2> SUFFICES ASSUME NEW c \in Conns, listeners'[c] # 0, NEW t \in Teams, NEW q, q = listeners'[c]
               PROVE  <<q, t>> \in harmed' \/ Agrees(q, t)'
      BY DEF ListedInv
  <2>1. CASE c = k.conn
    <3>1. q = p
      BY <1>9, <2>1
    <3>2. \A m \in calls : m.pc \in {"note", "drop"} => m.pac \in Numbers
      BY FitsInv DEF ListsInv, MapsInv, Fits
    <3>3. ~Noting(q, t)' /\ ~Dropping(q, t)'
      BY <1>2, <1>3, <1>6, <3>1, <3>2 DEF Noting, Dropping, Goes
    <3>4. q \notin byTeam'[t]
      BY <1>2, <1>6, <3>1 DEF ListsInv, MapsInv, HooksInv, TypeOK
    <3>5. t \notin pacs'[q].teams
      BY <1>4, <1>5, <3>1
    <3> QED BY <3>3, <3>4, <3>5 DEF Agrees
  <2>2. CASE c # k.conn
    <3>1. q = listeners[c] /\ q # 0 /\ q \in Numbers
      BY <1>9, <2>2, MapTyped DEF ListsInv
    <3>2. <<q, t>> \in harmed \/ Agrees(q, t)
      BY <1>7, <3>1 DEF ListsInv, ListedInv
    <3>3. Agrees(q, t) => Agrees(q, t)'
      BY <1>2, <1>5, <1>10, <3>1 DEF Agrees, SameSteps
    <3> QED BY <1>2, <3>2, <3>3
  <2> QED BY <2>1, <2>2
<1>12. UnlistedInv'
  <2> SUFFICES ASSUME NEW q \in Numbers', listeners'[pacs'[q].conn] # q, NEW t \in Teams,
                      q \in byTeam'[t]
               PROVE  <<q, t>> \in harmed'
      BY DEF UnlistedInv
  <2>1. q \in Numbers /\ pacs'[q].conn = pacs[q].conn /\ q # 0
    BY <1>1, <1>4, <1>5, <1>6, <1>9
  <2>2. pacs[q].conn \in Conns
    BY <2>1, RecordTyped DEF ListsInv, MapsInv
  <2>3. listeners[pacs[q].conn] # q
    BY <1>1, <1>9, <2>1, <2>2
  <2> QED BY <1>2, <2>1, <2>3 DEF ListsInv, UnlistedInv
<1> QED BY <1>8, <1>11, <1>12

LEMMA TakeOutKeepsLists ==
    ASSUME ListsInv, NEW k \in calls, TakeOut(k)
    PROVE  ListedInv' /\ UnlistedInv' /\ RemovalInv'
<1> DEFINE k2 == [k EXCEPT !.teams = pacs[k.pac].teams, !.pc = "each"]
<1>1. /\ k \in Hook /\ k.pc = "remove" /\ ~locked /\ Goes(k, k2)
      /\ SameLists /\ UNCHANGED <<pacs, listeners>>
  BY FitsInv DEF TakeOut, SameLists, Numbers, ListsInv, MapsInv
<1>2. k2.teams = pacs[k2.pac].teams /\ k2.pc = "each"
  BY <1>1 DEF Hook
<1> HIDE DEF k2
<1>3. \A c \in Conns : ~Doomed(c)
  BY <1>1, NoDoom DEF ListsInv
<1>4. \A m \in calls' : Removes(m) => m = k2
  BY <1>1 DEF Goes, ListsInv, MapsInv, HooksInv, Lock
<1>5. SameSteps
  BY <1>1, <1>2 DEF SameSteps, Noting, Dropping, Goes
<1>6. RemovalInv'
  BY <1>1, <1>2, <1>4 DEF RemovalInv, Removes, Remaining
<1> QED BY <1>1, <1>3, <1>5, <1>6, AgreeStay

\* A message hook goes on with a record that counts as active, so that a removal
\* of that record will do it harm.
LEMMA MessageDooms ==
    ASSUME MapsInv, NEW k \in calls, k.op \in Messages, Own(k), listeners[k.conn] # 0,
           NEW m \in calls, Removes(m), pacs[m.pac].conn = k.conn
    PROVE  Doomed(k.conn)
<1>1. listeners[k.conn] = k.pac /\ pacs[k.pac].state = "active"
  BY OwnTyped DEF MapsInv, ActiveInv
<1>2. \A n \in calls : n.pc = "mark" => n.conn # k.conn
  <2> SUFFICES ASSUME NEW n \in calls, n.pc = "mark", n.conn = k.conn PROVE FALSE
      OBVIOUS
  <2>1. n = k
    BY DEF MapsInv, HooksInv, OneCall
  <2>2. Fits(n) /\ n \in Hook
    BY FitsInv DEF MapsInv
  <2> QED BY <2>1, <2>2 DEF Fits, Places, Messages
<1> QED BY <1>1, <1>2 DEF Doomed

LEMMA NotesActive ==
    ASSUME MapsInv, NEW p \in Numbers, NEW t \in Teams, Noting(p, t)
    PROVE  /\ pacs[p].state = "active"
           /\ \E k \in calls : /\ k.pc = "note" /\ k.op \in Messages /\ Own(k)
                               /\ k.pac = p /\ k.team = t /\ pacs[p].conn = k.conn
<1>1. PICK k \in calls : k.pc = "note" /\ k.pac = p /\ k.team = t
  BY DEF Noting
<1>2. k.op \in Messages
  BY <1>1, NamesTeam DEF MapsInv, Messages
<1>3. Own(k)
  BY <1>1, <1>2 DEF Own
<1> QED BY <1>1, <1>2, <1>3, OwnTyped DEF MapsInv, ActiveInv

LEMMA ForgetKeepsLists ==
    ASSUME ListsInv, NEW k \in calls, Forget(k)
    PROVE  ListedInv' /\ UnlistedInv' /\ RemovalInv'
<1> DEFINE c == pacs[k.pac].conn
           p == listeners[c]
           k2 == [k EXCEPT !.pc = "stale"]
<1>1. /\ k \in Hook /\ Fits(k) /\ k.pc = "each" /\ k.teams = {} /\ Goes(k, k2)
      /\ listeners' = [listeners EXCEPT ![c] = 0]
      /\ harmed' = (IF p # 0 /\ (p # k.pac \/ pacs[p].state = "active")
                    THEN harmed \cup ({p} \X Teams) ELSE harmed)
      /\ UNCHANGED <<pacs, byTeam>> /\ Numbers' = Numbers
  BY FitsInv DEF Forget, Unlisted, Numbers, ListsInv, MapsInv
<1>2. k2.pc = "stale"
  BY <1>1 DEF Hook
<1>3. Removes(k) /\ k.pac \in Numbers
  BY <1>1 DEF Fits, Places, Hook, Ops, Removes
<1>4. c \in Conns
  BY <1>3, RecordTyped DEF ListsInv, MapsInv
<1> HIDE DEF k2, c, p
<1>5. \A d \in Conns : listeners'[d] = (IF d = c THEN 0 ELSE listeners[d])
  BY <1>1, <1>4 DEF ListsInv, MapsInv, HooksInv, TypeOK
<1>6. \A m \in calls : Removes(m) => m = k
  BY <1>3 DEF ListsInv, MapsInv, HooksInv, Lock
<1>7. RemovalInv'
  <2>1. \A m \in calls' : ~Removes(m)
    BY <1>1, <1>2, <1>6 DEF Goes, Removes
  <2> QED BY <2>1 DEF RemovalInv, Removes
<1>8. SameSteps
  BY <1>1, <1>2 DEF SameSteps, Noting, Dropping, Goes
<1>9. harmed \subseteq harmed'
  BY <1>1
<1>10. ListedInv'
  <2> SUFFICES ASSUME NEW d \in Conns, listeners'[d] # 0, NEW t \in Teams, NEW q, q = listeners'[d]
               PROVE  <<q, t>> \in harmed' \/ Agrees(q, t)'
      BY DEF ListedInv
  <2>1. d # c /\ q = listeners[d] /\ q # 0 /\ q \in Numbers
    BY <1>5, MapTyped DEF ListsInv
  <2>2. ~Doomed(d)
    BY <1>6, <2>1 DEF Doomed, c
  <2>3. <<q, t>> \in harmed \/ Agrees(q, t)
    BY <2>1, <2>2 DEF ListsInv, ListedInv
  <2>4. Agrees(q, t) => Agrees(q, t)'
    BY <1>1, <1>8, <2>1 DEF Agrees, SameSteps
  <2> QED BY <1>9, <2>3, <2>4
<1>11. UnlistedInv'
  <2> SUFFICES ASSUME NEW q \in Numbers, listeners'[pacs[q].conn] # q, NEW t \in Teams,
                      q \in byTeam[t]
               PROVE  <<q, t>> \in harmed'
      BY <1>1 DEF UnlistedInv
  <2>1. pacs[q].conn \in Conns
    BY RecordTyped DEF ListsInv, MapsInv
  <2>2. CASE listeners[pacs[q].conn] # q
    BY <1>9, <2>2 DEF ListsInv, UnlistedInv
  <2>3. CASE listeners[pacs[q].conn] = q
    <3>1. pacs[q].conn = c /\ q = p /\ p # 0
      <4>1. 0 \notin Numbers
        BY DEF ListsInv, MapsInv, HooksInv, TypeOK, Numbers
      <4> QED BY <1>5, <2>1, <2>3, <4>1 DEF p
    <3>2. CASE p # k.pac \/ pacs[p].state = "active"
      BY <1>1, <3>1, <3>2
    <3>3. CASE p = k.pac /\ pacs[p].state # "active"
      <4>1. ~Doomed(c)
        BY <1>6, <3>3 DEF Doomed, p
      <4>2. <<p, t>> \in harmed \/ Agrees(p, t)
        BY <1>4, <3>1, <4>1 DEF ListsInv, ListedInv, p
      <4>3. ~Noting(p, t)
        BY <3>1, <3>3, NotesActive DEF ListsInv
      <4>4. t \notin pacs[p].teams
        BY <1>1, <1>3, <1>4, <3>1, <3>3, <4>1 DEF ListsInv, RemovalInv, Remaining, c, p
      <4>5. ~Agrees(p, t)
        BY <3>1, <4>3, <4>4 DEF Agrees
      <4> QED BY <1>9, <3>1, <4>2, <4>5
    <3> QED BY <3>2, <3>3
  <2> QED BY <2>2, <2>3
<1> QED BY <1>7, <1>10, <1>11

\* A step of a hook on a list or on a record leaves the other hooks on them
\* where they are.
LEMMA OtherHooks ==
    ASSUME MapsInv, NEW p \in Numbers, NEW t \in Teams, listeners[pacs[p].conn] = p,
           ~Doomed(pacs[p].conn),
           NEW k \in calls, k.pac = p,
           \/ k.op \in Messages /\ Own(k)
           \/ Removes(k),
           NEW m \in calls, m.pc \in {"note", "drop"}, m.pac = p
    PROVE  m = k
<1>1. pacs[p].conn \in Conns /\ p # 0
  BY RecordTyped DEF MapsInv, HooksInv, TypeOK, Numbers
<1>2. (m.op \in Messages /\ Own(m)) \/ Removes(m)
  <2>1. m.op \in {"subscribe", "unsubscribe"} \/ (m.op = "connect" /\ m.pc = "drop")
    BY NamesTeam DEF MapsInv
  <2> QED BY <2>1 DEF Own, Removes, Messages
<1>3. Removes(k) /\ Removes(m) => m = k
  BY DEF MapsInv, HooksInv, Lock
<1>4. ASSUME NEW a \in calls, a.op \in Messages, Own(a), a.pac = p
      PROVE  a.conn = pacs[p].conn
  BY <1>4, OwnTyped
<1>5. ASSUME NEW a \in calls, a.op \in Messages, Own(a), a.pac = p,
             NEW b \in calls, Removes(b), b.pac = p
      PROVE  FALSE
  <2>1. a.conn = pacs[p].conn
    BY <1>4, <1>5
  <2> QED BY <1>1, <1>5, <2>1, MessageDooms
<1>6. (k.op \in Messages /\ Own(k)) /\ (m.op \in Messages /\ Own(m)) => m = k
  BY <1>4 DEF MapsInv, HooksInv, OneCall
<1> QED BY <1>2, <1>3, <1>5, <1>6

LEMMA AppendKeepsLists ==
    ASSUME ListsInv, NEW k \in calls, AppendToTeam(k)
    PROVE  ListedInv' /\ UnlistedInv' /\ RemovalInv'
<1> DEFINE k2 == [k EXCEPT !.pc = "note"]
<1>1. /\ k.pc = "append" /\ k.op \in Messages /\ k \in Hook /\ k.team \in Teams
      /\ k.pac \in Numbers
  BY NamesTeam DEF AppendToTeam, ListsInv, MapsInv, Messages
<1>2. /\ Goes(k, k2) /\ byTeam' = [byTeam EXCEPT ![k.team] = @ \cup {k.pac}]
      /\ UNCHANGED <<pacs, listeners, harmed>> /\ Numbers' = Numbers
  BY DEF AppendToTeam, Numbers
<1>3. /\ k2.pc = "note" /\ k2.pac = k.pac /\ k2.team = k.team /\ k2.conn = k.conn
      /\ k2.op = k.op
  BY <1>1 DEF Hook
<1> HIDE DEF k2
<1>4. Own(k) /\ ~Removes(k) /\ ~Removes(k2)
  BY <1>1, <1>3 DEF Own, Removes
<1>5. /\ pacs[k.pac].conn = k.conn /\ k.conn \in Conns /\ listeners[k.conn] \in {0, k.pac}
      /\ pacs[k.pac].state = "active"
  BY <1>1, <1>4, OwnTyped DEF ListsInv, MapsInv, ActiveInv
<1>6. \A c \in Conns : Doomed(c) => Doomed(c)'
  <2>1. DoomsOn
    BY <1>1, <1>2, <1>3, <1>4 DEF DoomsOn, StillActive, Goes
  <2> QED BY <2>1, DoomStays DEF ListsInv
<1>7. \A t \in Teams : byTeam'[t] = (IF t = k.team THEN byTeam[t] \cup {k.pac} ELSE byTeam[t])
  BY <1>2 DEF ListsInv, MapsInv, HooksInv, TypeOK
<1>8. \A p \in Numbers, t \in Teams :
         /\ Dropping(p, t)' <=> Dropping(p, t)
         /\ Noting(p, t)' <=> Noting(p, t) \/ (p = k.pac /\ t = k.team)
  BY <1>1, <1>2, <1>3 DEF Dropping, Noting, Goes
<1>9. ListedInv'
  <2> SUFFICES ASSUME NEW c \in Conns, listeners'[c] # 0, NEW t \in Teams, NEW q, q = listeners'[c],
                      ~Doomed(c)
               PROVE  <<q, t>> \in harmed' \/ Agrees(q, t)'
      BY <1>6 DEF ListedInv
  <2>1. q = listeners[c] /\ q # 0 /\ q \in Numbers /\ pacs[q].conn = c
    BY <1>2, MapTyped DEF ListsInv
  <2>2. <<q, t>> \in harmed \/ Agrees(q, t)
    BY <2>1 DEF ListsInv, ListedInv
  <2>3. CASE q = k.pac /\ t = k.team
    <3>1. ~Dropping(q, t)
      <4>1. \A m \in calls : m.pc = "drop" /\ m.pac = q => m = k
        BY <1>1, <1>4, <2>1, <2>3, OtherHooks DEF ListsInv
      <4> QED BY <1>1, <4>1 DEF Dropping
    <3>2. Noting(q, t)' /\ ~Dropping(q, t)' /\ q \in byTeam'[t]
      BY <1>7, <1>8, <2>1, <2>3, <3>1
    <3> QED BY <3>2 DEF Agrees
  <2>4. CASE ~(q = k.pac /\ t = k.team)
    <3>1. /\ Dropping(q, t)' <=> Dropping(q, t)
          /\ Noting(q, t)' <=> Noting(q, t)
          /\ q \in byTeam'[t] <=> q \in byTeam[t]
      BY <1>7, <1>8, <2>1, <2>4
    <3> QED BY <1>2, <2>2, <3>1 DEF Agrees
  <2> QED BY <2>3, <2>4
<1>10. UnlistedInv'
  <2> SUFFICES ASSUME NEW q \in Numbers, listeners[pacs[q].conn] # q, NEW t \in Teams,
                      q \in byTeam'[t]
               PROVE  <<q, t>> \in harmed
      BY <1>2 DEF UnlistedInv
  <2>1. CASE q = k.pac
    BY <1>5, <2>1 DEF ListsInv, MapsInv, ActiveInv
  <2>2. CASE q # k.pac
    BY <1>7, <2>2 DEF ListsInv, UnlistedInv
  <2> QED BY <2>1, <2>2
<1>11. RemovalInv'
  <2>1. \A m \in calls' : Removes(m) => m \in calls
    BY <1>2, <1>4 DEF Goes
  <2> QED BY <1>2, <1>6, <2>1, RemovalStays
<1> QED BY <1>9, <1>10, <1>11

LEMMA NoteKeepsLists ==
    ASSUME ListsInv, NEW k \in calls, NoteTeam(k)
    PROVE  ListedInv' /\ UnlistedInv' /\ RemovalInv'
<1>1. /\ k.pc = "note" /\ k.op \in Messages /\ k \in Hook /\ k.team \in Teams
      /\ k.pac \in Numbers
  BY NamesTeam DEF NoteTeam, ListsInv, MapsInv, Messages
<1>2. /\ Ends(k) /\ UNCHANGED <<listeners, byTeam>>
      /\ harmed' = (IF k.pac \in byTeam[k.team] /\ listeners[k.conn] = k.pac
                    THEN harmed \ {<<k.pac, k.team>>} ELSE harmed)
  BY DEF NoteTeam
<1>3. /\ Numbers' = Numbers
      /\ \A q \in Numbers :
           /\ pacs'[q].conn = pacs[q].conn /\ pacs'[q].state = pacs[q].state
           /\ pacs'[q].teams = (IF q = k.pac THEN pacs[q].teams \cup {k.team} ELSE pacs[q].teams)
  <2> DEFINE x == pacs[k.pac].teams \cup {k.team}
  <2>1. x \in SUBSET Teams
    BY <1>1, RecordTyped DEF ListsInv, MapsInv
  <2>2. pacs' = [pacs EXCEPT ![k.pac].teams = x]
    BY DEF NoteTeam
  <2>3. x = pacs[k.pac].teams \cup {k.team}
    OBVIOUS
  <2> HIDE DEF x
  <2>4. /\ Numbers' = Numbers
        /\ \A q \in Numbers :
             /\ pacs'[q].conn = pacs[q].conn /\ pacs'[q].state = pacs[q].state
             /\ pacs'[q].teams = (IF q = k.pac THEN x ELSE pacs[q].teams)
    BY <1>1, <2>1, <2>2, TeamsChange DEF ListsInv, MapsInv
  <2> QED BY <2>3, <2>4
<1>4. Own(k) /\ ~Removes(k)
  BY <1>1 DEF Own, Removes
<1>5. /\ pacs[k.pac].conn = k.conn /\ k.conn \in Conns /\ listeners[k.conn] \in {0, k.pac}
  BY <1>1, <1>4, OwnTyped DEF ListsInv
<1>6. \A c \in Conns : Doomed(c) => Doomed(c)'
  <2>1. DoomsOn
    BY <1>1, <1>2, <1>3, <1>4, MapTyped DEF DoomsOn, StillActive, Ends, ListsInv
  <2> QED BY <2>1, DoomStays DEF ListsInv
<1>7. \A p \in Numbers, t \in Teams :
         /\ Dropping(p, t)' <=> Dropping(p, t)
         /\ ~(p = k.pac /\ t = k.team) => (Noting(p, t)' <=> Noting(p, t))
  BY <1>1, <1>2 DEF Dropping, Noting, Ends
<1>8. ListedInv'
  <2> SUFFICES ASSUME NEW c \in Conns, listeners'[c] # 0, NEW t \in Teams, NEW q, q = listeners'[c],
                      ~Doomed(c)
               PROVE  <<q, t>> \in harmed' \/ Agrees(q, t)'
      BY <1>6 DEF ListedInv
  <2>1. q = listeners[c] /\ q # 0 /\ q \in Numbers /\ pacs[q].conn = c
    BY <1>2, MapTyped DEF ListsInv
  <2>2. <<q, t>> \in harmed \/ Agrees(q, t)
    BY <2>1 DEF ListsInv, ListedInv
  <2>3. CASE q = k.pac /\ t = k.team
    <3>1. \A m \in calls : m.pc \in {"note", "drop"} /\ m.pac = q => m = k
      BY <1>1, <1>4, <2>1, <2>3, OtherHooks DEF ListsInv
    <3>2. ~Noting(q, t)' /\ ~Dropping(q, t)' /\ Noting(q, t)
      BY <1>1, <1>2, <2>3, <3>1 DEF Noting, Dropping, Ends
    <3>3. t \in pacs'[q].teams
      BY <1>3, <2>1, <2>3
    <3>4. q \notin byTeam[t] => <<q, t>> \in harmed'
      BY <1>2, <2>2, <2>3, <3>2 DEF Agrees
    <3> QED BY <1>2, <3>2, <3>3, <3>4 DEF Agrees
  <2>4. CASE ~(q = k.pac /\ t = k.team)
    <3>1. /\ Dropping(q, t)' <=> Dropping(q, t)
          /\ Noting(q, t)' <=> Noting(q, t)
          /\ t \in pacs'[q].teams <=> t \in pacs[q].teams
      BY <1>3, <1>7, <2>1, <2>4
    <3> QED BY <1>2, <2>2, <2>4, <3>1 DEF Agrees
  <2> QED BY <2>3, <2>4
<1>9. UnlistedInv'
  <2> SUFFICES ASSUME NEW q \in Numbers, listeners[pacs[q].conn] # q, NEW t \in Teams,
                      q \in byTeam[t]
               PROVE  <<q, t>> \in harmed'
      BY <1>2, <1>3 DEF UnlistedInv
  <2>1. <<q, t>> \in harmed
    BY DEF ListsInv, UnlistedInv
  <2> QED BY <1>2, <1>5, <2>1
<1>10. RemovalInv'
  <2>1. \A m \in calls' : Removes(m) => m \in calls
    BY <1>2 DEF Ends
  <2>2. ASSUME NEW c \in Conns, NEW m \in calls, Removes(m), pacs[m.pac].conn = c,
               listeners[c] # 0, ~Doomed(c)
        PROVE  pacs'[m.pac].teams \subseteq pacs[m.pac].teams
    <3>1. m.pac \in Numbers
      BY <2>2, FitsInv DEF ListsInv, MapsInv, Fits, Removes
    <3>2. m.pac # k.pac
      BY <1>1, <1>4, <1>5, <2>2, MessageDooms DEF ListsInv
    <3> QED BY <1>3, <3>1, <3>2
  <2> QED BY <1>2, <1>3, <1>6, <2>1, <2>2, RemovalStays
<1> QED BY <1>8, <1>9, <1>10

LEMMA ReadKeepsLists ==
    ASSUME ListsInv, NEW k \in calls, ReadTeam(k)
    PROVE  ListedInv' /\ UnlistedInv' /\ RemovalInv'
<1>1. SameLists /\ UNCHANGED <<pacs, listeners>> /\ k \in Hook /\ Fits(k)
  BY FitsInv DEF ReadTeam, SameLists, Numbers, ListsInv, MapsInv
<1>2. ASSUME NEW k2, Goes(k, k2), k2.pc = "write", k2.op = k.op, k2.pac = k.pac,
             k.pc \in {"read", "each"},
             k.op = "connect" <=> k.pc = "each",
             k.pc = "each" => Remaining(k2) = k.teams
      PROVE  ListedInv' /\ UnlistedInv' /\ RemovalInv'
  <2>1. Removes(k) <=> Removes(k2)
    BY <1>2 DEF Removes
  <2>2. DoomsOn
    BY <1>1, <1>2, <2>1 DEF DoomsOn, StillActive, Goes, SameLists
  <2>3. \A c \in Conns : Doomed(c) => Doomed(c)'
    BY <2>2, DoomStays DEF ListsInv
  <2>4. SameSteps
    BY <1>2 DEF SameSteps, Noting, Dropping, Goes
  <2>5. RemovalInv'
    <3> SUFFICES ASSUME NEW m \in calls', NEW c \in Conns, Removes(m), pacs[m.pac].conn = c,
                        listeners[c] # 0, ~Doomed(c)
                 PROVE  pacs[m.pac].teams \subseteq Remaining(m)
        BY <1>1, <2>3 DEF RemovalInv, Removes, Remaining
    <3>1. CASE m \in calls
      BY <3>1 DEF ListsInv, RemovalInv
    <3>2. CASE m = k2
      <4>1. Removes(k) /\ k.pc = "each" /\ pacs[k.pac].conn = c
        BY <1>2, <2>1, <3>2 DEF Removes
      <4>2. pacs[k.pac].teams \subseteq Remaining(k)
        BY <4>1 DEF ListsInv, RemovalInv
      <4> QED BY <1>2, <3>2, <4>1, <4>2 DEF Remaining
    <3> QED BY <1>2, <3>1, <3>2 DEF Goes
  <2> QED BY <1>1, <2>3, <2>4, <2>5, AgreeStay
<1>3. CASE k.pc = "read"
  <2> DEFINE k2 == [k EXCEPT !.list = byTeam[k.team], !.pc = "write"]
  <2>1. Goes(k, k2) /\ k2.pc = "write" /\ k2.op = k.op /\ k2.pac = k.pac
    BY <1>1, <1>3 DEF ReadTeam, Hook
  <2>2. k.op # "connect"
    BY <1>1, <1>3 DEF Fits, Places
  <2> HIDE DEF k2
  <2> QED BY <1>2, <1>3, <2>1, <2>2
<1>4. CASE k.pc = "each"
  <2>1. PICK t \in k.teams :
           Goes(k, [k EXCEPT !.list = byTeam[t], !.team = t, !.pc = "write", !.teams = @ \ {t}])
    BY <1>4 DEF ReadTeam
  <2> DEFINE k2 == [k EXCEPT !.list = byTeam[t], !.team = t, !.pc = "write", !.teams = @ \ {t}]
  <2>2. /\ Goes(k, k2) /\ k2.pc = "write" /\ k2.op = k.op /\ k2.pac = k.pac
        /\ k2.teams = k.teams \ {t} /\ k2.team = t
    BY <1>1, <2>1 DEF Hook
  <2>3. k.op = "connect"
    BY <1>1, <1>4 DEF Fits, Places, Hook, Ops
  <2> HIDE DEF k2
  <2>4. Remaining(k2) = k.teams
    BY <2>1, <2>2 DEF Remaining
  <2> QED BY <1>2, <1>4, <2>2, <2>3, <2>4
<1> QED BY <1>3, <1>4 DEF ReadTeam

LEMMA WriteKeepsLists ==
    ASSUME ListsInv, NEW k \in calls, WriteTeam(k)
    PROVE  ListedInv' /\ UnlistedInv' /\ RemovalInv'
<1> DEFINE c == pacs[k.pac].conn
           new == Without(k.list, c)
           due == Without(byTeam[k.team], c)
           k2 == [k EXCEPT !.list = {}, !.pc = "drop"]
<1>1. /\ k.pc = "write" /\ k.op \in {"connect", "unsubscribe"} /\ k \in Hook
      /\ k.team \in Teams /\ k.pac \in Numbers
  BY NamesTeam DEF WriteTeam, ListsInv, MapsInv
<1>2. /\ Goes(k, k2) /\ byTeam' = [byTeam EXCEPT ![k.team] = new]
      /\ harmed' = harmed \cup (((new \ due) \cup (due \ new)) \X {k.team})
      /\ UNCHANGED <<pacs, listeners>> /\ Numbers' = Numbers
  BY DEF WriteTeam, Numbers
<1>3. /\ k2.pc = "drop" /\ k2.pac = k.pac /\ k2.team = k.team /\ k2.conn = k.conn
      /\ k2.op = k.op /\ k2.teams = k.teams
  BY <1>1 DEF Hook
<1>4. c \in Conns /\ \A q : pacs[q].conn = c => q \notin new
  BY <1>1, RecordTyped DEF Without, ListsInv, MapsInv
<1>5. \A q : pacs[q].conn # c => (q \in due <=> q \in byTeam[k.team])
  BY DEF Without
<1>6. c = pacs[k.pac].conn
  OBVIOUS
<1> HIDE DEF k2, c, new, due
<1>7. /\ Removes(k) <=> Removes(k2)
      /\ (k.op \in Messages /\ Own(k)) \/ Removes(k)
  BY <1>1, <1>3 DEF Removes, Own, Messages
<1>8. \A d \in Conns : Doomed(d) => Doomed(d)'
  <2>1. DoomsOn
    BY <1>1, <1>2, <1>3, <1>7 DEF DoomsOn, StillActive, Goes
  <2> QED BY <2>1, DoomStays DEF ListsInv
<1>9. \A t \in Teams : byTeam'[t] = (IF t = k.team THEN new ELSE byTeam[t])
  BY <1>2 DEF ListsInv, MapsInv, HooksInv, TypeOK
<1>10. \A p \in Numbers, t \in Teams :
         /\ Noting(p, t)' <=> Noting(p, t)
         /\ Dropping(p, t)' <=> Dropping(p, t) \/ (p = k.pac /\ t = k.team)
  BY <1>1, <1>2, <1>3 DEF Dropping, Noting, Goes
<1>11. \A q \in Numbers : pacs[q].conn # c /\ <<q, k.team>> \notin harmed'
          => (q \in new <=> q \in byTeam[k.team])
  BY <1>2, <1>5
<1>12. ListedInv'
  <2> SUFFICES ASSUME NEW d \in Conns, listeners'[d] # 0, NEW t \in Teams, NEW q, q = listeners'[d],
                      ~Doomed(d)
               PROVE  <<q, t>> \in harmed' \/ Agrees(q, t)'
      BY <1>8 DEF ListedInv
  <2>1. q = listeners[d] /\ q # 0 /\ q \in Numbers /\ pacs[q].conn = d
    BY <1>2, MapTyped DEF ListsInv
  <2>2. <<q, t>> \in harmed \/ Agrees(q, t)
    BY <2>1 DEF ListsInv, ListedInv
  <2>3. CASE d = c /\ t = k.team
    <3>1. q = k.pac
      <4>1. CASE k.op \in Messages /\ Own(k)
        BY <1>6, <2>1, <2>3, <4>1, OwnTyped DEF ListsInv
      <4>2. CASE Removes(k)
        BY <1>6, <2>1, <2>3, <4>2 DEF Doomed
      <4> QED BY <1>7, <4>1, <4>2
    <3>2. ~Noting(q, t)
      <4>1. \A m \in calls : m.pc = "note" /\ m.pac = q => m = k
        BY <1>7, <2>1, <3>1, OtherHooks DEF ListsInv
      <4> QED BY <1>1, <4>1 DEF Noting
    <3>3. ~Noting(q, t)' /\ Dropping(q, t)' /\ q \notin byTeam'[t]
      BY <1>4, <1>9, <1>10, <2>1, <2>3, <3>1, <3>2
    <3> QED BY <3>3 DEF Agrees
  <2>4. CASE ~(d = c /\ t = k.team)
    <3>1. /\ Dropping(q, t)' <=> Dropping(q, t)
          /\ Noting(q, t)' <=> Noting(q, t)
      BY <1>6, <1>10, <2>1, <2>4
    <3>2. <<q, t>> \in harmed' \/ (q \in byTeam'[t] <=> q \in byTeam[t])
      BY <1>9, <1>11, <2>1, <2>4
    <3>3. <<q, t>> \in harmed => <<q, t>> \in harmed'
      BY <1>2
    <3> QED BY <1>2, <2>2, <3>1, <3>2, <3>3 DEF Agrees
  <2> QED BY <2>3, <2>4
<1>13. UnlistedInv'
  <2> SUFFICES ASSUME NEW q \in Numbers, listeners[pacs[q].conn] # q, NEW t \in Teams,
                      q \in byTeam'[t]
               PROVE  <<q, t>> \in harmed'
      BY <1>2 DEF UnlistedInv
  <2>1. q \in byTeam[t] => <<q, t>> \in harmed
    BY DEF ListsInv, UnlistedInv
  <2>2. <<q, t>> \in harmed => <<q, t>> \in harmed'
    BY <1>2
  <2>3. q \in byTeam[t] \/ <<q, t>> \in harmed'
    BY <1>4, <1>9, <1>11
  <2> QED BY <2>1, <2>2, <2>3
<1>14. RemovalInv'
  <2> SUFFICES ASSUME NEW m \in calls', NEW d \in Conns, Removes(m), pacs[m.pac].conn = d,
                      listeners[d] # 0, ~Doomed(d)
               PROVE  pacs[m.pac].teams \subseteq Remaining(m)
      BY <1>2, <1>8 DEF RemovalInv, Removes, Remaining
  <2>1. CASE m \in calls
    BY <2>1 DEF ListsInv, RemovalInv
  <2>2. CASE m = k2
    <3>1. Removes(k) /\ pacs[k.pac].conn = d
      BY <1>3, <1>7, <2>2
    <3>2. pacs[k.pac].teams \subseteq Remaining(k)
      BY <3>1 DEF ListsInv, RemovalInv
    <3>3. Remaining(k) = Remaining(k2)
      BY <1>1, <1>3 DEF Remaining
    <3> QED BY <1>3, <2>2, <3>2, <3>3
  <2> QED BY <1>2, <2>1, <2>2 DEF Goes
<1> QED BY <1>12, <1>13, <1>14

LEMMA DropKeepsLists ==
    ASSUME ListsInv, NEW k \in calls, DropTeam(k)
    PROVE  ListedInv' /\ UnlistedInv' /\ RemovalInv'
<1> DEFINE k2 == [k EXCEPT !.team = "none", !.pc = "each"]
<1>1. /\ k.pc = "drop" /\ k.op \in {"connect", "unsubscribe"} /\ k \in Hook
      /\ k.team \in Teams /\ k.pac \in Numbers
  BY NamesTeam DEF DropTeam, ListsInv, MapsInv
<1>2. /\ IF k.op = "connect" THEN Goes(k, k2) ELSE Ends(k)
      /\ UNCHANGED <<listeners, byTeam>>
      /\ harmed' = (IF k.pac \notin byTeam[k.team] /\ listeners[k.conn] = k.pac /\ k.op # "connect"
                    THEN harmed \ {<<k.pac, k.team>>} ELSE harmed)
  BY DEF DropTeam
<1>3. /\ k2.pc = "each" /\ k2.pac = k.pac /\ k2.conn = k.conn
      /\ k2.op = k.op /\ k2.teams = k.teams
  BY <1>1 DEF Hook
<1> HIDE DEF k2
<1>4. /\ Numbers' = Numbers
      /\ \A q \in Numbers :
           /\ pacs'[q].conn = pacs[q].conn /\ pacs'[q].state = pacs[q].state
           /\ pacs'[q].teams = (IF q = k.pac THEN pacs[q].teams \ {k.team} ELSE pacs[q].teams)
  <2> DEFINE x == pacs[k.pac].teams \ {k.team}
  <2>1. x \in SUBSET Teams
    BY <1>1, RecordTyped DEF ListsInv, MapsInv
  <2>2. pacs' = [pacs EXCEPT ![k.pac].teams = x]
    BY DEF DropTeam
  <2>3. x = pacs[k.pac].teams \ {k.team}
    OBVIOUS
  <2> HIDE DEF x
  <2>4. /\ Numbers' = Numbers
        /\ \A q \in Numbers :
             /\ pacs'[q].conn = pacs[q].conn /\ pacs'[q].state = pacs[q].state
             /\ pacs'[q].teams = (IF q = k.pac THEN x ELSE pacs[q].teams)
    BY <1>1, <2>1, <2>2, TeamsChange DEF ListsInv, MapsInv
  <2> QED BY <2>3, <2>4
<1>5. (k.op \in Messages /\ Own(k)) \/ Removes(k)
  BY <1>1 DEF Own, Removes, Messages
<1>6. /\ Removes(k) => k.op = "connect" /\ Removes(k2)
      /\ \A m \in calls' : m \in calls \/ (m = k2 /\ k.op = "connect")
      /\ \A m \in calls : m = k \/ m \in calls'
      /\ k \notin calls' /\ (k.op = "connect" => k2 \in calls')
  BY <1>1, <1>2, <1>3 DEF Removes, Goes, Ends
<1>7. \A c \in Conns : Doomed(c) => Doomed(c)'
  <2>1. StillActive
    BY <1>2, <1>4, MapTyped DEF StillActive, ListsInv
  <2>2. DoomsOn
    BY <1>2, <1>3, <1>4, <1>6, <2>1 DEF DoomsOn
  <2> QED BY <2>2, DoomStays DEF ListsInv
<1>8. \A p \in Numbers, t \in Teams :
         /\ Noting(p, t)' <=> Noting(p, t)
         /\ ~(p = k.pac /\ t = k.team) => (Dropping(p, t)' <=> Dropping(p, t))
  BY <1>1, <1>3, <1>6 DEF Dropping, Noting
<1>9. ListedInv'
  <2> SUFFICES ASSUME NEW c \in Conns, listeners'[c] # 0, NEW t \in Teams, NEW q, q = listeners'[c],
                      ~Doomed(c)
               PROVE  <<q, t>> \in harmed' \/ Agrees(q, t)'
      BY <1>7 DEF ListedInv
  <2>1. q = listeners[c] /\ q # 0 /\ q \in Numbers /\ pacs[q].conn = c
    BY <1>2, MapTyped DEF ListsInv
  <2>2. <<q, t>> \in harmed \/ Agrees(q, t)
    BY <2>1 DEF ListsInv, ListedInv
  <2>3. CASE q = k.pac /\ t = k.team
    <3>1. \A m \in calls : m.pc \in {"note", "drop"} /\ m.pac = q => m = k
      BY <1>5, <2>1, <2>3, OtherHooks DEF ListsInv
    <3>2. ~Noting(q, t)' /\ ~Dropping(q, t)' /\ Dropping(q, t)
      BY <1>1, <1>3, <1>6, <2>3, <3>1 DEF Noting, Dropping
    <3>3. t \notin pacs'[q].teams
      BY <1>4, <2>1, <2>3
    <3>4. q \in byTeam[t] => <<q, t>> \in harmed'
      BY <1>2, <2>2, <2>3, <3>2 DEF Agrees
    <3> QED BY <1>2, <3>2, <3>3, <3>4 DEF Agrees
  <2>4. CASE ~(q = k.pac /\ t = k.team)
    <3>1. /\ Dropping(q, t)' <=> Dropping(q, t)
          /\ Noting(q, t)' <=> Noting(q, t)
          /\ t \in pacs'[q].teams <=> t \in pacs[q].teams
      BY <1>4, <1>8, <2>1, <2>4
    <3> QED BY <1>2, <2>2, <2>4, <3>1 DEF Agrees
  <2> QED BY <2>3, <2>4
<1>10. UnlistedInv'
  <2> SUFFICES ASSUME NEW q \in Numbers, listeners[pacs[q].conn] # q, NEW t \in Teams,
                      q \in byTeam[t]
               PROVE  <<q, t>> \in harmed'
      BY <1>2, <1>4 DEF UnlistedInv
  <2>1. <<q, t>> \in harmed
    BY DEF ListsInv, UnlistedInv
  <2>2. k.op # "connect" => pacs[k.pac].conn = k.conn
    BY <1>5, OwnTyped DEF Removes, ListsInv
  <2> QED BY <1>2, <2>1, <2>2
<1>11. RemovalInv'
  <2> SUFFICES ASSUME NEW m \in calls', NEW c \in Conns, Removes(m), pacs'[m.pac].conn = c,
                      listeners[c] # 0, ~Doomed(c)
               PROVE  pacs'[m.pac].teams \subseteq Remaining(m)
      BY <1>2, <1>7 DEF RemovalInv, Removes, Remaining
  <2>1. CASE m \in calls
    <3>1. m.pac \in Numbers
      BY <2>1, FitsInv DEF ListsInv, MapsInv, Fits, Removes
    <3>2. pacs[m.pac].teams \subseteq Remaining(m)
      BY <1>4, <2>1, <3>1 DEF ListsInv, RemovalInv
    <3> QED BY <1>4, <3>1, <3>2
  <2>2. CASE m = k2 /\ k.op = "connect"
    <3>1. Removes(k) /\ pacs[k.pac].conn = c
      BY <1>1, <1>3, <1>4, <2>2 DEF Removes
    <3>2. pacs[k.pac].teams \subseteq Remaining(k)
      BY <3>1 DEF ListsInv, RemovalInv
    <3> QED BY <1>1, <1>3, <1>4, <2>2, <3>2 DEF Remaining
  <2> QED BY <1>6, <2>1, <2>2
<1> QED BY <1>9, <1>10, <1>11

LEMMA StepKeepsLists ==
    ASSUME ListsInv, Overtakes = {}, [Next]_vars
    PROVE  ListsInv'
<1>1. MapsInv'
  BY StepKeepsMaps DEF ListsInv
<1>2. ASSUME NEW k \in calls, Step(k) PROVE ListedInv' /\ UnlistedInv' /\ RemovalInv'
  BY <1>1, <1>2, LookKeepsLists, RegisterKeepsLists, StateKeepsLists, ClearingKeepsLists,
     TakeOutKeepsLists, ForgetKeepsLists, AppendKeepsLists, NoteKeepsLists,
     ReadKeepsLists, WriteKeepsLists, DropKeepsLists DEF Step
<1>3. ASSUME NEW c \in Conns, Open(c) \/ Close(c) \/ Post(c)
      PROVE  ListedInv' /\ UnlistedInv' /\ RemovalInv'
  <2>1. PICK op, t : calls' = calls \cup {Call(c, op, t)}
    BY <1>3 DEF Open, Close, Post
  <2>2. UNCHANGED <<pacs, listeners, byTeam>> /\ harmed \subseteq harmed'
    BY <1>3 DEF Open, Close, Post
  <2>3. calls \subseteq calls' /\ \A m \in calls' : m \in calls \/ m.pc = "look"
    BY <2>1 DEF Call
  <2> QED BY <2>2, <2>3, HostKeepsLists
<1>4. ASSUME NEW c \in Conns, NEW t \in Teams, Watch(c, t)
      PROVE  ListedInv' /\ UnlistedInv' /\ RemovalInv'
  <2>1. /\ UNCHANGED <<pacs, listeners, byTeam>> /\ harmed \subseteq harmed'
        /\ calls' = calls
    BY <1>4 DEF Watch
  <2> QED BY <2>1, HostKeepsLists
<1>5. ASSUME Restart PROVE ListedInv' /\ UnlistedInv' /\ RemovalInv'
  <2>1. pacs' = <<>> /\ listeners' = [c \in Conns |-> 0] /\ calls' = {}
    BY <1>5 DEF Restart
  <2>2. Numbers' = {}
    BY <2>1 DEF Numbers
  <2> QED BY <2>1, <2>2 DEF ListedInv, UnlistedInv, RemovalInv
<1>6. ASSUME UNCHANGED vars PROVE ListedInv' /\ UnlistedInv' /\ RemovalInv'
  <2>1. UNCHANGED <<pacs, listeners, byTeam, harmed, calls>>
    BY <1>6 DEF vars, hooks
  <2> QED BY <2>1, HostKeepsLists
<1>7. ListedInv' /\ UnlistedInv' /\ RemovalInv'
  BY <1>2, <1>3, <1>4, <1>5, <1>6, AgeKeepsLists DEF Next
<1> QED BY <1>1, <1>7 DEF ListsInv

LEMMA InitLists == Init => ListsInv
<1> SUFFICES ASSUME Init PROVE ListsInv
    OBVIOUS
<1>1. Numbers = {}
  BY DEF Init, Numbers
<1> QED BY <1>1, InitMaps DEF Init, ListsInv, ListedInv, UnlistedInv, RemovalInv

LEMMA ListsAgree == ListsInv => IndexesAgree
<1> SUFFICES ASSUME ListsInv, Quiet PROVE IndexesAgree
    BY DEF IndexesAgree
<1>1. calls = {}
  BY DEF Quiet
<1>2. \A p \in Numbers, t \in Teams : <<p, t>> \notin harmed =>
        (p \in byTeam[t]) = (listeners[pacs[p].conn] = p /\ t \in pacs[p].teams)
  <2> SUFFICES ASSUME NEW p \in Numbers, NEW t \in Teams, <<p, t>> \notin harmed
               PROVE  (p \in byTeam[t]) = (listeners[pacs[p].conn] = p /\ t \in pacs[p].teams)
      OBVIOUS
  <2>1. CASE listeners[pacs[p].conn] # p
    BY <2>1 DEF ListsInv, UnlistedInv
  <2>2. CASE listeners[pacs[p].conn] = p
    <3>1. pacs[p].conn \in Conns /\ p # 0
      BY RecordTyped DEF ListsInv, MapsInv, HooksInv, TypeOK, Numbers
    <3>2. Agrees(p, t)
      BY <1>1, <2>2, <3>1 DEF ListsInv, ListedInv, Doomed
    <3> QED BY <1>1, <2>2, <3>2 DEF Agrees, Noting, Dropping
  <2> QED BY <2>1, <2>2
<1> QED BY <1>2 DEF IndexesAgree, ListsInv, MapsInv, UsersInv

-----------------------------------------------------------------------------
(* What the pages watch, while the hooks run.                              *)

\* The step of a hook leaves one hook in its place, of the same connection and
\* about the same, or none.
Likes(k) ==
    /\ \A m \in calls : m = k \/ m \in calls'
    /\ \A m \in calls' : m \in calls \/ (/\ m.conn = k.conn /\ m.op = k.op
                                         /\ k.op \in Messages => m.team = k.team)

LEMMA GoesLikes ==
    ASSUME NEW k \in calls, NEW k2, Goes(k, k2), k2.conn = k.conn, k2.op = k.op,
           k.op \in Messages => k2.team = k.team
    PROVE  /\ Likes(k)
           /\ k.op \in Messages =>
                \A c \in Conns, t \in Teams : Spoken(c, t) => Spoken(c, t)'
<1>1. Likes(k)
  BY DEF Goes, Likes
<1>2. ASSUME k.op \in Messages, NEW c \in Conns, NEW t \in Teams, Spoken(c, t)
      PROVE  Spoken(c, t)'
  <2>1. PICK m \in calls : m.conn = c /\ m.op \in Messages /\ m.team = t
    BY <1>2 DEF Spoken
  <2>2. CASE m = k
    <3>1. k2 \in calls' /\ k2.conn = c /\ k2.op \in Messages /\ k2.team = t
      BY <1>2, <2>1, <2>2 DEF Goes
    <3> QED BY <3>1 DEF Spoken
  <2>3. CASE m # k
    BY <2>1, <2>3 DEF Goes, Spoken
  <2> QED BY <2>2, <2>3
<1> QED BY <1>1, <1>2

LEMMA SpeechStays ==
    ASSUME SpeechInv, NEW k \in calls, Likes(k), UNCHANGED <<mail, watches>>
    PROVE  SpeechInv'
<1>1. \A c \in Conns, t \in Teams : Written(c, t) <=> Written(c, t)'
  BY DEF Written
<1>2. SaidInv'
  <2> SUFFICES ASSUME NEW c \in Conns, NEW t \in Teams
               PROVE  /\ Written(c, t)' =>
                           \E i \in 1..Len(mail'[c]) :
                             SaidLast(c, t, i)' /\ (mail'[c][i][1] = "subscribe" <=> t \in watches'[c])
                      /\ \A m \in calls' : m.conn = c /\ m.op \in Messages /\ m.team = t
                           /\ ~Written(c, t)'
                             => (m.op = "subscribe" <=> t \in watches'[c])
      BY DEF SaidInv
  <2>1. \A m \in calls' : \E n \in calls : n.conn = m.conn /\ n.op = m.op
                            /\ (m.op \in Messages => m.team = n.team)
    BY DEF Likes
  <2>2. \A m \in calls : m.conn = c /\ m.op \in Messages /\ m.team = t /\ ~Written(c, t)
                             => (m.op = "subscribe" <=> t \in watches[c])
    BY DEF SpeechInv, SaidInv
  <2>3. \A m \in calls' : m.conn = c /\ m.op \in Messages /\ m.team = t /\ ~Written(c, t)'
                             => (m.op = "subscribe" <=> t \in watches'[c])
    BY <1>1, <2>1, <2>2
  <2>4. Written(c, t) =>
          \E i \in 1..Len(mail[c]) :
             SaidLast(c, t, i) /\ (mail[c][i][1] = "subscribe" <=> t \in watches[c])
    BY DEF SpeechInv, SaidInv
  <2> QED BY <1>1, <2>3, <2>4 DEF SaidLast
<1>3. AgainInv'
  BY <1>1 DEF SpeechInv, AgainInv, Likes, Written
<1> QED BY <1>2, <1>3 DEF SpeechInv

\* The steps of a hook that take no team from a record, end no message and no
\* removal.
TalkStep ==
    /\ UNCHANGED <<listeners, host>>
    /\ Numbers' = Numbers
    /\ \A p \in Numbers : pacs'[p].conn = pacs[p].conn /\ pacs'[p].teams = pacs[p].teams
    /\ harmed \subseteq harmed'
    /\ \A c \in Conns, t \in Teams : Spoken(c, t) => Spoken(c, t)'
    /\ \A m \in calls : Removes(m) => \E n \in calls' : Removes(n) /\ n.pac = m.pac

LEMMA TalkStays ==
    ASSUME WatchInv, TalkStep
    PROVE  HasInv' /\ WatchedInv'
<1>1. UNCHANGED <<listeners, isOpen, watches, mail, unheard>>
  BY DEF TalkStep, host
<1>2. \A c \in Conns : listeners[c] # 0 => listeners[c] \in Numbers
  BY MapTyped DEF WatchInv, ListsInv
<1>3. \A c \in Conns, t \in Teams : Pending(c, t) => Pending(c, t)'
  BY <1>1 DEF TalkStep, Pending, Written
<1>4. \A c \in Conns, t \in Teams : Harmed(c, t) => Harmed(c, t)'
  BY DEF TalkStep, Harmed, Records
<1>5. \A c \in Conns : Removed(c) => Removed(c)'
  <2>1. \A m \in calls : Removes(m) => m.pac \in Numbers
    BY FitsInv DEF WatchInv, ListsInv, MapsInv, Fits, Removes
  <2> QED BY <1>1, <2>1 DEF TalkStep, Removed, Removes
<1>6. \A c \in Conns : watches[c] \subseteq Teams /\ (listeners[c] # 0 => pacs[listeners[c]].teams \subseteq Teams)
  BY <1>2, RecordTyped DEF WatchInv, ListsInv, MapsInv, HooksInv, TypeOK
<1>7. HasInv'
  <2> SUFFICES ASSUME NEW c \in Conns, listeners[c] # 0, NEW t \in pacs'[listeners[c]].teams
               PROVE  Pending(c, t)' \/ t \in watches'[c] \/ <<listeners'[c], t>> \in harmed'
      BY <1>1 DEF HasInv
  <2>1. t \in pacs[listeners[c]].teams /\ t \in Teams
    BY <1>2, <1>6 DEF TalkStep
  <2> QED BY <1>1, <1>3, <2>1 DEF WatchInv, HasInv, TalkStep
<1>8. WatchedInv'
  <2> SUFFICES ASSUME NEW c \in Conns, isOpen[c], NEW t \in watches[c]
               PROVE  \/ Pending(c, t)' \/ <<c, t>> \in unheard' \/ Harmed(c, t)' \/ Removed(c)'
                      \/ listeners'[c] # 0 /\ t \in pacs'[listeners'[c]].teams
      BY <1>1 DEF WatchedInv
  <2>1. t \in Teams
    BY <1>6
  <2>2. \/ Pending(c, t) \/ <<c, t>> \in unheard \/ Harmed(c, t) \/ Removed(c)
        \/ listeners[c] # 0 /\ t \in pacs[listeners[c]].teams
    BY DEF WatchInv, WatchedInv
  <2> QED BY <1>1, <1>2, <1>3, <1>4, <1>5, <2>1, <2>2 DEF TalkStep
<1> QED BY <1>7, <1>8

\* A hook goes on, if it removes a record with the same one.
LEMMA GoesTalks ==
    ASSUME NEW k \in calls, NEW k2, Goes(k, k2), k2.conn = k.conn, k2.op = k.op,
           k.op \in Messages => k2.team = k.team,
           Removes(k) => Removes(k2) /\ k2.pac = k.pac,
           UNCHANGED <<listeners, host>>, Numbers' = Numbers, harmed \subseteq harmed',
           \A p \in Numbers : pacs'[p].conn = pacs[p].conn /\ pacs'[p].teams = pacs[p].teams
    PROVE  Likes(k) /\ TalkStep
<1>1. ASSUME NEW c \in Conns, NEW t \in Teams, Spoken(c, t) PROVE Spoken(c, t)'
  <2>1. CASE k.op \in Messages
    BY <1>1, <2>1, GoesLikes
  <2>2. CASE k.op \notin Messages
    <3>1. \A m \in calls : m.op \in Messages => m \in calls'
      BY <2>2 DEF Goes
    <3> QED BY <1>1, <3>1 DEF Spoken
  <2> QED BY <2>1, <2>2
<1>2. \A m \in calls : Removes(m) => \E n \in calls' : Removes(n) /\ n.pac = m.pac
  <2>1. k2 \in calls' /\ \A m \in calls : m = k \/ m \in calls'
    BY DEF Goes
  <2> QED BY <2>1
<1> QED BY <1>1, <1>2, GoesLikes DEF TalkStep

\* A hook that is no message returns.
LEMMA EndsTalks ==
    ASSUME NEW k \in calls, Ends(k), k.op \notin Messages, ~Removes(k),
           UNCHANGED <<listeners, host>>, Numbers' = Numbers, harmed \subseteq harmed',
           \A p \in Numbers : pacs'[p].conn = pacs[p].conn /\ pacs'[p].teams = pacs[p].teams
    PROVE  Likes(k) /\ TalkStep
<1>1. ASSUME NEW c \in Conns, NEW t \in Teams, Spoken(c, t) PROVE Spoken(c, t)'
  <2>1. \A m \in calls : m.op \in Messages => m \in calls'
    BY DEF Ends
  <2> QED BY <1>1, <2>1 DEF Spoken
<1>2. \A m \in calls : Removes(m) => \E n \in calls' : Removes(n) /\ n.pac = m.pac
  <2>1. \A m \in calls : m = k \/ m \in calls'
    BY DEF Ends
  <2> QED BY <2>1
<1>3. Likes(k)
  BY DEF Likes, Ends
<1> QED BY <1>1, <1>2, <1>3 DEF TalkStep

LEMMA ClearingTalks ==
    ASSUME HooksInv, NEW k \in calls,
           Look(k) \/ Others(k) \/ Stale(k) \/ Expiry(k) \/ TakeOut(k)
    PROVE  Likes(k) /\ TalkStep
<1>1. /\ k \in Hook /\ Fits(k) /\ k.op \in Ops
      /\ k.pc \in {"look", "others", "stale", "expiry", "remove"}
      /\ UNCHANGED <<pacs, listeners, harmed, host>>
  BY FitsInv DEF Look, Others, Stale, Expiry, TakeOut, Hook
<1>2. ASSUME NEW k2, Goes(k, k2), k2.conn = k.conn, k2.op = k.op, k2.team = k.team
      PROVE  Likes(k) /\ TalkStep
  <2>1. ~Removes(k)
    BY <1>1 DEF Removes
  <2> QED BY <1>1, <1>2, <2>1, GoesTalks DEF Numbers
<1>3. ASSUME Ends(k), k.pc # "look" \/ k.op = "disconnect" PROVE Likes(k) /\ TalkStep
  <2>1. k.op \notin Messages /\ ~Removes(k)
    BY <1>1, <1>3 DEF Removes, Fits, Places, Messages, Ops
  <2> QED BY <1>1, <1>3, <2>1, EndsTalks DEF Numbers
<1>4. CASE Look(k)
  <2>1. ASSUME NEW p, NEW pc, Goes(k, [k EXCEPT !.pac = p, !.pc = pc])
        PROVE  Likes(k) /\ TalkStep
    <3> DEFINE k2 == [k EXCEPT !.pac = p, !.pc = pc]
    <3>1. Goes(k, k2) /\ k2.conn = k.conn /\ k2.op = k.op /\ k2.team = k.team
      BY <1>1, <2>1 DEF Hook
    <3> HIDE DEF k2
    <3> QED BY <1>2, <3>1
  <2>2. ASSUME Goes(k, [k EXCEPT !.pc = "register"])
        PROVE  Likes(k) /\ TalkStep
    <3> DEFINE k2 == [k EXCEPT !.pc = "register"]
    <3>1. Goes(k, k2) /\ k2.conn = k.conn /\ k2.op = k.op /\ k2.team = k.team
      BY <1>1, <2>2 DEF Hook
    <3> HIDE DEF k2
    <3> QED BY <1>2, <3>1
  <2> QED BY <1>3, <1>4, <2>1, <2>2 DEF Look
<1>5. CASE Others(k)
  <2> DEFINE k2 == [k EXCEPT !.left = byUser[UserOf[k.conn]], !.pc = "stale"]
  <2>1. Goes(k, k2) /\ k2.conn = k.conn /\ k2.op = k.op /\ k2.team = k.team
    BY <1>1, <1>5 DEF Others, Hook
  <2> HIDE DEF k2
  <2> QED BY <1>2, <2>1
<1>6. CASE Stale(k)
  <2>1. ASSUME NEW p \in k.left, NEW pc \in {"stale", "expiry"},
               Goes(k, [k EXCEPT !.left = @ \ {p}, !.pac = p, !.pc = pc])
        PROVE  Likes(k) /\ TalkStep
    <3> DEFINE k2 == [k EXCEPT !.left = @ \ {p}, !.pac = p, !.pc = pc]
    <3>1. Goes(k, k2) /\ k2.conn = k.conn /\ k2.op = k.op /\ k2.team = k.team
      BY <1>1, <2>1 DEF Hook
    <3> HIDE DEF k2
    <3> QED BY <1>2, <3>1
  <2> QED BY <1>3, <1>6, <2>1 DEF Stale
<1>7. CASE Expiry(k)
  <2> DEFINE k2 == [k EXCEPT !.pc = IF pacs[k.pac].state = "inactive" THEN "stale" ELSE "remove"]
  <2>1. Goes(k, k2) /\ k2.conn = k.conn /\ k2.op = k.op /\ k2.team = k.team
    BY <1>1, <1>7 DEF Expiry, Hook
  <2> HIDE DEF k2
  <2> QED BY <1>2, <2>1
<1>8. CASE TakeOut(k)
  <2> DEFINE k2 == [k EXCEPT !.teams = pacs[k.pac].teams, !.pc = "each"]
  <2>1. Goes(k, k2) /\ k2.conn = k.conn /\ k2.op = k.op /\ k2.team = k.team
    BY <1>1, <1>8 DEF TakeOut, Hook
  <2> HIDE DEF k2
  <2> QED BY <1>2, <2>1
<1> QED BY <1>4, <1>5, <1>6, <1>7, <1>8

LEMMA StateTalks ==
    ASSUME HooksInv, NEW k \in calls, Revive(k) \/ Mark(k)
    PROVE  Likes(k) /\ TalkStep
<1>1. /\ k.pc \in {"revive", "mark"} /\ Ends(k) /\ k \in Hook /\ Fits(k)
      /\ UNCHANGED <<listeners, host>> /\ harmed \subseteq harmed'
  BY FitsInv DEF Revive, Mark
<1>2. k.pac \in Numbers /\ k.op \notin Messages /\ ~Removes(k)
  BY <1>1 DEF Fits, Places, Messages, Removes
<1>3. PICK x \in {"active", "inactive"} : pacs' = [pacs EXCEPT ![k.pac].state = x]
  BY DEF Revive, Mark
<1> x \in {"active", "inactive", "expired"} /\ pacs' = [pacs EXCEPT ![k.pac].state = x]
  BY <1>3
<1>4. /\ Numbers' = Numbers
      /\ \A q \in Numbers : pacs'[q].conn = pacs[q].conn /\ pacs'[q].teams = pacs[q].teams
  BY <1>2, StateChanges
<1> QED BY <1>1, <1>2, <1>4, EndsTalks

LEMMA ListTalks ==
    ASSUME HooksInv, NEW k \in calls, AppendToTeam(k) \/ ReadTeam(k) \/ WriteTeam(k)
    PROVE  Likes(k) /\ TalkStep
<1>1. /\ k \in Hook /\ Fits(k) /\ k.pc \in {"append", "read", "each", "write"}
      /\ UNCHANGED <<pacs, listeners, host>> /\ harmed \subseteq harmed'
  BY FitsInv DEF AppendToTeam, ReadTeam, WriteTeam
<1>2. ASSUME NEW k2, Goes(k, k2), k2.conn = k.conn, k2.op = k.op, k2.pac = k.pac,
             k.op \in Messages => k2.team = k.team, k2.pc \in {"note", "write", "drop"},
             k.pc \in {"each", "write"} => k2.pc \in {"write", "drop"}
      PROVE  Likes(k) /\ TalkStep
  <2>1. Removes(k) => Removes(k2)
    BY <1>1, <1>2 DEF Removes
  <2> QED BY <1>1, <1>2, <2>1, GoesTalks DEF Numbers
<1>3. CASE AppendToTeam(k)
  <2> DEFINE k2 == [k EXCEPT !.pc = "note"]
  <2>1. /\ Goes(k, k2) /\ k2.conn = k.conn /\ k2.op = k.op /\ k2.team = k.team
        /\ k2.pac = k.pac /\ k2.pc = "note" /\ k.pc = "append"
    BY <1>1, <1>3 DEF AppendToTeam, Hook
  <2> HIDE DEF k2
  <2> QED BY <1>2, <2>1
<1>4. CASE ReadTeam(k) /\ k.pc = "read"
  <2> DEFINE k2 == [k EXCEPT !.list = byTeam[k.team], !.pc = "write"]
  <2>1. /\ Goes(k, k2) /\ k2.conn = k.conn /\ k2.op = k.op /\ k2.team = k.team
        /\ k2.pac = k.pac /\ k2.pc = "write"
    BY <1>1, <1>4 DEF ReadTeam, Hook
  <2> HIDE DEF k2
  <2> QED BY <1>2, <1>4, <2>1
<1>5. CASE ReadTeam(k) /\ k.pc = "each"
  <2>1. PICK t \in k.teams :
           Goes(k, [k EXCEPT !.list = byTeam[t], !.team = t, !.pc = "write", !.teams = @ \ {t}])
    BY <1>5 DEF ReadTeam
  <2> DEFINE k2 == [k EXCEPT !.list = byTeam[t], !.team = t, !.pc = "write", !.teams = @ \ {t}]
  <2>2. /\ Goes(k, k2) /\ k2.conn = k.conn /\ k2.op = k.op
        /\ k2.pac = k.pac /\ k2.pc = "write"
    BY <1>1, <2>1 DEF Hook
  <2>3. k.op \notin Messages
    BY <1>1, <1>5 DEF Fits, Places, Messages
  <2> HIDE DEF k2
  <2> QED BY <1>2, <1>5, <2>2, <2>3
<1>6. CASE WriteTeam(k)
  <2> DEFINE k2 == [k EXCEPT !.list = {}, !.pc = "drop"]
  <2>1. /\ Goes(k, k2) /\ k2.conn = k.conn /\ k2.op = k.op /\ k2.team = k.team
        /\ k2.pac = k.pac /\ k2.pc = "drop"
    BY <1>1, <1>6 DEF WriteTeam, Hook
  <2> HIDE DEF k2
  <2> QED BY <1>2, <2>1
<1> QED BY <1>3, <1>4, <1>5, <1>6 DEF ReadTeam

\* A message hook returns: of its team, all that was said is done, or another
\* message says it again.
LEMMA MessageEnds ==
    ASSUME WatchInv, NEW k \in calls, Ends(k), k.op \in Messages, Own(k), k.team \in Teams,
           UNCHANGED <<listeners, host>>, Numbers' = Numbers,
           \A p \in Numbers : pacs'[p].conn = pacs[p].conn,
           \A p \in Numbers : p # k.pac => pacs'[p].teams = pacs[p].teams,
           \A t \in Teams : t # k.team => (t \in pacs'[k.pac].teams <=> t \in pacs[k.pac].teams),
           \A p, t : <<p, t>> \in harmed => <<p, t>> \in harmed' \/ (p = k.pac /\ t = k.team),
           k.op = "unsubscribe" => k.team \notin pacs'[k.pac].teams,
           k.op = "subscribe" => /\ k.team \in pacs'[k.pac].teams
                                 /\ listeners[k.conn] = 0 => <<k.pac, k.team>> \in harmed',
           pacs'[k.pac].teams \subseteq Teams
    PROVE  Likes(k) /\ HasInv' /\ WatchedInv'
<1>1. UNCHANGED <<listeners, isOpen, watches, mail, unheard>>
  BY DEF host
<1>2. /\ k.pac \in Numbers /\ pacs[k.pac].conn = k.conn /\ k.conn \in Conns
      /\ listeners[k.conn] \in {0, k.pac}
  BY OwnTyped DEF WatchInv, ListsInv
<1>3. \A c \in Conns : listeners[c] # 0 => listeners[c] \in Numbers /\ pacs[listeners[c]].conn = c
  BY MapTyped DEF WatchInv, ListsInv
<1>4. \A p \in Numbers : pacs[p].teams \subseteq Teams
  BY RecordTyped DEF WatchInv, ListsInv, MapsInv
<1>5. \A c \in Conns, t \in Teams : Written(c, t) <=> Written(c, t)'
  BY <1>1 DEF Written
<1>6. \A c \in Conns, t \in Teams : ~(c = k.conn /\ t = k.team) /\ Pending(c, t) => Pending(c, t)'
  <2>1. \A c \in Conns, t \in Teams : ~(c = k.conn /\ t = k.team) /\ Spoken(c, t) => Spoken(c, t)'
    BY DEF Ends, Spoken
  <2> QED BY <1>5, <2>1 DEF Pending
<1>7. Written(k.conn, k.team) \/ (k.op = "subscribe" <=> k.team \in watches[k.conn])
  BY <1>2 DEF WatchInv, SpeechInv, SaidInv
<1>8. Written(k.conn, k.team) => Pending(k.conn, k.team)'
  <2> DEFINE c == k.conn
             t == k.team
  <2>1. c \in Conns /\ t \in Teams
    BY <1>2
  <2> SUFFICES ASSUME Written(c, t) PROVE Pending(c, t)'
      OBVIOUS
  <2> HIDE DEF c, t
  <2> QED BY <1>5, <2>1 DEF Pending
<1>9. HasInv'
  <2> SUFFICES ASSUME NEW c \in Conns, listeners[c] # 0, NEW t \in pacs'[listeners[c]].teams
               PROVE  Pending(c, t)' \/ t \in watches[c] \/ <<listeners[c], t>> \in harmed'
      BY <1>1 DEF HasInv
  <2>1. t \in Teams
    BY <1>3, <1>4
  <2>2. CASE c = k.conn /\ t = k.team
    <3>1. listeners[c] = k.pac
      BY <1>2, <2>2
    <3>2. k.op = "subscribe"
      BY <2>2, <3>1 DEF Messages
    <3> QED BY <1>7, <1>8, <2>2, <3>2
  <2>3. CASE ~(c = k.conn /\ t = k.team)
    <3>1. ~(listeners[c] = k.pac /\ t = k.team)
      BY <1>2, <1>3, <2>3
    <3>2. t \in pacs[listeners[c]].teams
      BY <1>3, <2>1, <3>1
    <3>3. Pending(c, t) \/ t \in watches[c] \/ <<listeners[c], t>> \in harmed
      BY <3>2 DEF WatchInv, HasInv
    <3> QED BY <1>6, <2>1, <2>3, <3>1, <3>3
  <2> QED BY <2>2, <2>3
<1>10. WatchedInv'
  <2> SUFFICES ASSUME NEW c \in Conns, isOpen[c], NEW t \in watches[c]
               PROVE  \/ Pending(c, t)' \/ <<c, t>> \in unheard \/ Harmed(c, t)' \/ Removed(c)'
                      \/ listeners[c] # 0 /\ t \in pacs'[listeners[c]].teams
      BY <1>1 DEF WatchedInv
  <2>1. t \in Teams
    BY DEF WatchInv, ListsInv, MapsInv, HooksInv, TypeOK
  <2>2. CASE c = k.conn /\ t = k.team
    <3>1. CASE Written(k.conn, k.team)
      BY <1>8, <2>2, <3>1
    <3>2. CASE ~Written(k.conn, k.team)
      <4>1. k.op = "subscribe"
        BY <1>7, <2>2, <3>2
      <4>2. CASE listeners[c] = k.pac
        <5>1. k.pac # 0
          BY <1>2 DEF WatchInv, ListsInv, MapsInv, HooksInv, TypeOK, Numbers
        <5> QED BY <2>2, <4>1, <4>2, <5>1
      <4>3. CASE listeners[c] = 0
        <5>1. <<k.pac, t>> \in harmed' /\ k.pac \in Numbers' /\ pacs'[k.pac].conn = c
          BY <1>2, <2>2, <4>1, <4>3
        <5> QED BY <5>1 DEF Harmed, Records
      <4> QED BY <1>2, <2>2, <4>2, <4>3
    <3> QED BY <3>1, <3>2
  <2>3. CASE ~(c = k.conn /\ t = k.team)
    <3>1. \/ Pending(c, t) \/ <<c, t>> \in unheard \/ Harmed(c, t) \/ Removed(c)
          \/ listeners[c] # 0 /\ t \in pacs[listeners[c]].teams
      BY DEF WatchInv, WatchedInv
    <3>2. Harmed(c, t) => Harmed(c, t)'
      BY <1>2, <2>3 DEF Harmed, Records
    <3>3. Removed(c) => Removed(c)'
      <4>1. \A m \in calls : Removes(m) => m \in calls' /\ m.pac \in Numbers
        BY FitsInv DEF WatchInv, ListsInv, MapsInv, Fits, Removes, Ends, Messages
      <4> QED BY <1>1, <4>1 DEF Removed, Removes
    <3>4. listeners[c] # 0 /\ t \in pacs[listeners[c]].teams => t \in pacs'[listeners[c]].teams
      BY <1>2, <1>3, <2>1, <2>3
    <3> QED BY <1>6, <2>1, <2>3, <3>1, <3>2, <3>3, <3>4
  <2> QED BY <2>2, <2>3
<1> QED BY <1>9, <1>10 DEF Likes, Ends

LEMMA KnownTalks ==
    ASSUME WatchInv, NEW k \in calls, Known(k)
    PROVE  Likes(k) /\ HasInv' /\ WatchedInv'
<1>1. /\ k \in Hook /\ Fits(k) /\ k.pc = "known"
      /\ UNCHANGED <<pacs, listeners, harmed, host>> /\ Numbers' = Numbers
  BY FitsInv DEF Known, WatchInv, ListsInv, MapsInv, Numbers
<1>2. k.op \in Messages /\ ~Removes(k) /\ k.team \in Teams
  BY <1>1 DEF Fits, Places, Messages, Removes, Hook, Ops
<1>3. Own(k)
  BY <1>1, <1>2 DEF Own
<1>4. /\ k.pac \in Numbers /\ pacs[k.pac].conn = k.conn /\ k.conn \in Conns
      /\ listeners[k.conn] \in {0, k.pac} /\ pacs[k.pac].state = "active"
  BY <1>2, <1>3, OwnTyped DEF WatchInv, ListsInv, MapsInv, ActiveInv
<1>5. CASE (k.op = "subscribe") = (k.team \in pacs[k.pac].teams)
  <2>1. Ends(k)
    BY <1>5 DEF Known
  <2>2. k.pac # 0
    BY <1>4 DEF WatchInv, ListsInv, MapsInv, HooksInv, TypeOK, Numbers
  <2>3. listeners[k.conn] = 0 => <<k.pac, k.team>> \in harmed
    BY <1>2, <1>4, <2>2 DEF WatchInv, ListsInv, MapsInv, ActiveInv
  <2>4. pacs[k.pac].teams \subseteq Teams
    BY <1>4, RecordTyped DEF WatchInv, ListsInv, MapsInv
  <2> QED BY <1>1, <1>2, <1>3, <1>5, <2>1, <2>3, <2>4, MessageEnds
<1>6. CASE (k.op = "subscribe") # (k.team \in pacs[k.pac].teams)
  <2> DEFINE k2 == [k EXCEPT !.pc = IF k.op = "subscribe" THEN "append" ELSE "read"]
  <2>1. /\ Goes(k, k2) /\ k2.conn = k.conn /\ k2.op = k.op /\ k2.team = k.team
    BY <1>1, <1>6 DEF Known, Hook
  <2> HIDE DEF k2
  <2>2. Likes(k) /\ TalkStep
    BY <1>1, <1>2, <2>1, GoesTalks
  <2> QED BY <2>2, TalkStays
<1> QED BY <1>5, <1>6

LEMMA NoteTalks ==
    ASSUME WatchInv, NEW k \in calls, NoteTeam(k)
    PROVE  Likes(k) /\ HasInv' /\ WatchedInv'
<1>1. /\ k.pc = "note" /\ k.op = "subscribe" /\ k.op \in Messages /\ k \in Hook
      /\ k.team \in Teams /\ k.pac \in Numbers
  BY NamesTeam DEF NoteTeam, WatchInv, ListsInv, MapsInv, Messages
<1>2. /\ Ends(k) /\ UNCHANGED <<listeners, host>>
      /\ harmed' = (IF k.pac \in byTeam[k.team] /\ listeners[k.conn] = k.pac
                    THEN harmed \ {<<k.pac, k.team>>} ELSE harmed)
  BY DEF NoteTeam
<1> DEFINE x == pacs[k.pac].teams \cup {k.team}
<1>3. x \in SUBSET Teams /\ pacs' = [pacs EXCEPT ![k.pac].teams = x]
  BY <1>1, RecordTyped DEF WatchInv, ListsInv, MapsInv, NoteTeam
<1>4. k.team \in x /\ \A t \in Teams : t # k.team => (t \in x <=> t \in pacs[k.pac].teams)
  OBVIOUS
<1> HIDE DEF x
<1>5. /\ Numbers' = Numbers
      /\ \A q \in Numbers :
           /\ pacs'[q].conn = pacs[q].conn /\ pacs'[q].state = pacs[q].state
           /\ pacs'[q].teams = (IF q = k.pac THEN x ELSE pacs[q].teams)
  BY <1>1, <1>3, TeamsChange DEF WatchInv, ListsInv, MapsInv
<1>6. Own(k)
  BY <1>1 DEF Own
<1>7. k.pac # 0 /\ pacs[k.pac].conn = k.conn /\ pacs[k.pac].state = "active"
  BY <1>1, <1>6, OwnTyped DEF WatchInv, ListsInv, MapsInv, ActiveInv, HooksInv, TypeOK, Numbers
<1>8. listeners[k.conn] = 0 => <<k.pac, k.team>> \in harmed'
  BY <1>1, <1>2, <1>7 DEF WatchInv, ListsInv, MapsInv, ActiveInv
<1>9. \A p, t : <<p, t>> \in harmed => <<p, t>> \in harmed' \/ (p = k.pac /\ t = k.team)
  BY <1>2
<1> QED BY <1>1, <1>2, <1>3, <1>4, <1>5, <1>6, <1>8, <1>9, MessageEnds

LEMMA DropTalks ==
    ASSUME WatchInv, NEW k \in calls, DropTeam(k)
    PROVE  Likes(k) /\ HasInv' /\ WatchedInv'
<1>1. /\ k.pc = "drop" /\ k.op \in {"connect", "unsubscribe"} /\ k \in Hook
      /\ k.team \in Teams /\ k.pac \in Numbers
  BY NamesTeam DEF DropTeam, WatchInv, ListsInv, MapsInv
<1>2. /\ UNCHANGED <<listeners, host>>
      /\ harmed' = (IF k.pac \notin byTeam[k.team] /\ listeners[k.conn] = k.pac /\ k.op # "connect"
                    THEN harmed \ {<<k.pac, k.team>>} ELSE harmed)
  BY DEF DropTeam
<1> DEFINE x == pacs[k.pac].teams \ {k.team}
<1>3. x \in SUBSET Teams /\ pacs' = [pacs EXCEPT ![k.pac].teams = x]
  BY <1>1, RecordTyped DEF WatchInv, ListsInv, MapsInv, DropTeam
<1>4. k.team \notin x /\ \A t \in Teams : t # k.team => (t \in x <=> t \in pacs[k.pac].teams)
  OBVIOUS
<1> HIDE DEF x
<1>5. /\ Numbers' = Numbers
      /\ \A q \in Numbers :
           /\ pacs'[q].conn = pacs[q].conn /\ pacs'[q].state = pacs[q].state
           /\ pacs'[q].teams = (IF q = k.pac THEN x ELSE pacs[q].teams)
  BY <1>1, <1>3, TeamsChange DEF WatchInv, ListsInv, MapsInv
<1>6. CASE k.op = "unsubscribe"
  <2>1. Ends(k) /\ k.op \in Messages
    BY <1>6 DEF DropTeam, Messages
  <2>2. Own(k)
    BY <1>1, <2>1 DEF Own
  <2>3. \A p, t : <<p, t>> \in harmed => <<p, t>> \in harmed' \/ (p = k.pac /\ t = k.team)
    BY <1>2
  <2>4. /\ k.team \notin pacs'[k.pac].teams /\ pacs'[k.pac].teams \subseteq Teams
        /\ \A t \in Teams : t # k.team => (t \in pacs'[k.pac].teams <=> t \in pacs[k.pac].teams)
        /\ \A p \in Numbers : p # k.pac => pacs'[p].teams = pacs[p].teams
    BY <1>1, <1>3, <1>4, <1>5
  <2>5. \A p \in Numbers : pacs'[p].conn = pacs[p].conn
    BY <1>5
  <2>6. k.op # "subscribe" /\ Numbers' = Numbers /\ k.team \in Teams
    BY <1>1, <1>5, <1>6
  <2> QED BY <1>2, <1>6, <2>1, <2>2, <2>3, <2>4, <2>5, <2>6, MessageEnds
<1>7. CASE k.op = "connect"
  <2> DEFINE k2 == [k EXCEPT !.team = "none", !.pc = "each"]
  <2>1. /\ Goes(k, k2) /\ k2.conn = k.conn /\ k2.op = k.op /\ k2.pac = k.pac /\ k2.pc = "each"
        /\ k.op \notin Messages /\ harmed' = harmed
    BY <1>1, <1>2, <1>7 DEF DropTeam, Hook, Messages
  <2> HIDE DEF k2
  <2>2. Likes(k)
    BY <2>1, GoesLikes
  <2>3. \A c \in Conns, t \in Teams : Pending(c, t) => Pending(c, t)'
    <3>1. \A m \in calls : m.op \in Messages => m \in calls'
      BY <2>1 DEF Goes
    <3> QED BY <1>2, <3>1 DEF Pending, Spoken, Written, host
  <2>4. \A c \in Conns : listeners[c] # 0 => listeners[c] \in Numbers /\ pacs[listeners[c]].conn = c
    BY MapTyped DEF WatchInv, ListsInv
  <2>5. \A p \in Numbers : pacs[p].teams \subseteq Teams /\ pacs'[p].teams \subseteq pacs[p].teams
    BY <1>3, <1>4, <1>5, RecordTyped DEF WatchInv, ListsInv, MapsInv
  <2>6. HasInv'
    <3> SUFFICES ASSUME NEW c \in Conns, listeners[c] # 0, NEW t \in pacs'[listeners[c]].teams
                 PROVE  Pending(c, t)' \/ t \in watches[c] \/ <<listeners[c], t>> \in harmed'
        BY <1>2 DEF HasInv, host
    <3>1. t \in pacs[listeners[c]].teams /\ t \in Teams
      BY <2>4, <2>5
    <3> QED BY <2>1, <2>3, <3>1 DEF WatchInv, HasInv
  <2>7. WatchedInv'
    <3> SUFFICES ASSUME NEW c \in Conns, isOpen[c], NEW t \in watches[c]
                 PROVE  \/ Pending(c, t)' \/ <<c, t>> \in unheard \/ Harmed(c, t)' \/ Removed(c)'
                        \/ listeners[c] # 0 /\ t \in pacs'[listeners[c]].teams
        BY <1>2 DEF WatchedInv, host
    <3>1. t \in Teams
      BY DEF WatchInv, ListsInv, MapsInv, HooksInv, TypeOK
    <3>2. \/ Pending(c, t) \/ <<c, t>> \in unheard \/ Harmed(c, t) \/ Removed(c)
          \/ listeners[c] # 0 /\ t \in pacs[listeners[c]].teams
      BY DEF WatchInv, WatchedInv
    <3>3. Harmed(c, t) => Harmed(c, t)'
      BY <1>5, <2>1 DEF Harmed, Records
    <3>4. Removes(k2) /\ Removes(k) /\ k2 \in calls'
      BY <1>1, <1>7, <2>1 DEF Removes, Goes
    <3>5. Removed(c) => Removed(c)'
      <4>1. \A m \in calls : Removes(m) => m.pac \in Numbers /\ m = k
        BY <3>4, FitsInv DEF WatchInv, ListsInv, MapsInv, HooksInv, Lock, Fits, Removes
      <4> QED BY <1>2, <1>5, <2>1, <3>4, <4>1 DEF Removed, Removes
    <3>6. listeners[c] = k.pac /\ listeners[c] # 0 => Removed(c)'
      <4> SUFFICES ASSUME listeners[c] = k.pac, listeners[c] # 0 PROVE Removed(c)'
          OBVIOUS
      <4>1. pacs'[k2.pac].conn = c
        BY <1>1, <1>5, <2>1, <2>4
      <4> QED BY <1>2, <3>4, <4>1 DEF Removed, Removes
    <3>7. listeners[c] # 0 /\ listeners[c] # k.pac => pacs'[listeners[c]].teams = pacs[listeners[c]].teams
      BY <1>5, <2>4
    <3> QED BY <2>3, <3>1, <3>2, <3>3, <3>5, <3>6, <3>7
  <2> QED BY <2>2, <2>6, <2>7
<1> QED BY <1>1, <1>6, <1>7

LEMMA RegisterTalks ==
    ASSUME WatchInv, NEW k \in calls, Register(k)
    PROVE  Likes(k) /\ HasInv' /\ WatchedInv'
<1> DEFINE p == Len(pacs) + 1
           new == [conn |-> k.conn, state |-> "active", teams |-> {}]
           k2 == [k EXCEPT !.pac = p, !.pc = IF k.op = "connect" THEN "others" ELSE "known"]
<1>1. /\ k \in Hook /\ k.conn \in Conns /\ k.pc = "register"
      /\ pacs \in Seq(Client) /\ listeners[k.conn] = 0
  <2>1. k \in Hook /\ k.pc = "register"
    BY FitsInv DEF Register, WatchInv, ListsInv, MapsInv
  <2> QED BY <2>1 DEF Hook, WatchInv, ListsInv, MapsInv, HooksInv, TypeOK, OwnInv
<1>2. /\ pacs' = Append(pacs, new) /\ Goes(k, k2)
      /\ listeners' = [listeners EXCEPT ![k.conn] = p]
      /\ UNCHANGED <<harmed, host>>
  BY DEF Register
<1>3. k2.conn = k.conn /\ k2.op = k.op /\ k2.team = k.team
  BY <1>1 DEF Hook
<1>4. new.teams = {} /\ new \in Client
  BY <1>1 DEF Client
<1> HIDE DEF k2, new
<1>5. /\ pacs'[p] = new /\ Numbers \subseteq Numbers' /\ \A q \in Numbers : pacs'[q] = pacs[q]
  BY <1>1, <1>2, <1>4 DEF Numbers
<1> HIDE DEF p
<1>6. \A c \in Conns : listeners'[c] = (IF c = k.conn THEN p ELSE listeners[c])
  BY <1>1, <1>2 DEF WatchInv, ListsInv, MapsInv, HooksInv, TypeOK
<1>7. Likes(k)
  BY <1>2, <1>3, GoesLikes
<1>8. \A c \in Conns, t \in Teams : Pending(c, t) => Pending(c, t)'
  <2>1. \A c \in Conns, t \in Teams : Spoken(c, t) => Spoken(c, t)'
    <3>1. CASE k.op \in Messages
      BY <1>2, <1>3, <3>1, GoesLikes
    <3>2. CASE k.op \notin Messages
      BY <1>2, <3>2 DEF Goes, Spoken
    <3> QED BY <3>1, <3>2
  <2> QED BY <1>2, <2>1 DEF Pending, Written, host
<1>9. \A c \in Conns : listeners[c] # 0 => listeners[c] \in Numbers /\ pacs[listeners[c]].teams \subseteq Teams
  BY MapTyped, RecordTyped DEF WatchInv, ListsInv, MapsInv
<1>10. \A m \in calls : Removes(m) => m.pac \in Numbers /\ m # k
  BY <1>1, FitsInv DEF WatchInv, ListsInv, MapsInv, Fits, Removes
<1>11. HasInv'
  <2> SUFFICES ASSUME NEW c \in Conns, listeners'[c] # 0, NEW t \in pacs'[listeners'[c]].teams
               PROVE  Pending(c, t)' \/ t \in watches[c] \/ <<listeners'[c], t>> \in harmed
      BY <1>2 DEF HasInv, host
  <2>1. c # k.conn
    BY <1>4, <1>5, <1>6
  <2>2. /\ listeners'[c] = listeners[c] /\ listeners[c] # 0
        /\ t \in pacs[listeners[c]].teams /\ t \in Teams
    BY <1>5, <1>6, <1>9, <2>1
  <2> QED BY <1>8, <2>2 DEF WatchInv, HasInv
<1>12. WatchedInv'
  <2> SUFFICES ASSUME NEW c \in Conns, isOpen[c], NEW t \in watches[c], NEW q, q = listeners'[c]
               PROVE  \/ Pending(c, t)' \/ <<c, t>> \in unheard \/ Harmed(c, t)' \/ Removed(c)'
                      \/ q # 0 /\ t \in pacs'[q].teams
      BY <1>2 DEF WatchedInv, host
  <2>1. t \in Teams
    BY DEF WatchInv, ListsInv, MapsInv, HooksInv, TypeOK
  <2>2. \/ Pending(c, t) \/ <<c, t>> \in unheard \/ Harmed(c, t) \/ Removed(c)
        \/ listeners[c] # 0 /\ t \in pacs[listeners[c]].teams
    BY DEF WatchInv, WatchedInv
  <2>3. Harmed(c, t) => Harmed(c, t)'
    BY <1>2, <1>5 DEF Harmed, Records
  <2>4. Removed(c) => Removed(c)'
    <3> SUFFICES ASSUME Removed(c) PROVE Removed(c)'
        OBVIOUS
    <3>1. PICK m \in calls : Removes(m) /\ pacs[m.pac].conn = c
      BY DEF Removed
    <3>2. m \in calls' /\ pacs'[m.pac].conn = c
      BY <1>2, <1>5, <1>10, <3>1 DEF Goes
    <3>3. listeners'[c] # 0
      BY <1>1, <1>6 DEF Removed
    <3> QED BY <3>1, <3>2, <3>3 DEF Removed, Removes
  <2>5. listeners[c] # 0 /\ t \in pacs[listeners[c]].teams => q # 0 /\ t \in pacs'[q].teams
    BY <1>1, <1>5, <1>6, <1>9
  <2> QED BY <1>8, <2>1, <2>2, <2>3, <2>4, <2>5
<1> QED BY <1>7, <1>11, <1>12

\* A record goes.  If its connection is open and the record is not active, the
\* connection has just opened again and says all its teams.
LEMMA ForgetTalks ==
    ASSUME WatchInv, NEW k \in calls, Forget(k)
    PROVE  Likes(k) /\ HasInv' /\ WatchedInv'
<1> DEFINE c == pacs[k.pac].conn
           p == listeners[c]
           k2 == [k EXCEPT !.pc = "stale"]
<1>1. /\ k \in Hook /\ Fits(k) /\ k.pc = "each" /\ Goes(k, k2)
      /\ listeners' = [listeners EXCEPT ![c] = 0]
      /\ harmed' = (IF p # 0 /\ (p # k.pac \/ pacs[p].state = "active")
                    THEN harmed \cup ({p} \X Teams) ELSE harmed)
      /\ UNCHANGED <<pacs, host>> /\ Numbers' = Numbers
  BY FitsInv DEF Forget, Unlisted, Numbers, WatchInv, ListsInv, MapsInv
<1>2. k2.conn = k.conn /\ k2.op = k.op /\ k2.team = k.team
  BY <1>1 DEF Hook
<1>3. Removes(k) /\ k.pac \in Numbers /\ k.op \notin Messages
  BY <1>1 DEF Fits, Places, Hook, Ops, Removes, Messages
<1>4. c \in Conns
  BY <1>3, RecordTyped DEF WatchInv, ListsInv, MapsInv
<1>5. p # 0 => p \in Numbers /\ pacs[p].conn = c
  BY <1>4, MapTyped DEF WatchInv, ListsInv
<1>6. p # 0 => (pacs[p].state = "active" <=> Expected(c))
  BY <1>4 DEF WatchInv, ListsInv, MapsInv, ActiveInv
<1>7. p = listeners[c] /\ c = pacs[k.pac].conn
  OBVIOUS
<1> HIDE DEF k2, c, p
<1>8. \A d \in Conns : listeners'[d] = (IF d = c THEN 0 ELSE listeners[d])
  BY <1>1, <1>4 DEF WatchInv, ListsInv, MapsInv, HooksInv, TypeOK
<1>9. \A m \in calls : Removes(m) => m = k
  BY <1>3 DEF WatchInv, ListsInv, MapsInv, HooksInv, Lock
<1>10. Likes(k) /\ harmed \subseteq harmed'
  BY <1>1, <1>2, GoesLikes
<1>11. \A d \in Conns, t \in Teams : Pending(d, t) => Pending(d, t)'
  <2>1. \A m \in calls : m.op \in Messages => m \in calls'
    BY <1>1, <1>3 DEF Goes
  <2> QED BY <1>1, <2>1 DEF Pending, Spoken, Written, host
<1>12. HasInv'
  <2> SUFFICES ASSUME NEW d \in Conns, listeners'[d] # 0, NEW t \in pacs[listeners'[d]].teams
               PROVE  Pending(d, t)' \/ t \in watches[d] \/ <<listeners'[d], t>> \in harmed'
      BY <1>1 DEF HasInv, host
  <2>1. listeners'[d] = listeners[d] /\ listeners[d] # 0
    BY <1>8
  <2>2. t \in Teams
    BY <2>1, MapTyped, RecordTyped DEF WatchInv, ListsInv, MapsInv
  <2> QED BY <1>10, <1>11, <2>1, <2>2 DEF WatchInv, HasInv
<1>13. WatchedInv'
  <2> SUFFICES ASSUME NEW d \in Conns, isOpen[d], NEW t \in watches[d]
               PROVE  \/ Pending(d, t)' \/ <<d, t>> \in unheard \/ Harmed(d, t)'
                      \/ listeners'[d] # 0 /\ t \in pacs[listeners'[d]].teams
      BY <1>1 DEF WatchedInv, host
  <2>1. t \in Teams
    BY DEF WatchInv, ListsInv, MapsInv, HooksInv, TypeOK
  <2>2. \/ Pending(d, t) \/ <<d, t>> \in unheard \/ Harmed(d, t) \/ Removed(d)
        \/ listeners[d] # 0 /\ t \in pacs[listeners[d]].teams
    BY DEF WatchInv, WatchedInv
  <2>3. Harmed(d, t) => Harmed(d, t)'
    BY <1>1, <1>10 DEF Harmed, Records
  <2>4. CASE d # c
    <3>1. ~Removed(d)
      BY <1>7, <1>9, <2>4 DEF Removed
    <3> QED BY <1>8, <1>11, <2>1, <2>2, <2>3, <2>4, <3>1
  <2>5. CASE d = c /\ p = 0
    <3>1. listeners[d] = 0
      BY <1>7, <2>5
    <3>2. ~Removed(d)
      BY <3>1 DEF Removed
    <3> QED BY <1>11, <2>1, <2>2, <2>3, <3>1, <3>2
  <2>6. CASE d = c /\ p # 0 /\ (p # k.pac \/ pacs[p].state = "active")
    <3>1. <<p, t>> \in harmed' /\ p \in Numbers' /\ pacs'[p].conn = d
      BY <1>1, <1>5, <2>1, <2>6
    <3> QED BY <3>1 DEF Harmed, Records
  <2>7. CASE d = c /\ p # 0 /\ pacs[p].state # "active"
    <3>1. PICK m \in calls : m.conn = c /\ (m.pc = "revive" \/ m.op = "connect")
      BY <1>6, <2>7 DEF Expected
    <3>2. m.op = "connect"
      <4>1. Fits(m) /\ m \in Hook
        BY FitsInv DEF WatchInv, ListsInv, MapsInv
      <4> QED BY <3>1, <4>1 DEF Fits, Places, Hook, Ops
    <3>3. Written(d, t)
      BY <2>7, <3>1, <3>2 DEF WatchInv, SpeechInv, AgainInv
    <3> QED BY <1>11, <2>1, <3>3 DEF Pending
  <2> QED BY <2>4, <2>5, <2>6, <2>7
<1> QED BY <1>10, <1>12, <1>13

-----------------------------------------------------------------------------
(* ... and while the pages and the connections come and go.                *)

\* The teams of a connection and of a record are teams.
LEMMA TeamsTyped ==
    ASSUME WatchInv
    PROVE  /\ watches \in [Conns -> SUBSET Teams]
           /\ mail \in [Conns -> Seq({"subscribe", "unsubscribe"} \X Teams)]
           /\ isOpen \in [Conns -> BOOLEAN]
           /\ \A c \in Conns : listeners[c] # 0 =>
                /\ listeners[c] \in Numbers /\ pacs[listeners[c]].conn = c
                /\ pacs[listeners[c]].teams \subseteq Teams
BY MapTyped, RecordTyped DEF WatchInv, ListsInv, MapsInv, HooksInv, TypeOK

\* A connection and a team, as the invariants have them.
Sound(c, t) ==
    /\ Written(c, t) =>
         \E i \in 1..Len(mail[c]) :
           SaidLast(c, t, i) /\ (mail[c][i][1] = "subscribe" <=> t \in watches[c])
    /\ \A k \in calls : k.conn = c /\ k.op \in Messages /\ k.team = t /\ ~Written(c, t)
         => (k.op = "subscribe" <=> t \in watches[c])
    /\ \A k \in calls : k.conn = c /\ k.op = "connect" /\ t \in watches[c] => Written(c, t)
    /\ listeners[c] # 0 /\ t \in pacs[listeners[c]].teams =>
         Pending(c, t) \/ t \in watches[c] \/ <<listeners[c], t>> \in harmed
    /\ isOpen[c] /\ t \in watches[c] =>
         \/ Pending(c, t) \/ <<c, t>> \in unheard \/ Harmed(c, t) \/ Removed(c)
         \/ listeners[c] # 0 /\ t \in pacs[listeners[c]].teams

LEMMA SoundNow ==
    ASSUME WatchInv, NEW c \in Conns, NEW t \in Teams
    PROVE  Sound(c, t)
BY DEF WatchInv, SpeechInv, SaidInv, AgainInv, HasInv, WatchedInv, Sound

LEMMA SoundNext ==
    ASSUME ListsInv', \A c \in Conns, t \in Teams : Sound(c, t)'
    PROVE  SpeechInv' /\ HasInv' /\ WatchedInv'
<1>1. \A k \in calls' : k.conn \in Conns
  BY DEF ListsInv, MapsInv, HooksInv, TypeOK, Hook
<1>2. \A c \in Conns : watches'[c] \subseteq Teams
  BY DEF ListsInv, MapsInv, HooksInv, TypeOK
<1>3. \A c \in Conns : listeners'[c] # 0 => pacs'[listeners'[c]].teams \subseteq Teams
  <2> SUFFICES ASSUME NEW c \in Conns, listeners'[c] # 0
               PROVE  pacs'[listeners'[c]].teams \subseteq Teams
      OBVIOUS
  <2>1. listeners'[c] \in DOMAIN pacs' /\ pacs' \in Seq(Client)
    BY DEF ListsInv, MapsInv, HooksInv, TypeOK, Numbers
  <2>2. pacs'[listeners'[c]] \in Client
    BY <2>1
  <2> QED BY <2>2 DEF Client
<1>4. SaidInv'
  BY DEF SaidInv, Sound
<1>5. AgainInv'
  BY <1>1, <1>2 DEF AgainInv, Sound
<1>6. HasInv'
  BY <1>3 DEF HasInv, Sound
<1>7. WatchedInv'
  BY <1>2 DEF WatchedInv, Sound
<1> QED BY <1>4, <1>5, <1>6, <1>7 DEF SpeechInv

\* A connection that is left alone by a step.
ConnSame(c) ==
    /\ mail'[c] = mail[c] /\ watches'[c] = watches[c] /\ isOpen'[c] = isOpen[c]
    /\ \A t \in Teams : <<c, t>> \in unheard => <<c, t>> \in unheard'
    /\ \A m \in calls' : m.conn = c => m \in calls

LEMMA OthersSound ==
    ASSUME WatchInv, UNCHANGED <<pacs, listeners>>, calls \subseteq calls',
           harmed \subseteq harmed', NEW c \in Conns, ConnSame(c), NEW t \in Teams
    PROVE  Sound(c, t)'
<1>1. Written(c, t) <=> Written(c, t)'
  BY DEF Written, ConnSame
<1>2. \A i : SaidLast(c, t, i) <=> SaidLast(c, t, i)'
  BY DEF SaidLast, ConnSame
<1>3. Pending(c, t) => Pending(c, t)'
  BY <1>1 DEF Pending, Spoken
<1>4. Harmed(c, t) => Harmed(c, t)'
  BY DEF Harmed, Records, Numbers
<1>5. Removed(c) => Removed(c)'
  BY DEF Removed, Removes
<1>6. Sound(c, t)
  BY SoundNow
<1>7. Written(c, t)' =>
         \E i \in 1..Len(mail'[c]) :
           SaidLast(c, t, i)' /\ (mail'[c][i][1] = "subscribe" <=> t \in watches'[c])
  BY <1>1, <1>2, <1>6 DEF ConnSame, Sound
<1>8. /\ \A k \in calls' : k.conn = c /\ k.op \in Messages /\ k.team = t /\ ~Written(c, t)'
           => (k.op = "subscribe" <=> t \in watches'[c])
      /\ \A k \in calls' : k.conn = c /\ k.op = "connect" /\ t \in watches'[c] => Written(c, t)'
  BY <1>1, <1>6 DEF ConnSame, Sound
<1>9. /\ listeners'[c] # 0 /\ t \in pacs'[listeners'[c]].teams =>
           Pending(c, t)' \/ t \in watches'[c] \/ <<listeners'[c], t>> \in harmed'
      /\ isOpen'[c] /\ t \in watches'[c] =>
           \/ Pending(c, t)' \/ <<c, t>> \in unheard' \/ Harmed(c, t)' \/ Removed(c)'
           \/ listeners'[c] # 0 /\ t \in pacs'[listeners'[c]].teams
  BY <1>3, <1>4, <1>5, <1>6 DEF ConnSame, Sound
<1> QED BY <1>7, <1>8, <1>9 DEF Sound

LEMMA OpenTalks ==
    ASSUME WatchInv, ListsInv', Overtakes = {}, NEW c \in Conns, Open(c)
    PROVE  SpeechInv' /\ HasInv' /\ WatchedInv'
<1> DEFINE k2 == Call(c, "connect", "none")
           s == Repeated(watches[c])
<1>1. /\ ~isOpen[c] /\ MayStart(c) /\ calls' = calls \cup {k2}
      /\ isOpen' = [isOpen EXCEPT ![c] = TRUE] /\ mail' = [mail EXCEPT ![c] = s]
      /\ unheard' = {ct \in unheard : ct[1] # c}
      /\ UNCHANGED <<pacs, listeners, watches, harmed>>
  BY DEF Open, Repeated
<1>2. k2.conn = c /\ k2.op = "connect"
  BY DEF Call
<1>3. /\ s \in Seq({"subscribe", "unsubscribe"} \X Teams)
      /\ \A i \in 1..Len(s) : s[i][1] = "subscribe" /\ s[i][2] \in watches[c]
      /\ \A t \in watches[c] : \E i \in 1..Len(s) :
           s[i] = <<"subscribe", t>> /\ \A j \in 1..Len(s) : s[j][2] = t => j = i
  BY RepeatedAll, TeamsTyped
<1> HIDE DEF k2, s
<1>4. mail'[c] = s /\ \A d \in Conns : d # c => mail'[d] = mail[d] /\ isOpen'[d] = isOpen[d]
  BY <1>1, TeamsTyped
<1>5. \A k \in calls : k.conn # c
  BY <1>1, NoneRuns
<1>6. mail[c] = <<>>
  BY <1>1 DEF WatchInv, ListsInv, MapsInv, HooksInv, Closed
<1>7. ASSUME NEW d \in Conns, NEW t \in Teams PROVE Sound(d, t)'
  <2>1. CASE d # c
    <3>1. ConnSame(d)
      BY <1>1, <1>2, <1>4, <2>1 DEF ConnSame
    <3> QED BY <1>1, <3>1, OthersSound
  <2>2. CASE d = c
    <3>1. Written(d, t)' <=> t \in watches[d]
      BY <1>3, <1>4, <2>2 DEF Written
    <3>2. Written(d, t)' =>
            \E i \in 1..Len(mail'[d]) :
              SaidLast(d, t, i)' /\ (mail'[d][i][1] = "subscribe" <=> t \in watches'[d])
      <4> SUFFICES ASSUME t \in watches[d]
                   PROVE  \E i \in 1..Len(mail'[d]) :
                            SaidLast(d, t, i)' /\ (mail'[d][i][1] = "subscribe" <=> t \in watches'[d])
          BY <3>1
      <4>1. PICK i \in 1..Len(s) :
              s[i] = <<"subscribe", t>> /\ \A j \in 1..Len(s) : s[j][2] = t => j = i
        BY <1>3, <2>2
      <4>2. \A j \in 1..Len(s) : j > i => s[j][2] # t
        BY <4>1
      <4>3. SaidLast(d, t, i)' /\ mail'[d][i][1] = "subscribe" /\ i \in 1..Len(mail'[d])
        BY <1>4, <2>2, <4>1, <4>2 DEF SaidLast
      <4> QED BY <1>1, <4>3
    <3>3. \A k \in calls' : k.conn = d => k.op = "connect"
      BY <1>1, <1>2, <1>5, <2>2
    <3>4. /\ \A k \in calls' : k.conn = d /\ k.op \in Messages /\ k.team = t /\ ~Written(d, t)'
               => (k.op = "subscribe" <=> t \in watches'[d])
          /\ \A k \in calls' : k.conn = d /\ k.op = "connect" /\ t \in watches'[d] => Written(d, t)'
      BY <1>1, <3>1, <3>3 DEF Messages
    <3>5. ~Pending(d, t)
      BY <1>5, <1>6, <2>2 DEF Pending, Spoken, Written
    <3>6. listeners'[d] # 0 /\ t \in pacs'[listeners'[d]].teams =>
            Pending(d, t)' \/ t \in watches'[d] \/ <<listeners'[d], t>> \in harmed'
      <4>1. Sound(d, t)
        BY SoundNow
      <4> QED BY <1>1, <3>5, <4>1 DEF Sound
    <3>7. t \in watches'[d] => Pending(d, t)'
      BY <1>1, <3>1 DEF Pending
    <3> QED BY <3>2, <3>4, <3>6, <3>7 DEF Sound
  <2> QED BY <2>1, <2>2
<1> QED BY <1>7, SoundNext

LEMMA CloseTalks ==
    ASSUME WatchInv, ListsInv', Overtakes = {}, NEW c \in Conns, Close(c)
    PROVE  SpeechInv' /\ HasInv' /\ WatchedInv'
<1> DEFINE k2 == Call(c, "disconnect", "none")
<1>1. /\ MayStart(c) /\ calls' = calls \cup {k2}
      /\ isOpen' = [isOpen EXCEPT ![c] = FALSE] /\ mail' = [mail EXCEPT ![c] = <<>>]
      /\ harmed' = harmed \cup (Records(c) \X {t \in Teams : <<"unsubscribe", t>> \in Range(mail[c])})
      /\ UNCHANGED <<pacs, listeners, watches, unheard>>
  BY DEF Close
<1>2. k2.conn = c /\ k2.op = "disconnect"
  BY DEF Call
<1> HIDE DEF k2
<1>3. /\ mail'[c] = <<>> /\ isOpen'[c] = FALSE
      /\ \A d \in Conns : d # c => mail'[d] = mail[d] /\ isOpen'[d] = isOpen[d]
  BY <1>1, TeamsTyped
<1>4. \A k \in calls : k.conn # c
  BY <1>1, NoneRuns
<1>5. harmed \subseteq harmed'
  BY <1>1
<1>6. ASSUME NEW d \in Conns, NEW t \in Teams PROVE Sound(d, t)'
  <2>1. CASE d # c
    <3>1. ConnSame(d)
      BY <1>1, <1>2, <1>3, <2>1 DEF ConnSame
    <3> QED BY <1>1, <1>5, <3>1, OthersSound
  <2>2. CASE d = c
    <3>1. ~Written(d, t)'
      BY <1>3, <2>2 DEF Written
    <3>2. \A k \in calls' : k.conn = d => k.op = "disconnect"
      BY <1>1, <1>2, <1>4, <2>2
    <3>3. listeners[d] # 0 /\ t \in pacs[listeners[d]].teams =>
            t \in watches[d] \/ <<listeners[d], t>> \in harmed'
      <4> SUFFICES ASSUME listeners[d] # 0, t \in pacs[listeners[d]].teams, t \notin watches[d],
                          <<listeners[d], t>> \notin harmed
                   PROVE  <<listeners[d], t>> \in harmed'
          BY <1>5
      <4>1. Sound(d, t)
        BY SoundNow
      <4>2. Written(d, t)
        BY <1>4, <2>2, <4>1 DEF Sound, Pending, Spoken
      <4>3. PICK i \in 1..Len(mail[d]) : mail[d][i][2] = t /\ mail[d][i][1] # "subscribe"
        BY <4>1, <4>2 DEF Sound, SaidLast
      <4>4. mail[d] \in Seq({"subscribe", "unsubscribe"} \X Teams)
        BY TeamsTyped
      <4>5. mail[d][i] = <<"unsubscribe", t>>
        BY <4>3, <4>4
      <4>6. <<"unsubscribe", t>> \in Range(mail[d])
        BY <4>3, <4>4, <4>5 DEF Range
      <4>7. listeners[d] \in Records(d)
        BY TeamsTyped DEF Records
      <4> QED BY <1>1, <2>2, <4>6, <4>7
    <3> QED BY <1>1, <1>3, <2>2, <3>1, <3>2, <3>3 DEF Sound, Messages
  <2> QED BY <2>1, <2>2
<1> QED BY <1>6, SoundNext

LEMMA WatchTalks ==
    ASSUME WatchInv, ListsInv', NEW c \in Conns, NEW u \in Teams, Watch(c, u)
    PROVE  SpeechInv' /\ HasInv' /\ WatchedInv'
<1> DEFINE starts == u \notin watches[c]
           said == <<IF starts THEN "subscribe" ELSE "unsubscribe", u>>
<1>1. /\ watches' = [watches EXCEPT ![c] = IF starts THEN @ \cup {u} ELSE @ \ {u}]
      /\ mail' = (IF isOpen[c] THEN [mail EXCEPT ![c] = Append(@, said)] ELSE mail)
      /\ harmed' = (IF ~starts /\ ~isOpen[c] THEN harmed \cup (Records(c) \X {u}) ELSE harmed)
      /\ unheard' = unheard \ {<<c, u>>}
      /\ UNCHANGED <<pacs, listeners, calls, isOpen>>
  BY DEF Watch
<1>2. /\ said \in {"subscribe", "unsubscribe"} \X Teams /\ said[2] = u
      /\ said[1] = "subscribe" <=> starts
  OBVIOUS
<1>3. starts <=> u \notin watches[c]
  OBVIOUS
<1> HIDE DEF said, starts
<1>4. /\ \A d \in Conns : d # c => mail'[d] = mail[d] /\ watches'[d] = watches[d]
      /\ u \in watches'[c] <=> starts
      /\ \A t \in Teams : t # u => (t \in watches'[c] <=> t \in watches[c])
      /\ mail'[c] = (IF isOpen[c] THEN Append(mail[c], said) ELSE mail[c])
  BY <1>1, <1>3, TeamsTyped
<1>5. harmed \subseteq harmed'
  BY <1>1
<1>6. ASSUME NEW d \in Conns, NEW t \in Teams PROVE Sound(d, t)'
  <2>1. CASE d # c
    <3>1. ConnSame(d)
      BY <1>1, <1>4, <2>1 DEF ConnSame
    <3> QED BY <1>1, <1>5, <3>1, OthersSound
  <2>2. CASE d = c /\ isOpen[c]
    <3>1. /\ mail[c] \in Seq({"subscribe", "unsubscribe"} \X Teams)
          /\ mail'[c] = Append(mail[c], said) /\ Len(mail[c]) \in Nat
      BY <1>4, <2>2, TeamsTyped
    <3>2. /\ Len(mail'[c]) = Len(mail[c]) + 1 /\ mail'[c][Len(mail[c]) + 1] = said
          /\ \A i \in 1..Len(mail[c]) : mail'[c][i] = mail[c][i]
      BY <1>2, <3>1
    <3>3. CASE t = u
      <4>1. Written(d, t)' /\ Pending(d, t)'
        BY <1>2, <2>2, <3>1, <3>2, <3>3 DEF Written, Pending
      <4> DEFINE i == Len(mail[c]) + 1
      <4>2. i \in 1..Len(mail'[d]) /\ mail'[d][i] = said /\ \A j \in 1..Len(mail'[d]) : ~(j > i)
        BY <2>2, <3>1, <3>2
      <4> HIDE DEF i
      <4>3. \E n \in 1..Len(mail'[d]) :
              SaidLast(d, t, n)' /\ (mail'[d][n][1] = "subscribe" <=> t \in watches'[d])
        <5> SUFFICES ASSUME NEW n, n = i
                     PROVE  /\ n \in 1..Len(mail'[d]) /\ SaidLast(d, t, n)'
                            /\ mail'[d][n][1] = "subscribe" <=> t \in watches'[d]
            OBVIOUS
        <5> QED BY <1>2, <1>4, <2>2, <3>3, <4>2 DEF SaidLast
      <4> QED BY <4>1, <4>3 DEF Sound
    <3>4. CASE t # u
      <4>1. Sound(d, t)
        BY SoundNow
      <4>2. Written(d, t)' <=> Written(d, t)
        BY <1>2, <2>2, <3>1, <3>2, <3>4 DEF Written
      <4>3. \A i \in 1..Len(mail[c]) : SaidLast(d, t, i) => SaidLast(d, t, i)'
        <5> SUFFICES ASSUME NEW i \in 1..Len(mail[c]), SaidLast(d, t, i) PROVE SaidLast(d, t, i)'
            OBVIOUS
        <5> QED BY <1>2, <2>2, <3>1, <3>2, <3>4 DEF SaidLast
      <4>4. Written(d, t)' =>
              \E n \in 1..Len(mail'[d]) :
                SaidLast(d, t, n)' /\ (mail'[d][n][1] = "subscribe" <=> t \in watches'[d])
        <5> SUFFICES ASSUME Written(d, t)
                     PROVE  \E n \in 1..Len(mail'[d]) :
                SaidLast(d, t, n)' /\ (mail'[d][n][1] = "subscribe" <=> t \in watches'[d])
            BY <4>2
        <5>1. PICK i \in 1..Len(mail[d]) :
                 SaidLast(d, t, i) /\ (mail[d][i][1] = "subscribe" <=> t \in watches[d])
          BY <4>1 DEF Sound
        <5>2. i \in 1..Len(mail'[d]) /\ SaidLast(d, t, i)' /\ mail'[d][i] = mail[d][i]
          BY <2>2, <3>1, <3>2, <4>3, <5>1
        <5> QED BY <1>4, <2>2, <3>4, <5>1, <5>2
      <4>5. Pending(d, t) => Pending(d, t)'
        BY <1>1, <4>2 DEF Pending, Spoken
      <4>6. Harmed(d, t) => Harmed(d, t)'
        BY <1>1, <1>5 DEF Harmed, Records, Numbers
      <4>7. Removed(d) => Removed(d)'
        BY <1>1 DEF Removed, Removes
      <4>8. t \in watches'[d] <=> t \in watches[d]
        BY <1>4, <2>2, <3>4
      <4>9. /\ \A k \in calls' : k.conn = d /\ k.op \in Messages /\ k.team = t /\ ~Written(d, t)'
                 => (k.op = "subscribe" <=> t \in watches'[d])
            /\ \A k \in calls' : k.conn = d /\ k.op = "connect" /\ t \in watches'[d] => Written(d, t)'
        BY <1>1, <4>1, <4>2, <4>8 DEF Sound
      <4>10. /\ listeners'[d] # 0 /\ t \in pacs'[listeners'[d]].teams =>
                  Pending(d, t)' \/ t \in watches'[d] \/ <<listeners'[d], t>> \in harmed'
             /\ isOpen'[d] /\ t \in watches'[d] =>
                  \/ Pending(d, t)' \/ <<d, t>> \in unheard' \/ Harmed(d, t)' \/ Removed(d)'
                  \/ listeners'[d] # 0 /\ t \in pacs'[listeners'[d]].teams
        BY <1>1, <1>5, <3>4, <4>1, <4>5, <4>6, <4>7, <4>8 DEF Sound
      <4> QED BY <4>4, <4>9, <4>10 DEF Sound
    <3> QED BY <3>3, <3>4
  <2>3. CASE d = c /\ ~isOpen[c]
    <3>1. mail[d] = <<>> /\ mail'[d] = <<>>
      BY <1>4, <2>3 DEF WatchInv, ListsInv, MapsInv, HooksInv, Closed
    <3>2. ~Written(d, t) /\ ~Written(d, t)'
      BY <3>1 DEF Written
    <3>3. \A k \in calls : k.conn = d => k.op = "disconnect"
      BY <2>3 DEF WatchInv, ListsInv, MapsInv, HooksInv, Shapes
    <3>4. listeners[d] # 0 /\ t \in pacs[listeners[d]].teams =>
            t \in watches'[d] \/ <<listeners[d], t>> \in harmed'
      <4> SUFFICES ASSUME listeners[d] # 0, t \in pacs[listeners[d]].teams
                   PROVE  t \in watches'[d] \/ <<listeners[d], t>> \in harmed'
          OBVIOUS
      <4>1. t \in watches[d] \/ <<listeners[d], t>> \in harmed
        <5>1. Sound(d, t)
          BY SoundNow
        <5> QED BY <3>2, <3>3, <5>1 DEF Sound, Pending, Spoken, Messages
      <4>2. listeners[d] \in Records(d)
        BY TeamsTyped DEF Records
      <4> QED BY <1>1, <1>4, <1>5, <2>3, <4>1, <4>2
    <3> QED BY <1>1, <2>3, <3>2, <3>3, <3>4 DEF Sound, Messages
  <2> QED BY <2>1, <2>2, <2>3
<1> QED BY <1>6, SoundNext

LEMMA TailMoves ==
    ASSUME NEW S, NEW s \in Seq(S), s # <<>>
    PROVE  /\ Len(s) \in Nat /\ Len(s) >= 1 /\ Len(Tail(s)) = Len(s) - 1
           /\ \A i \in 1..Len(Tail(s)) : Tail(s)[i] = s[i + 1]
BY EmptySeq, HeadTailProperties

LEMMA PostTalks ==
    ASSUME WatchInv, ListsInv', Overtakes = {}, NEW c \in Conns, Post(c)
    PROVE  SpeechInv' /\ HasInv' /\ WatchedInv'
<1> DEFINE op == Head(mail[c])[1]
           u == Head(mail[c])[2]
           k2 == Call(c, op, u)
<1>1. /\ mail[c] # <<>> /\ MayStart(c) /\ calls' = calls \cup {k2}
      /\ mail' = [mail EXCEPT ![c] = Tail(@)]
      /\ UNCHANGED <<pacs, listeners, isOpen, watches, unheard, harmed>>
  BY DEF Post
<1>2. k2.conn = c /\ k2.op = op /\ k2.team = u
  BY DEF Call
<1>3. mail[c] \in Seq({"subscribe", "unsubscribe"} \X Teams) /\ Len(mail[c]) \in Nat
  BY TeamsTyped
<1>4. mail[c][1] = <<op, u>> /\ op \in Messages /\ u \in Teams
  <2>1. Head(mail[c]) = mail[c][1] /\ mail[c][1] \in {"subscribe", "unsubscribe"} \X Teams
    BY <1>1, <1>3
  <2> QED BY <2>1 DEF Messages
<1> HIDE DEF k2, op, u
<1>5. mail'[c] = Tail(mail[c]) /\ \A d \in Conns : d # c => mail'[d] = mail[d]
  BY <1>1, TeamsTyped
<1>6. /\ Len(mail[c]) >= 1 /\ Len(mail'[c]) = Len(mail[c]) - 1
      /\ \A i \in 1..Len(mail'[c]) : mail'[c][i] = mail[c][i + 1]
  <2> DEFINE Said == {"subscribe", "unsubscribe"} \X Teams
             s == mail[c]
  <2>1. s \in Seq(Said) /\ s # <<>> /\ mail'[c] = Tail(s)
    BY <1>1, <1>3, <1>5
  <2> HIDE DEF Said
  <2> SUFFICES /\ Len(s) >= 1 /\ Len(mail'[c]) = Len(s) - 1
               /\ \A i \in 1..Len(mail'[c]) : mail'[c][i] = s[i + 1]
      OBVIOUS
  <2> HIDE DEF s
  <2> QED BY <2>1, TailMoves
<1>7. \A k \in calls : k.conn # c
  BY <1>1, NoneRuns
<1>8. ASSUME NEW d \in Conns, NEW t \in Teams PROVE Sound(d, t)'
  <2>1. CASE d # c
    <3>1. ConnSame(d)
      BY <1>1, <1>2, <1>5, <2>1 DEF ConnSame
    <3> QED BY <1>1, <3>1, OthersSound
  <2>2. CASE d = c
    <3>1. Sound(d, t)
      BY SoundNow
    <3>2. \A k \in calls' : k.conn = d => k = k2
      BY <1>1, <1>7, <2>2
    <3>3. \A j \in 2..Len(mail[c]) : mail[c][j][2] = t => Written(d, t)'
      <4> SUFFICES ASSUME NEW j \in 2..Len(mail[c]), mail[c][j][2] = t PROVE Written(d, t)'
          OBVIOUS
      <4>1. j - 1 \in 1..Len(mail'[c]) /\ mail'[c][j - 1] = mail[c][j]
        BY <1>3, <1>6
      <4> QED BY <2>2, <4>1 DEF Written
    <3>4. Written(d, t)' => \E j \in 2..Len(mail[c]) : mail[c][j][2] = t
      <4> SUFFICES ASSUME Written(d, t)' PROVE \E j \in 2..Len(mail[c]) : mail[c][j][2] = t
          OBVIOUS
      <4>1. PICK i \in 1..Len(mail'[c]) : mail'[c][i][2] = t
        BY <2>2 DEF Written
      <4>2. mail[c][i + 1][2] = t
        BY <1>6, <4>1
      <4>3. i + 1 \in 2..Len(mail[c])
        BY <1>3, <1>6
      <4> QED BY <4>2, <4>3
    <3>5. Written(d, t) =>
            \E i \in 1..Len(mail[c]) :
               /\ mail[c][i][2] = t /\ \A j \in 1..Len(mail[c]) : j > i => mail[c][j][2] # t
               /\ mail[c][i][1] = "subscribe" <=> t \in watches[c]
      BY <2>2, <3>1 DEF Sound, SaidLast
    <3>6. Written(d, t)' =>
            \E n \in 1..Len(mail'[d]) :
              SaidLast(d, t, n)' /\ (mail'[d][n][1] = "subscribe" <=> t \in watches'[d])
      <4> SUFFICES ASSUME Written(d, t)'
                   PROVE  \E n \in 1..Len(mail'[d]) :
              SaidLast(d, t, n)' /\ (mail'[d][n][1] = "subscribe" <=> t \in watches'[d])
          OBVIOUS
      <4>1. PICK j \in 2..Len(mail[c]) : mail[c][j][2] = t
        BY <3>4
      <4>2. Written(d, t)
        BY <1>3, <2>2, <4>1 DEF Written
      <4>3. PICK i \in 1..Len(mail[c]) :
               /\ mail[c][i][2] = t /\ \A n \in 1..Len(mail[c]) : n > i => mail[c][n][2] # t
               /\ mail[c][i][1] = "subscribe" <=> t \in watches[c]
        BY <3>5, <4>2
      <4>4. i >= 2
        BY <1>3, <4>1, <4>3
      <4> DEFINE n == i - 1
      <4>5. n \in 1..Len(mail'[c]) /\ n + 1 = i
        BY <1>3, <1>6, <4>3, <4>4
      <4> HIDE DEF n
      <4>6. mail'[c][n] = mail[c][i]
        BY <1>6, <4>5
      <4>7. \A m \in 1..Len(mail'[c]) : m > n => mail'[c][m][2] # t
        BY <1>3, <1>6, <4>3, <4>5
      <4> SUFFICES ASSUME NEW x, x = n
                   PROVE  /\ x \in 1..Len(mail'[d]) /\ SaidLast(d, t, x)'
                          /\ mail'[d][x][1] = "subscribe" <=> t \in watches'[d]
          OBVIOUS
      <4> QED BY <1>1, <2>2, <4>3, <4>5, <4>6, <4>7 DEF SaidLast
    <3>7. t = u /\ ~Written(d, t)' => (op = "subscribe" <=> t \in watches[d])
      <4> SUFFICES ASSUME t = u, ~Written(d, t)' PROVE op = "subscribe" <=> t \in watches[d]
          OBVIOUS
      <4>1. Written(d, t)
        BY <1>3, <1>4, <1>6, <2>2 DEF Written
      <4>2. \A j \in 2..Len(mail[c]) : mail[c][j][2] # t
        BY <3>3
      <4>3. PICK i \in 1..Len(mail[c]) :
               mail[c][i][2] = t /\ (mail[c][i][1] = "subscribe" <=> t \in watches[c])
        BY <3>5, <4>1
      <4>4. i = 1
        BY <1>3, <4>2, <4>3
      <4> QED BY <1>4, <2>2, <4>3, <4>4
    <3>8. /\ \A k \in calls' : k.conn = d /\ k.op \in Messages /\ k.team = t /\ ~Written(d, t)'
               => (k.op = "subscribe" <=> t \in watches'[d])
          /\ \A k \in calls' : k.conn = d /\ k.op = "connect" /\ t \in watches'[d] => Written(d, t)'
      BY <1>1, <1>2, <1>4, <3>2, <3>7 DEF Messages
    <3>9. Pending(d, t) => Pending(d, t)'
      <4> SUFFICES ASSUME Pending(d, t) PROVE Pending(d, t)'
          OBVIOUS
      <4>1. PICK i \in 1..Len(mail[c]) : mail[c][i][2] = t
        BY <1>7, <2>2 DEF Pending, Spoken, Written
      <4>2. CASE i = 1
        <5>1. k2 \in calls' /\ k2.conn = d /\ k2.op \in Messages /\ k2.team = t
          BY <1>1, <1>2, <1>4, <2>2, <4>1, <4>2
        <5> QED BY <5>1 DEF Pending, Spoken
      <4>3. CASE i # 1
        BY <1>3, <3>3, <4>1, <4>3 DEF Pending
      <4> QED BY <4>2, <4>3
    <3>10. Harmed(d, t) => Harmed(d, t)'
      BY <1>1 DEF Harmed, Records, Numbers
    <3>11. Removed(d) => Removed(d)'
      BY <1>1 DEF Removed, Removes
    <3>12. /\ listeners'[d] # 0 /\ t \in pacs'[listeners'[d]].teams =>
                Pending(d, t)' \/ t \in watches'[d] \/ <<listeners'[d], t>> \in harmed'
           /\ isOpen'[d] /\ t \in watches'[d] =>
                \/ Pending(d, t)' \/ <<d, t>> \in unheard' \/ Harmed(d, t)' \/ Removed(d)'
                \/ listeners'[d] # 0 /\ t \in pacs'[listeners'[d]].teams
      BY <1>1, <3>1, <3>9, <3>10, <3>11 DEF Sound
    <3> QED BY <3>6, <3>8, <3>12 DEF Sound
  <2> QED BY <2>1, <2>2
<1> QED BY <1>8, SoundNext

\* Every step keeps what the pages watch in line with the records.
LEMMA StepKeepsWatch ==
    ASSUME WatchInv, Overtakes = {}, [Next]_vars
    PROVE  WatchInv'
<1>1. ListsInv'
  BY StepKeepsLists DEF WatchInv
<1>2. HooksInv
  BY DEF WatchInv, ListsInv, MapsInv
<1>3. ASSUME NEW k \in calls, Step(k) PROVE SpeechInv' /\ HasInv' /\ WatchedInv'
  <2>1. UNCHANGED <<mail, watches>>
    BY <1>3 DEF Step, Look, Register, Revive, Mark, Others, Stale, Expiry, TakeOut, Forget,
         Unlisted, Known, AppendToTeam, NoteTeam, ReadTeam, WriteTeam, DropTeam, host
  <2>2. Likes(k) /\ HasInv' /\ WatchedInv'
    BY <1>2, <1>3, ClearingTalks, StateTalks, ListTalks, TalkStays, KnownTalks, NoteTalks,
       DropTalks, RegisterTalks, ForgetTalks DEF Step
  <2>3. SpeechInv'
    BY <2>1, <2>2, SpeechStays DEF WatchInv
  <2> QED BY <2>2, <2>3
<1>4. ASSUME UNCHANGED <<mail, watches, isOpen, unheard, calls, harmed, listeners>>,
             Numbers' = Numbers,
             \A p \in Numbers : pacs'[p].conn = pacs[p].conn /\ pacs'[p].teams = pacs[p].teams
      PROVE  SpeechInv' /\ HasInv' /\ WatchedInv'
  <2>1. ASSUME NEW c \in Conns, NEW t \in Teams PROVE Sound(c, t)'
    <3>1. Sound(c, t)
      BY SoundNow
    <3>2. /\ Written(c, t) <=> Written(c, t)'
          /\ Pending(c, t) <=> Pending(c, t)'
          /\ \A i : SaidLast(c, t, i) <=> SaidLast(c, t, i)'
      BY <1>4 DEF Written, Pending, Spoken, SaidLast
    <3>3. Harmed(c, t) => Harmed(c, t)'
      BY <1>4 DEF Harmed, Records
    <3>4. Removed(c) => Removed(c)'
      <4>1. \A m \in calls : Removes(m) => m.pac \in Numbers
        BY <1>2, FitsInv DEF Fits, Removes
      <4> QED BY <1>4, <4>1 DEF Removed, Removes
    <3>5. listeners[c] # 0 => pacs'[listeners[c]].teams = pacs[listeners[c]].teams
      BY <1>4, TeamsTyped
    <3>6. Written(c, t)' =>
            \E i \in 1..Len(mail'[c]) :
              SaidLast(c, t, i)' /\ (mail'[c][i][1] = "subscribe" <=> t \in watches'[c])
      BY <1>4, <3>1, <3>2 DEF Sound
    <3>7. /\ \A k \in calls' : k.conn = c /\ k.op \in Messages /\ k.team = t /\ ~Written(c, t)'
               => (k.op = "subscribe" <=> t \in watches'[c])
          /\ \A k \in calls' : k.conn = c /\ k.op = "connect" /\ t \in watches'[c] => Written(c, t)'
      BY <1>4, <3>1, <3>2 DEF Sound
    <3> QED BY <1>4, <3>1, <3>2, <3>3, <3>4, <3>5, <3>6, <3>7 DEF Sound
  <2> QED BY <1>1, <2>1, SoundNext
<1>5. ASSUME NEW p \in Numbers, Age(p) PROVE SpeechInv' /\ HasInv' /\ WatchedInv'
  <2>1. UNCHANGED <<mail, watches, isOpen, unheard, calls, harmed, listeners>>
    BY <1>5 DEF Age, host
  <2>2. pacs' = [pacs EXCEPT ![p].state = "expired"]
    BY <1>5 DEF Age
  <2>3. /\ Numbers' = Numbers
        /\ \A q \in Numbers : pacs'[q].conn = pacs[q].conn /\ pacs'[q].teams = pacs[q].teams
    BY <1>2, <2>2, StateChanges
  <2> QED BY <1>4, <2>1, <2>3
<1>6. ASSUME UNCHANGED vars PROVE SpeechInv' /\ HasInv' /\ WatchedInv'
  BY <1>4, <1>6 DEF vars, hooks, host, Numbers
<1>7. ASSUME Restart PROVE SpeechInv' /\ HasInv' /\ WatchedInv'
  <2>1. /\ listeners' = [c \in Conns |-> 0] /\ calls' = {} /\ mail' = [c \in Conns |-> <<>>]
        /\ unheard' = {ct \in Conns \X Teams : isOpen[ct[1]] /\ ct[2] \in watches[ct[1]]}
        /\ UNCHANGED <<isOpen, watches>>
    BY <1>7 DEF Restart
  <2>2. \A c \in Conns, t \in Teams : Sound(c, t)'
    BY <2>1 DEF Sound, Written
  <2> QED BY <1>1, <2>2, SoundNext
<1>8. SpeechInv' /\ HasInv' /\ WatchedInv'
  BY <1>1, <1>3, <1>5, <1>6, <1>7, OpenTalks, CloseTalks, WatchTalks, PostTalks DEF Next
<1> QED BY <1>1, <1>8 DEF WatchInv

LEMMA InitWatch == Init => WatchInv
<1> SUFFICES ASSUME Init PROVE WatchInv
    OBVIOUS
<1>1. \A c \in Conns, t \in Teams : ~Written(c, t)
  BY DEF Init, Written
<1>2. SaidInv
  BY <1>1 DEF Init, SaidInv
<1> QED BY <1>2, InitLists DEF Init, WatchInv, SpeechInv, AgainInv, HasInv, WatchedInv

LEMMA WatchesHeard == WatchInv => AudienceWatches
<1> SUFFICES ASSUME WatchInv, Quiet, NEW t \in Teams
             PROVE  /\ \A c \in Conns : isOpen[c] /\ t \in watches[c] =>
                         <<c, t>> \in unheard \/ Harmed(c, t) \/ UserOf[c] \in Audience(t)
                    /\ \A p \in byTeam[t] : pacs[p].state = "active" =>
                         \/ <<p, t>> \in harmed
                         \/ isOpen[pacs[p].conn] /\ t \in watches[pacs[p].conn]
    BY DEF AudienceWatches
<1>1. calls = {} /\ \A c \in Conns : mail[c] = <<>>
  BY DEF Quiet
<1>2. \A c \in Conns : ~Pending(c, t) /\ ~Removed(c)
  BY <1>1 DEF Pending, Spoken, Written, Removed
<1>3. \A c \in Conns : Expected(c) <=> isOpen[c]
  BY <1>1 DEF Expected
<1>4. \A c \in Conns : listeners[c] # 0 =>
        /\ <<listeners[c], t>> \in harmed
           \/ (listeners[c] \in byTeam[t] <=> t \in pacs[listeners[c]].teams)
        /\ pacs[listeners[c]].state = "active" <=> isOpen[c]
  BY <1>1, <1>3 DEF WatchInv, ListsInv, MapsInv, ActiveInv, ListedInv, Agrees, Doomed, Noting, Dropping
<1>5. ASSUME NEW c \in Conns, isOpen[c], t \in watches[c]
      PROVE  <<c, t>> \in unheard \/ Harmed(c, t) \/ UserOf[c] \in Audience(t)
  <2> SUFFICES ASSUME <<c, t>> \notin unheard, ~Harmed(c, t) PROVE UserOf[c] \in Audience(t)
      OBVIOUS
  <2>1. listeners[c] # 0 /\ t \in pacs[listeners[c]].teams
    BY <1>2, <1>5 DEF WatchInv, WatchedInv
  <2>2. listeners[c] \in Numbers /\ pacs[listeners[c]].conn = c
    BY <2>1, TeamsTyped
  <2>3. <<listeners[c], t>> \notin harmed
    BY <2>2 DEF Harmed, Records
  <2>4. listeners[c] \in byTeam[t] /\ pacs[listeners[c]].state = "active"
    BY <1>4, <1>5, <2>1, <2>3
  <2> QED BY <2>2, <2>4 DEF Audience
<1>6. ASSUME NEW p \in byTeam[t], pacs[p].state = "active", <<p, t>> \notin harmed
      PROVE  isOpen[pacs[p].conn] /\ t \in watches[pacs[p].conn]
  <2>1. p \in Numbers /\ p # 0
    BY DEF WatchInv, ListsInv, MapsInv, HooksInv, TypeOK, Numbers
  <2>2. pacs[p].conn \in Conns
    BY <2>1, RecordTyped DEF WatchInv, ListsInv, MapsInv
  <2>3. listeners[pacs[p].conn] = p
    BY <1>6, <2>1 DEF WatchInv, ListsInv, UnlistedInv
  <2>4. isOpen[pacs[p].conn] /\ t \in pacs[p].teams
    BY <1>4, <1>6, <2>1, <2>2, <2>3
  <2> QED BY <1>2, <1>6, <2>1, <2>2, <2>3, <2>4 DEF WatchInv, HasInv
<1> QED BY <1>5, <1>6

-----------------------------------------------------------------------------
(* The theorems.                                                           *)

LEMMA WatchInvHolds ==
    ASSUME Overtakes = {}
    PROVE  Spec => []WatchInv
<1>1. Init => WatchInv
  BY InitWatch
<1>2. WatchInv /\ [Next]_vars => WatchInv'
  BY StepKeepsWatch
<1> QED BY <1>1, <1>2, PTL DEF Spec

\* Every hook has a record and a team to work on wherever it is, and the lists
\* name only records there are.
THEOREM TypeCorrect ==
    ASSUME Overtakes = {}
    PROVE  Spec => []TypeOK
<1>1. WatchInv => TypeOK
  BY DEF WatchInv, ListsInv, MapsInv, HooksInv
<1> QED BY <1>1, WatchInvHolds, PTL

\* When no hook runs, the map, the lists by user and the lists by team agree, for
\* any number of connections, users and teams.
THEOREM IndexesAgreeHolds ==
    ASSUME Overtakes = {}
    PROVE  Spec => []IndexesAgree
<1>1. WatchInv => IndexesAgree
  BY ListsAgree DEF WatchInv
<1> QED BY <1>1, WatchInvHolds, PTL

\* When no hook runs, a broadcast of a team reaches the users with an open page
\* that watches it, and no record of anybody else, but for what was said before a
\* restart and what another hook has harmed.
THEOREM AudienceWatchesHolds ==
    ASSUME Overtakes = {}
    PROVE  Spec => []AudienceWatches
<1>1. WatchInv => AudienceWatches
  BY WatchesHeard
<1> QED BY <1>1, WatchInvHolds, PTL

=============================================================================
