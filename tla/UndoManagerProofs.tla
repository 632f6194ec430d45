-------------------------- MODULE UndoManagerProofs --------------------------
(***************************************************************************)
(* Proofs about UndoManager, for any commands and contents, any number of  *)
(* calls in flight, any groups and any failures; about the patches of      *)
(* BoardPatches that commands are made of; about the commands of Mutator;  *)
(* and about what a session of such commands keeps true (Sessions).        *)
(***************************************************************************)
EXTENDS Sessions, SequenceTheorems, FiniteSetTheorems, WellFoundedInduction, TLAPS

\* Contents and Commands are the worlds of the client: what commands make of
\* contents stays among them.
Closed ==
    /\ Initial \subseteq Contents
    /\ \A c \in Contents : Offered(c) \subseteq Commands
    /\ \A k \in Commands, c \in Contents :
         /\ Redo(k, c) \in Contents
         /\ Recorded(k, c) \in Commands
         /\ Undo(k, c) \in Contents

\* An undo or a redo is about a command of the stack.
RunInv ==
    /\ isExecuting <=> run # NoRun
    /\ run # NoRun => Target(run.dir) \in DOMAIN commands

\* Commands in flight and on the stack have ids of their own.
IdsInv ==
    /\ \A i, j \in DOMAIN commands : commands[i].id = commands[j].id => i = j
    /\ \A i \in DOMAIN commands : commands[i].id <= given
    /\ \A p, q \in performing : p.id = q.id => p = q
    /\ \A p \in performing : p.id <= given
    /\ \A p \in performing, i \in DOMAIN commands : p.id # commands[i].id
    /\ \A n \in inEffect : n <= given

\* A call in flight is in effect from the moment it reached the server.
CallsInv == \A p \in performing : p.id \in inEffect <=> p.at = "reached"

\* So is the command of a redo, and that of an undo no longer is.
WorkInv ==
    run.at = "reached" =>
        (commands[Target(run.dir)].id \in inEffect <=> run.dir = "redo")

UndoInv == TypeOK /\ RunInv /\ IdsInv /\ CallsInv /\ WorkInv /\ StackTellsEffect

\* Groups are numbered in the order they are opened.
GroupNumbers ==
    /\ group # NoGroup => group = opened
    /\ \A i \in DOMAIN commands : commands[i].group <= opened
    /\ \A p \in performing : p.group <= opened

\* As long as no calls overlap, a call in flight is of the open group, and the
\* commands of a group stand together, those of the open group at the end.
GroupsTogether ==
    alone =>
        /\ \A p \in performing : p.group = group
        /\ \A i, j, k \in DOMAIN commands :
             i < j /\ j < k /\ commands[i].group = commands[k].group /\ commands[i].group # NoGroup
               => commands[j].group = commands[i].group
        /\ \A i, j \in DOMAIN commands :
             i < j /\ group # NoGroup /\ commands[i].group = group => commands[j].group = group

\* Nothing that overlaps makes a run end between two commands of a group.
NotBetween ==
    run = NoRun /\ index \in 1 .. Len(commands) - 1 =>
        commands[index].group = NoGroup \/ commands[index].group # commands[index + 1].group

GroupInv == GroupNumbers /\ GroupsTogether /\ NotBetween

-----------------------------------------------------------------------------
\* What registerUndo leaves of the stack: the commands that are done, and the
\* new one on top.
LEMMA CutAndPush ==
    ASSUME NEW S, NEW s \in Seq(S), NEW n \in 0 .. Len(s), NEW e \in S
    PROVE  LET t == Append(SubSeq(s, 1, n), e) IN
             /\ t \in Seq(S)
             /\ Len(t) = n + 1
             /\ DOMAIN t = 1 .. n + 1
             /\ \A i \in 1 .. n : t[i] = s[i]
             /\ t[n + 1] = e
<1>1. /\ SubSeq(s, 1, n) \in Seq(S)
      /\ Len(SubSeq(s, 1, n)) = n
      /\ \A i \in 1 .. n : SubSeq(s, 1, n)[i] = s[i]
  BY SubSeqProperties, LenProperties
<1>2. QED
  BY <1>1, AppendProperties

\* The stack changes in two ways only.
LEMMA EntryChanged ==
    ASSUME NEW S, NEW s \in Seq(S), NEW i \in DOMAIN s, NEW e \in S
    PROVE  /\ [s EXCEPT ![i] = e] \in Seq(S)
           /\ Len([s EXCEPT ![i] = e]) = Len(s)
           /\ DOMAIN [s EXCEPT ![i] = e] = DOMAIN s
  BY ExceptSeq, LenProperties
-----------------------------------------------------------------------------
\* TypeOK and RunInv together are inductive: an index that moves stays within
\* the stack because every run is about a command of it.
LEMMA TypeInit == ASSUME Closed PROVE Init => TypeOK /\ RunInv
<1>1. SUFFICES ASSUME Init PROVE TypeOK /\ RunInv
  OBVIOUS
<1>2. <<Visible(content)>> \in Seq(Sights)
  BY <1>1 DEF Init, Closed, Sights
<1>3. RunInv
  BY <1>1 DEF Init, RunInv
<1>4. /\ content \in Contents /\ alone \in BOOLEAN /\ isExecuting \in BOOLEAN /\ run \in Runs
      /\ performing \in SUBSET Calls /\ inEffect \subseteq 1 .. MaxCommands
  BY <1>1 DEF Init, Closed, Runs
<1>5. /\ group \in 0 .. MaxGroups /\ opened \in 0 .. MaxGroups /\ given \in 0 .. MaxCommands
  BY <1>1, UndoAssumption DEF Init, NoGroup
<1>6. /\ commands \in Seq(Entries) /\ index \in 0 .. Len(commands) /\ Len(shots) = Len(commands) + 1
  BY <1>1 DEF Init
<1>7. QED
  BY <1>1, <1>2, <1>3, <1>4, <1>5, <1>6 DEF Init, TypeOK

LEMMA TypeStep == ASSUME Closed PROVE TypeOK /\ RunInv /\ [Next]_vars => (TypeOK /\ RunInv)'
<1> SUFFICES ASSUME TypeOK, RunInv, [Next]_vars PROVE (TypeOK /\ RunInv)'
  OBVIOUS
<1> USE UndoAssumption DEF NoGroup
<1>1. CASE BeginGroup
  BY <1>1 DEF BeginGroup, TypeOK, RunInv, Target, Idle
<1>2. CASE EndGroup
  BY <1>2 DEF EndGroup, TypeOK, RunInv, Target
<1>3. ASSUME NEW k \in Offered(content), Perform(k) PROVE (TypeOK /\ RunInv)'
  <2>1. [cmd |-> k, group |-> group, id |-> given + 1, at |-> "sent"] \in Calls
    BY <1>3 DEF Perform, TypeOK, Calls, Closed
  <2>2. QED
    BY <1>3, <2>1 DEF Perform, TypeOK, RunInv, Target, Idle
<1>4. ASSUME NEW p \in performing, PerformReaches(p) PROVE (TypeOK /\ RunInv)'
  <2>1. p \in Calls /\ content \in Contents
    BY DEF TypeOK
  <2>2. Recorded(p.cmd, content) \in Commands /\ Redo(p.cmd, content) \in Contents
    BY <2>1 DEF Calls, Closed
  <2>3. [p EXCEPT !.cmd = Recorded(p.cmd, content), !.at = "reached"] \in Calls
    BY <2>1, <2>2 DEF Calls
  <2>4. p.id \in 1 .. MaxCommands
    BY <2>1 DEF Calls
  <2>5. QED
    BY <1>4, <2>2, <2>3, <2>4 DEF PerformReaches, TypeOK, RunInv, Target
<1>5. ASSUME NEW p \in performing, PerformEnds(p) PROVE (TypeOK /\ RunInv)'
  <2>1. CASE isExecuting
    BY <1>5, <2>1 DEF PerformEnds, TypeOK, RunInv, Target, stack
  <2>2. CASE ~isExecuting
    <3> DEFINE e == [cmd |-> p.cmd, group |-> p.group, id |-> p.id]
               v == Visible(content)
    <3>1. e \in Entries
      BY DEF TypeOK, Calls, Entries
    <3>2. /\ commands \in Seq(Entries) /\ index \in 0 .. Len(commands)
          /\ Len(commands) \in Nat
          /\ shots \in Seq(Sights)
          /\ index + 1 \in 0 .. Len(shots)
          /\ v \in Sights
      BY LenProperties DEF TypeOK, Sights
    <3>3. /\ commands' = Append(SubSeq(commands, 1, index), e)
          /\ index' = index + 1
          /\ shots' = Append(SubSeq(shots, 1, index + 1), v)
      BY <1>5, <2>2 DEF PerformEnds, Registered
    <3>4. /\ commands' \in Seq(Entries) /\ Len(commands') = index + 1
      BY <3>1, <3>2, <3>3, CutAndPush
    <3>5. /\ shots' \in Seq(Sights) /\ Len(shots') = index + 2
      <4> HIDE DEF v
      <4>1. /\ Append(SubSeq(shots, 1, index + 1), v) \in Seq(Sights)
            /\ Len(Append(SubSeq(shots, 1, index + 1), v)) = (index + 1) + 1
        BY <3>2, CutAndPush
      <4>2. QED
        BY <4>1, <3>2, <3>3
    <3>6. UNCHANGED <<content, isExecuting, run, group, opened, given, inEffect, alone>>
      BY <1>5 DEF PerformEnds
    <3>7. performing' \in SUBSET Calls
      BY <1>5 DEF PerformEnds, TypeOK
    <3>8. TypeOK'
      BY <3>2, <3>3, <3>4, <3>5, <3>6, <3>7 DEF TypeOK
    <3>9. RunInv'
      BY <2>2, <3>6 DEF RunInv
    <3>10. QED
      BY <3>8, <3>9
  <2>3. QED
    BY <2>1, <2>2
<1>6. ASSUME NEW p \in performing, PerformFails(p) PROVE (TypeOK /\ RunInv)'
  BY <1>6 DEF PerformFails, TypeOK, RunInv, Target
<1>7. ASSUME NEW dir \in {"undo", "redo"}, Press(dir) PROVE (TypeOK /\ RunInv)'
  BY <1>7 DEF Press, Execute, TypeOK, RunInv, Runs, NoRun, Target, Idle
<1>8. CASE RunReaches
  <2> DEFINE i == Target(run.dir)
  <2>1. /\ run # NoRun /\ isExecuting
        /\ run \in [dir : {"undo", "redo"}, at : {"sent", "reached", "failed"}]
        /\ run' = [run EXCEPT !.at = "reached"]
    BY <1>8 DEF RunReaches, RunInv, TypeOK, Runs, NoRun
  <2>2. i \in DOMAIN commands /\ commands[i] \in Entries
    BY <2>1, ElementOfSeq, LenProperties DEF RunInv, TypeOK
  <2>3. /\ Redo(commands[i].cmd, content) \in Contents
        /\ Undo(commands[i].cmd, content) \in Contents
        /\ Recorded(commands[i].cmd, content) \in Commands
        /\ commands[i].id \in 1 .. MaxCommands
    BY <2>2 DEF Entries, Closed, TypeOK
  <2>4. /\ content' \in Contents /\ inEffect' \subseteq 1 .. MaxCommands /\ alone' \in BOOLEAN
    BY <1>8, <2>3 DEF RunReaches, TypeOK
  <2>5. /\ commands' \in Seq(Entries) /\ Len(commands') = Len(commands)
        /\ DOMAIN commands' = DOMAIN commands
    <3>1. CASE run.dir = "undo"
      BY <1>8, <3>1 DEF RunReaches, TypeOK
    <3>2. CASE run.dir # "undo"
      <4> DEFINE e == [commands[i] EXCEPT !.cmd = Recorded(commands[i].cmd, content)]
      <4>1. e \in Entries
        BY <2>2, <2>3 DEF Entries
      <4>2. commands' = [commands EXCEPT ![i] = e]
        BY <1>8, <3>2 DEF RunReaches
      <4>3. commands \in Seq(Entries)
        BY DEF TypeOK
      <4> HIDE DEF e, i
      <4>4. QED
        BY <2>2, <4>1, <4>2, <4>3, EntryChanged
    <3>3. QED
      BY <3>1, <3>2
  <2>6. run' \in Runs /\ run' # NoRun /\ run'.dir = run.dir
    BY <2>1 DEF Runs, NoRun
  <2>7. UNCHANGED <<index, isExecuting, performing, group, opened, given, shots>>
    BY <1>8 DEF RunReaches
  <2>8. QED
    BY <2>1, <2>2, <2>4, <2>5, <2>6, <2>7 DEF TypeOK, RunInv, Target
<1>9. CASE RunEnds
  <2> DEFINE i == Target(run.dir)
             next == IF run.dir = "undo" THEN i - 1 ELSE i + 1
  <2>1. /\ run # NoRun /\ isExecuting /\ run.dir \in {"undo", "redo"}
        /\ i \in DOMAIN commands
    BY <1>9 DEF RunEnds, RunInv, TypeOK, Runs, NoRun
  <2>2. /\ Len(commands) \in Nat /\ DOMAIN commands = 1 .. Len(commands)
        /\ index \in 0 .. Len(commands)
    BY LenProperties DEF TypeOK
  <2>3. index' = IF run.dir = "undo" THEN i - 1 ELSE i
    BY <1>9 DEF RunEnds
  <2>4. index' \in 0 .. Len(commands)
    BY <2>1, <2>2, <2>3 DEF Target
  <2>5. UNCHANGED <<content, commands, performing, group, opened, given, shots, inEffect, alone>>
    BY <1>9 DEF RunEnds
  <2>6. CASE SameGroup(next, commands[i].group)
    <3>1. isExecuting' = TRUE /\ run' = [dir |-> run.dir, at |-> "sent"] /\ next \in DOMAIN commands
      BY <1>9, <2>6 DEF RunEnds, Execute, SameGroup
    <3>2. run' \in Runs /\ run' # NoRun
      BY <2>1, <3>1 DEF Runs, NoRun
    <3>3. (IF run'.dir = "undo" THEN index' ELSE index' + 1) = next
      BY <2>1, <2>2, <2>3, <3>1 DEF Target
    <3>4. QED
      BY <2>2, <2>4, <2>5, <3>1, <3>2, <3>3 DEF TypeOK, RunInv, Target
  <2>7. CASE ~SameGroup(next, commands[i].group)
    <3>1. isExecuting' = FALSE /\ run' = NoRun
      BY <1>9, <2>7 DEF RunEnds
    <3>2. QED
      BY <2>4, <2>5, <3>1 DEF TypeOK, RunInv, Runs
  <2>8. QED
    BY <2>6, <2>7
<1>10. CASE RunFails
  <2>1. run # NoRun /\ run' \in Runs /\ run' # NoRun /\ run'.dir = run.dir
    BY <1>10 DEF RunFails, TypeOK, Runs, NoRun
  <2>2. QED
    BY <1>10, <2>1 DEF RunFails, TypeOK, RunInv, Target
<1>11. CASE UNCHANGED vars
  BY <1>11 DEF vars, TypeOK, RunInv, Target
<1>12. QED
  BY <1>1, <1>2, <1>3, <1>4, <1>5, <1>6, <1>7, <1>8, <1>9, <1>10, <1>11 DEF Next

\* In every state the stack and its index have their shape, and an undo or a
\* redo is about a command that is there (undomanager.ts).
THEOREM TypeCorrect == ASSUME Closed PROVE Spec => []TypeOK
<1>1. Init => TypeOK /\ RunInv
  BY TypeInit
<1>2. TypeOK /\ RunInv /\ [Next]_vars => (TypeOK /\ RunInv)'
  BY TypeStep
<1>3. QED
  BY <1>1, <1>2, PTL DEF Spec

-----------------------------------------------------------------------------
\* The rest of UndoInv, one conjunct at a time.
Rest == IdsInv /\ CallsInv /\ WorkInv /\ StackTellsEffect

\* Facts about types that the steps below need again and again.
LEMMA Shape ==
    ASSUME TypeOK, RunInv
    PROVE  /\ Len(commands) \in Nat
           /\ DOMAIN commands = 1 .. Len(commands)
           /\ \A i \in DOMAIN commands : commands[i] \in Entries /\ commands[i].id \in 1 .. MaxCommands
           /\ \A p \in performing : p \in Calls /\ p.id \in 1 .. MaxCommands /\ p.at \in {"sent", "reached"}
           /\ run # NoRun => /\ run.dir \in {"undo", "redo"}
                             /\ run \in [dir : {"undo", "redo"}, at : {"sent", "reached", "failed"}]
           /\ NoRun.at # "reached"
           /\ given \in Nat /\ index \in Nat /\ inEffect \subseteq Nat
<1>1. /\ Len(commands) \in Nat
      /\ DOMAIN commands = 1 .. Len(commands)
      /\ \A i \in DOMAIN commands : commands[i] \in Entries
  BY LenProperties, ElementOfSeq DEF TypeOK
<1>2. QED
  BY <1>1, UndoAssumption DEF TypeOK, Entries, Calls, Runs, NoRun

LEMMA RestStep == ASSUME TypeOK, RunInv, Rest, TypeOK', RunInv', [Next]_vars PROVE Rest'
<1> USE Shape DEF NoGroup
<1>1. CASE BeginGroup
  BY <1>1 DEF BeginGroup, Rest, IdsInv, CallsInv, WorkInv, StackTellsEffect, Target
<1>2. CASE EndGroup
  BY <1>2 DEF EndGroup, Rest, IdsInv, CallsInv, WorkInv, StackTellsEffect, Target
<1>3. ASSUME NEW k \in Offered(content), Perform(k) PROVE Rest'
  <2> DEFINE q == [cmd |-> k, group |-> group, id |-> given + 1, at |-> "sent"]
  <2>1. /\ performing' = performing \cup {q} /\ given' = given + 1
        /\ q.id = given + 1 /\ q.at = "sent"
        /\ UNCHANGED <<commands, index, run, inEffect>>
    BY <1>3 DEF Perform
  <2> HIDE DEF q
  <2>2. IdsInv'
    BY <2>1 DEF Rest, IdsInv
  <2>3. CallsInv'
    BY <2>1 DEF Rest, IdsInv, CallsInv
  <2>4. QED
    BY <2>1, <2>2, <2>3 DEF Rest, WorkInv, StackTellsEffect, Target
<1>4. ASSUME NEW p \in performing, PerformReaches(p) PROVE Rest'
  <2> DEFINE q == [p EXCEPT !.cmd = Recorded(p.cmd, content), !.at = "reached"]
  <2>1. /\ performing' = (performing \ {p}) \cup {q}
        /\ inEffect' = inEffect \cup {p.id}
        /\ UNCHANGED <<commands, index, run, given>>
    BY <1>4 DEF PerformReaches
  <2>2. q.id = p.id /\ q.at = "reached"
    BY DEF Calls
  <2> HIDE DEF q
  <2>3. IdsInv'
    BY <2>1, <2>2 DEF Rest, IdsInv
  <2>4. CallsInv'
    BY <2>1, <2>2 DEF Rest, IdsInv, CallsInv
  <2>5. \A i \in DOMAIN commands : commands[i].id \in inEffect' <=> commands[i].id \in inEffect
    BY <2>1 DEF Rest, IdsInv
  <2>6. WorkInv'
    BY <2>1, <2>5 DEF Rest, WorkInv, RunInv, Target, NoRun
  <2>7. StackTellsEffect'
    BY <2>1, <2>5 DEF Rest, StackTellsEffect, Target
  <2>8. QED
    BY <2>3, <2>4, <2>6, <2>7 DEF Rest
<1>5. ASSUME NEW p \in performing, PerformEnds(p) PROVE Rest'
  <2>1. CASE isExecuting
    <3>1. /\ performing' = performing \ {p}
          /\ UNCHANGED <<commands, index, run, given, inEffect>>
      BY <1>5, <2>1 DEF PerformEnds, stack
    <3>2. QED
      BY <3>1 DEF Rest, IdsInv, CallsInv, WorkInv, StackTellsEffect, Target
  <2>2. CASE ~isExecuting
    <3> DEFINE e == [cmd |-> p.cmd, group |-> p.group, id |-> p.id]
    <3>1. /\ performing' = performing \ {p}
          /\ commands' = Append(SubSeq(commands, 1, index), e)
          /\ index' = index + 1
          /\ UNCHANGED <<run, given, inEffect>>
          /\ p.at = "reached"
      BY <1>5, <2>2 DEF PerformEnds, Registered
    <3>2. e \in Entries /\ e.id = p.id
      BY DEF Calls, Entries
    <3>3. commands \in Seq(Entries) /\ index \in 0 .. Len(commands)
      BY DEF TypeOK
    <3> HIDE DEF e
    <3>4. /\ DOMAIN commands' = 1 .. index + 1
          /\ \A i \in 1 .. index : commands'[i] = commands[i] /\ i \in DOMAIN commands
          /\ commands'[index + 1] = e
      BY <3>1, <3>2, <3>3, CutAndPush
    <3>5. run = NoRun
      BY <2>2 DEF RunInv
    <3>6. IdsInv'
      <4>1. \A i \in DOMAIN commands' : commands'[i].id = p.id <=> i = index + 1
        BY <3>2, <3>4 DEF Rest, IdsInv
      <4>2. \A i, j \in DOMAIN commands' : commands'[i].id = commands'[j].id => i = j
        BY <3>4, <4>1 DEF Rest, IdsInv
      <4>3. \A q \in performing', i \in DOMAIN commands' : q.id # commands'[i].id
        BY <3>1, <3>2, <3>4 DEF Rest, IdsInv
      <4>4. \A i \in DOMAIN commands' : commands'[i].id <= given'
        BY <3>1, <3>2, <3>4 DEF Rest, IdsInv
      <4>5. QED
        BY <3>1, <4>2, <4>3, <4>4 DEF Rest, IdsInv
    <3>7. CallsInv'
      BY <3>1 DEF Rest, CallsInv
    <3>8. WorkInv'
      BY <3>1, <3>5 DEF WorkInv
    <3>9. p.id \in inEffect
      BY <3>1 DEF Rest, CallsInv
    <3>10. \A i \in DOMAIN commands : commands[i].id \in inEffect <=> i <= index
      BY <3>5 DEF Rest, StackTellsEffect
    <3>11. StackTellsEffect'
      BY <3>1, <3>2, <3>4, <3>9, <3>10 DEF StackTellsEffect
    <3>12. QED
      BY <3>6, <3>7, <3>8, <3>11 DEF Rest
  <2>3. QED
    BY <2>1, <2>2
<1>6. ASSUME NEW p \in performing, PerformFails(p) PROVE Rest'
  BY <1>6 DEF PerformFails, Rest, IdsInv, CallsInv, WorkInv, StackTellsEffect, Target
<1>7. ASSUME NEW dir \in {"undo", "redo"}, Press(dir) PROVE Rest'
  <2>1. /\ run' = [dir |-> dir, at |-> "sent"] /\ run = NoRun
        /\ UNCHANGED <<commands, index, performing, given, inEffect>>
    BY <1>7 DEF Press, Execute, RunInv
  <2>2. IdsInv' /\ CallsInv'
    BY <2>1 DEF Rest, IdsInv, CallsInv
  <2>3. WorkInv' /\ StackTellsEffect'
    BY <2>1 DEF Rest, WorkInv, StackTellsEffect
  <2>4. QED
    BY <2>2, <2>3 DEF Rest
<1>8. CASE RunReaches
  <2> DEFINE i == Target(run.dir)
  <2>1. /\ run # NoRun /\ run.dir \in {"undo", "redo"}
        /\ i \in DOMAIN commands
        /\ run' = [run EXCEPT !.at = "reached"]
        /\ UNCHANGED <<index, performing, given>>
    BY <1>8 DEF RunReaches, RunInv, NoRun
  <2>2. run'.dir = run.dir /\ run' # NoRun /\ run'.at = "reached"
    BY <2>1 DEF NoRun
  <2>3. /\ DOMAIN commands' = DOMAIN commands
        /\ \A j \in DOMAIN commands : commands'[j].id = commands[j].id
    <3>1. CASE run.dir = "undo"
      BY <1>8, <3>1 DEF RunReaches
    <3>2. CASE run.dir # "undo"
      <4>1. commands' = [commands EXCEPT ![i] = [commands[i] EXCEPT !.cmd = Recorded(commands[i].cmd, content)]]
        BY <1>8, <3>2 DEF RunReaches
      <4>2. [commands[i] EXCEPT !.cmd = Recorded(commands[i].cmd, content)].id = commands[i].id
        BY <2>1 DEF Entries
      <4>3. QED
        BY <2>1, <4>1, <4>2
    <3>3. QED
      BY <3>1, <3>2
  <2>4. inEffect' = IF run.dir = "undo" THEN inEffect \ {commands[i].id} ELSE inEffect \cup {commands[i].id}
    BY <1>8 DEF RunReaches
  <2> HIDE DEF i
  <2>5. IdsInv'
    BY <2>1, <2>3, <2>4 DEF Rest, IdsInv
  <2>6. CallsInv'
    BY <2>1, <2>4 DEF Rest, IdsInv, CallsInv
  <2>7. Target(run.dir)' = i
    BY <2>1, <2>2 DEF Target, i
  <2>8. WorkInv'
    BY <2>1, <2>2, <2>3, <2>4, <2>7 DEF WorkInv
  <2>9. \A j \in DOMAIN commands : j # i => (commands[j].id \in inEffect' <=> commands[j].id \in inEffect)
    BY <2>1, <2>4 DEF Rest, IdsInv
  <2>10. StackTellsEffect'
    BY <2>1, <2>2, <2>3, <2>7, <2>9 DEF Rest, StackTellsEffect, i
  <2>11. QED
    BY <2>5, <2>6, <2>8, <2>10 DEF Rest
<1>9. CASE RunEnds
  <2> DEFINE i == Target(run.dir)
             next == IF run.dir = "undo" THEN i - 1 ELSE i + 1
  <2>1. /\ run # NoRun /\ run.dir \in {"undo", "redo"} /\ run.at = "reached"
        /\ i \in DOMAIN commands
        /\ index' = IF run.dir = "undo" THEN i - 1 ELSE i
        /\ UNCHANGED <<commands, performing, given, inEffect>>
    BY <1>9 DEF RunEnds, RunInv, NoRun
  <2>2. IdsInv' /\ CallsInv'
    BY <2>1 DEF Rest, IdsInv, CallsInv
  <2>3. run'.at # "reached"
    BY <1>9 DEF RunEnds, Execute, NoRun
  <2>4. commands[i].id \in inEffect <=> run.dir = "redo"
    BY <2>1 DEF Rest, WorkInv
  <2>5. \A j \in DOMAIN commands : j # i => (commands[j].id \in inEffect <=> j <= index)
    BY <2>1 DEF Rest, StackTellsEffect
  <2>6. \A j \in DOMAIN commands : commands[j].id \in inEffect <=> j <= index'
    <3>1. CASE run.dir = "undo"
      BY <2>1, <2>4, <2>5, <3>1 DEF Target
    <3>2. CASE run.dir = "redo"
      BY <2>1, <2>4, <2>5, <3>2 DEF Target
    <3>3. QED
      BY <2>1, <3>1, <3>2
  <2>7. WorkInv' /\ StackTellsEffect'
    BY <2>1, <2>3, <2>6 DEF WorkInv, StackTellsEffect
  <2>8. QED
    BY <2>2, <2>7 DEF Rest
<1>10. CASE RunFails
  <2>1. /\ run # NoRun /\ run' # NoRun /\ run'.dir = run.dir /\ run'.at = "failed"
        /\ UNCHANGED <<commands, index, performing, given, inEffect>>
    BY <1>10 DEF RunFails, NoRun
  <2>2. IdsInv' /\ CallsInv'
    BY <2>1 DEF Rest, IdsInv, CallsInv
  <2>3. WorkInv' /\ StackTellsEffect'
    BY <2>1 DEF Rest, WorkInv, StackTellsEffect, Target
  <2>4. QED
    BY <2>2, <2>3 DEF Rest
<1>11. CASE UNCHANGED vars
  BY <1>11 DEF vars, Rest, IdsInv, CallsInv, WorkInv, StackTellsEffect, Target
<1>12. QED
  BY <1>1, <1>2, <1>3, <1>4, <1>5, <1>6, <1>7, <1>8, <1>9, <1>10, <1>11 DEF Next

\* The inductive invariant of the stack, for any overlap of calls and any
\* failure.
THEOREM UndoInvariant == ASSUME Closed PROVE Spec => []UndoInv
<1>1. Init => UndoInv
  <2>1. Init => TypeOK /\ RunInv
    BY TypeInit
  <2>2. Init => IdsInv /\ CallsInv /\ WorkInv /\ StackTellsEffect
    BY DEF Init, IdsInv, CallsInv, WorkInv, StackTellsEffect, NoRun
  <2>3. QED
    BY <2>1, <2>2 DEF UndoInv
<1>2. UndoInv /\ [Next]_vars => UndoInv'
  <2>1. TypeOK /\ RunInv /\ [Next]_vars => (TypeOK /\ RunInv)'
    BY TypeStep
  <2>2. QED
    BY <2>1, RestStep DEF UndoInv, Rest
<1>3. QED
  BY <1>1, <1>2, PTL DEF Spec

\* However calls overlap and fail, what is below the index is in force and what
\* is above it is not (undomanager.ts:79, 130, 160).
THEOREM StackHolds == ASSUME Closed PROVE Spec => []StackTellsEffect
<1>1. UndoInv => StackTellsEffect
  BY DEF UndoInv
<1>2. QED
  BY <1>1, UndoInvariant, PTL

-----------------------------------------------------------------------------
\* Groups.  Calls that overlap may put a command between two of a group; as
\* long as they do not, the loops of undo and redo, which stop at the first
\* command of another group, take a group as a whole.

LEMMA GroupTypes ==
    ASSUME TypeOK
    PROVE  /\ group \in Nat /\ opened \in Nat
           /\ \A i \in DOMAIN commands : commands[i].group \in Nat
           /\ \A p \in performing : p.group \in Nat
<1>1. \A i \in DOMAIN commands : commands[i] \in Entries
  BY LenProperties, ElementOfSeq DEF TypeOK
<1>2. QED
  BY <1>1, UndoAssumption DEF TypeOK, Entries, Calls

\* A step that leaves the groups of the stack alone keeps them together.
LEMMA SameGroups ==
    ASSUME GroupNumbers, GroupsTogether,
           DOMAIN commands' = DOMAIN commands,
           \A i \in DOMAIN commands : commands'[i].group = commands[i].group,
           UNCHANGED <<group, opened>>,
           alone' => alone,
           \A p \in performing' : \E q \in performing : p.group = q.group
    PROVE  GroupNumbers' /\ GroupsTogether'
<1>1. GroupNumbers'
  BY DEF GroupNumbers
<1>2. GroupsTogether'
  BY DEF GroupsTogether
<1>3. QED
  BY <1>1, <1>2

LEMMA GroupStep == ASSUME TypeOK, RunInv, GroupInv, TypeOK', [Next]_vars PROVE GroupInv'
<1> USE Shape, GroupTypes DEF NoGroup
<1>1. CASE BeginGroup
  <2>1. /\ group = 0 /\ opened' = opened + 1 /\ group' = opened + 1
        /\ alone' = (alone /\ Idle)
        /\ UNCHANGED <<commands, index, run, performing>>
    BY <1>1 DEF BeginGroup
  <2>2. GroupNumbers'
    BY <2>1 DEF GroupInv, GroupNumbers
  <2>3. GroupsTogether'
    <3>1. alone' => alone /\ performing = {}
      BY <2>1 DEF Idle
    <3>2. \A i \in DOMAIN commands : commands[i].group # group'
      BY <2>1 DEF GroupInv, GroupNumbers
    <3>3. QED
      BY <2>1, <3>1, <3>2 DEF GroupInv, GroupsTogether
  <2>4. NotBetween'
    BY <2>1 DEF GroupInv, NotBetween
  <2>5. QED
    BY <2>2, <2>3, <2>4 DEF GroupInv
<1>2. CASE EndGroup
  <2>1. /\ group # 0 /\ group' = 0
        /\ \A p \in performing : p.group # group
        /\ UNCHANGED <<commands, index, run, performing, opened, alone>>
    BY <1>2 DEF EndGroup
  <2>2. GroupNumbers'
    BY <2>1 DEF GroupInv, GroupNumbers
  <2>3. GroupsTogether'
    BY <2>1 DEF GroupInv, GroupsTogether
  <2>4. NotBetween'
    BY <2>1 DEF GroupInv, NotBetween
  <2>5. QED
    BY <2>2, <2>3, <2>4 DEF GroupInv
<1>3. ASSUME NEW k \in Offered(content), Perform(k) PROVE GroupInv'
  <2> DEFINE q == [cmd |-> k, group |-> group, id |-> given + 1, at |-> "sent"]
  <2>1. /\ performing' = performing \cup {q} /\ q.group = group
        /\ UNCHANGED <<commands, index, run, group, opened>>
        /\ alone' = (alone /\ Idle)
    BY <1>3 DEF Perform
  <2> HIDE DEF q
  <2>2. GroupNumbers'
    BY <2>1 DEF GroupInv, GroupNumbers
  <2>3. GroupsTogether'
    <3>1. alone' => alone /\ performing' = {q}
      BY <2>1 DEF Idle
    <3>2. QED
      BY <2>1, <3>1 DEF GroupInv, GroupsTogether
  <2>4. NotBetween'
    BY <2>1 DEF GroupInv, NotBetween
  <2>5. QED
    BY <2>2, <2>3, <2>4 DEF GroupInv
<1>4. ASSUME NEW p \in performing, PerformReaches(p) PROVE GroupInv'
  <2> DEFINE q == [p EXCEPT !.cmd = Recorded(p.cmd, content), !.at = "reached"]
  <2>1. /\ performing' = (performing \ {p}) \cup {q}
        /\ UNCHANGED <<commands, index, run, group, opened, alone>>
    BY <1>4 DEF PerformReaches
  <2>2. q.group = p.group
    BY DEF Calls
  <2> HIDE DEF q
  <2>3. GroupNumbers' /\ GroupsTogether'
    <3>1. \A r \in performing' : \E o \in performing : r.group = o.group
      BY <2>1, <2>2
    <3>2. QED
      BY <2>1, <3>1, SameGroups DEF GroupInv
  <2>4. NotBetween'
    BY <2>1 DEF GroupInv, NotBetween
  <2>5. QED
    BY <2>3, <2>4 DEF GroupInv
<1>5. ASSUME NEW p \in performing, PerformEnds(p) PROVE GroupInv'
  <2>1. CASE isExecuting
    <3>1. /\ performing' = performing \ {p}
          /\ UNCHANGED <<commands, index, run, group, opened, alone>>
      BY <1>5, <2>1 DEF PerformEnds, stack
    <3>2. QED
      BY <3>1 DEF GroupInv, GroupNumbers, GroupsTogether, NotBetween
  <2>2. CASE ~isExecuting
    <3> DEFINE e == [cmd |-> p.cmd, group |-> p.group, id |-> p.id]
    <3>1. /\ performing' = performing \ {p}
          /\ commands' = Append(SubSeq(commands, 1, index), e)
          /\ index' = index + 1
          /\ UNCHANGED <<run, group, opened, alone>>
      BY <1>5, <2>2 DEF PerformEnds, Registered
    <3>2. e \in Entries /\ e.group = p.group
      BY DEF Calls, Entries
    <3>3. commands \in Seq(Entries) /\ index \in 0 .. Len(commands)
      BY DEF TypeOK
    <3> HIDE DEF e
    <3>4. /\ DOMAIN commands' = 1 .. index + 1 /\ Len(commands') = index + 1
          /\ \A i \in 1 .. index : commands'[i] = commands[i] /\ i \in DOMAIN commands
          /\ commands'[index + 1] = e
      BY <3>1, <3>2, <3>3, CutAndPush
    <3>5. p.group \in 0 .. MaxGroups
      BY DEF Calls
    <3>6. GroupNumbers'
      BY <3>1, <3>2, <3>4 DEF GroupInv, GroupNumbers
    <3>7. GroupsTogether'
      <4>1. SUFFICES ASSUME alone PROVE GroupsTogether'
        BY <3>1 DEF GroupsTogether
      <4>2. p.group = group
        BY <4>1 DEF GroupInv, GroupsTogether
      <4>3. \A i, j, k \in DOMAIN commands' :
             i < j /\ j < k /\ commands'[i].group = commands'[k].group /\ commands'[i].group # NoGroup
               => commands'[j].group = commands'[i].group
        <5>1. SUFFICES ASSUME NEW i \in DOMAIN commands', NEW j \in DOMAIN commands', NEW k \in DOMAIN commands',
                              i < j, j < k, commands'[i].group = commands'[k].group, commands'[i].group # NoGroup
                       PROVE  commands'[j].group = commands'[i].group
          BY Zenon
        <5>2. CASE k = index + 1
          BY <3>2, <3>4, <4>1, <4>2, <5>1, <5>2 DEF GroupInv, GroupsTogether
        <5>3. CASE k # index + 1
          <6>1. i \in 1 .. index /\ j \in 1 .. index /\ k \in 1 .. index
            BY <3>4, <5>1, <5>3
          <6>2. /\ i \in DOMAIN commands /\ j \in DOMAIN commands /\ k \in DOMAIN commands
                /\ commands[i].group = commands[k].group /\ commands[i].group # NoGroup
            BY <3>4, <5>1, <6>1
          <6>3. commands[j].group = commands[i].group
            BY <4>1, <5>1, <6>2 DEF GroupInv, GroupsTogether
          <6>4. QED
            BY <3>4, <6>1, <6>3
        <5>4. QED
          BY <5>2, <5>3
      <4>4. \A i, j \in DOMAIN commands' :
             i < j /\ group # NoGroup /\ commands'[i].group = group => commands'[j].group = group
        BY <3>2, <3>4, <4>1, <4>2 DEF GroupInv, GroupsTogether
      <4>5. QED
        BY <3>1, <4>1, <4>3, <4>4 DEF GroupInv, GroupsTogether
    <3>8. NotBetween'
      BY <3>1, <3>4 DEF NotBetween
    <3>9. QED
      BY <3>6, <3>7, <3>8 DEF GroupInv
  <2>3. QED
    BY <2>1, <2>2
<1>6. ASSUME NEW p \in performing, PerformFails(p) PROVE GroupInv'
  <2>1. /\ performing' \subseteq performing /\ (alone' => alone)
        /\ UNCHANGED <<commands, index, run, group, opened>>
    BY <1>6 DEF PerformFails
  <2>2. GroupNumbers' /\ GroupsTogether'
    BY <2>1, SameGroups DEF GroupInv
  <2>3. NotBetween'
    BY <2>1 DEF GroupInv, NotBetween
  <2>4. QED
    BY <2>2, <2>3 DEF GroupInv
<1>7. ASSUME NEW dir \in {"undo", "redo"}, Press(dir) PROVE GroupInv'
  <2>1. /\ run' = [dir |-> dir, at |-> "sent"] /\ run' # NoRun /\ (alone' => alone)
        /\ UNCHANGED <<commands, index, performing, group, opened>>
    BY <1>7 DEF Press, Execute, NoRun
  <2>2. QED
    BY <2>1 DEF GroupInv, GroupNumbers, GroupsTogether, NotBetween
<1>8. CASE RunReaches
  <2>1. /\ run # NoRun /\ Target(run.dir) \in DOMAIN commands
        /\ run' = [run EXCEPT !.at = "reached"]
        /\ UNCHANGED <<index, performing, group, opened>>
    BY <1>8 DEF RunReaches, RunInv, NoRun
  <2>2. run' # NoRun
    BY <2>1 DEF NoRun
  <2>3. /\ DOMAIN commands' = DOMAIN commands
        /\ \A j \in DOMAIN commands : commands'[j].group = commands[j].group
        /\ alone' => alone
    <3>1. CASE run.dir = "undo"
      BY <1>8, <3>1 DEF RunReaches
    <3>2. CASE run.dir # "undo"
      <4> DEFINE i == Target(run.dir)
                 e == [commands[i] EXCEPT !.cmd = Recorded(commands[i].cmd, content)]
      <4>1. commands' = [commands EXCEPT ![i] = e] /\ (alone' => alone)
        BY <1>8, <3>2 DEF RunReaches
      <4>2. e.group = commands[i].group
        BY <2>1 DEF Entries
      <4>3. QED
        BY <2>1, <4>1, <4>2
    <3>3. QED
      BY <3>1, <3>2
  <2>4. GroupNumbers' /\ GroupsTogether'
    BY <2>1, <2>3, SameGroups DEF GroupInv
  <2>5. NotBetween'
    BY <2>2 DEF NotBetween
  <2>6. QED
    BY <2>4, <2>5 DEF GroupInv
<1>9. CASE RunEnds
  <2> DEFINE i == Target(run.dir)
             next == IF run.dir = "undo" THEN i - 1 ELSE i + 1
  <2>1. /\ run # NoRun /\ run.dir \in {"undo", "redo"}
        /\ i \in DOMAIN commands
        /\ index' = IF run.dir = "undo" THEN i - 1 ELSE i
        /\ UNCHANGED <<commands, performing, group, opened, alone>>
    BY <1>9 DEF RunEnds, RunInv, NoRun
  <2>2. GroupNumbers' /\ GroupsTogether'
    BY <2>1, SameGroups DEF GroupInv
  <2>3. CASE SameGroup(next, commands[i].group)
    <3>1. run' # NoRun
      BY <1>9, <2>3 DEF RunEnds, Execute, NoRun
    <3>2. QED
      BY <2>2, <3>1 DEF GroupInv, NotBetween
  <2>4. CASE ~SameGroup(next, commands[i].group)
    <3>1. SUFFICES ASSUME index' \in 1 .. Len(commands) - 1
                   PROVE  commands[index'].group = 0 \/ commands[index'].group # commands[index' + 1].group
      BY <2>1, <2>2 DEF GroupInv, NotBetween
    <3>2. commands[i].group = 0 \/ next \notin DOMAIN commands \/ commands[next].group # commands[i].group
      BY <2>4 DEF SameGroup
    <3>3. CASE run.dir = "undo"
      BY <2>1, <3>1, <3>2, <3>3
    <3>4. CASE run.dir = "redo"
      BY <2>1, <3>1, <3>2, <3>4
    <3>5. QED
      BY <2>1, <3>3, <3>4
  <2>5. QED
    BY <2>3, <2>4
<1>10. CASE RunFails
  <2>1. /\ run' # NoRun
        /\ UNCHANGED <<commands, index, performing, group, opened, alone>>
    BY <1>10 DEF RunFails, NoRun
  <2>2. QED
    BY <2>1 DEF GroupInv, GroupNumbers, GroupsTogether, NotBetween
<1>11. CASE UNCHANGED vars
  BY <1>11 DEF vars, GroupInv, GroupNumbers, GroupsTogether, NotBetween
<1>12. QED
  BY <1>1, <1>2, <1>3, <1>4, <1>5, <1>6, <1>7, <1>8, <1>9, <1>10, <1>11 DEF Next

\* Groups are undone and redone as a whole (undomanager.ts:128, 158).
THEOREM GroupsHold == ASSUME Closed PROVE Spec => []GroupsWhole
<1>1. Init => GroupInv
  BY DEF Init, GroupInv, GroupNumbers, GroupsTogether, NotBetween, NoGroup
<1>2. UndoInv /\ UndoInv' /\ GroupInv /\ [Next]_vars => GroupInv'
  BY GroupStep DEF UndoInv
<1>3. UndoInv /\ GroupInv => GroupsWhole
  <2>1. SUFFICES ASSUME UndoInv, GroupInv, alone, Idle, group = NoGroup,
                        NEW i \in DOMAIN commands, NEW j \in DOMAIN commands,
                        commands[i].group = commands[j].group, commands[i].group # NoGroup,
                        i <= index, ~(j <= index)
                 PROVE  FALSE
    BY DEF GroupsWhole
  <2>2. /\ DOMAIN commands = 1 .. Len(commands) /\ Len(commands) \in Nat /\ index \in Nat
    BY <2>1, Shape DEF UndoInv
  <2>3. index \in 1 .. Len(commands) - 1 /\ index + 1 \in DOMAIN commands /\ index \in DOMAIN commands
    BY <2>1, <2>2
  <2>4. commands[index].group = commands[i].group /\ commands[index + 1].group = commands[i].group
    BY <2>1, <2>2, <2>3 DEF GroupInv, GroupsTogether
  <2>5. QED
    BY <2>1, <2>3, <2>4 DEF GroupInv, NotBetween, Idle
<1>4. QED
  BY <1>1, <1>2, <1>3, UndoInvariant, PTL DEF Spec

-----------------------------------------------------------------------------
(* Why undo takes the user back: if every command, taken alone, can be     *)
(* undone and done again, then so can any stack of them, in any order of   *)
(* undo, redo and new commands, whatever is cut off the stack on the way.  *)

\* <<c, d>> of behind: a user sees the same of both, and commands do the same
\* to both; d may hold more that is deleted.  <<k, a, b>> of leads: the recorded
\* command k was done on a, and b is what it made of it.  A command that was done
\* leads to what is there now, its undo leads back, and its redo there again.
Reverting(leads, behind) ==
    /\ \A c \in Contents : <<c, c>> \in behind
    /\ \A c, d \in Contents : <<c, d>> \in behind => Visible(c) = Visible(d)
    /\ \A c, d \in Contents : \A k \in Offered(d) : <<c, d>> \in behind =>
         \E b \in Contents : <<Recorded(k, d), c, b>> \in leads /\ <<b, Redo(k, d)>> \in behind
    /\ \A k \in Commands, a, b, d \in Contents :
         <<k, a, b>> \in leads /\ <<b, d>> \in behind => <<a, Undo(k, d)>> \in behind
    /\ \A k \in Commands, a, b, d \in Contents :
         <<k, a, b>> \in leads /\ <<a, d>> \in behind /\ Repeatable(k) =>
            <<b, Redo(k, d)>> \in behind /\ <<Recorded(k, d), a, b>> \in leads

\* One call at a time.
AtMostOne == \A p \in performing : performing = {p} /\ run = NoRun

\* The past of the stack: each command leads from one content to the next one,
\* and a shot is what was visible of it.
StackLeads(leads, w) ==
    /\ w \in Seq(Contents) /\ Len(w) = Len(commands) + 1
    /\ \A i \in 1 .. Len(commands) + 1 : shots[i] = Visible(w[i])
    /\ \A i \in DOMAIN commands : <<commands[i].cmd, w[i], w[i + 1]>> \in leads

\* Where the content is on the way from one to the next.
PerformLeads(leads, behind, w) ==
    \A p \in performing :
        IF p.at = "sent" THEN p.cmd \in Offered(content) /\ <<w[index + 1], content>> \in behind
        ELSE \E b \in Contents : /\ <<p.cmd, w[index + 1], b>> \in leads
                                 /\ <<b, content>> \in behind

RunLeads(behind, w) ==
    performing = {} =>
        /\ run.at \in {"none", "sent"} => <<w[index + 1], content>> \in behind
        /\ run.at = "reached" =>
             <<w[IF run.dir = "undo" THEN index ELSE index + 2], content>> \in behind

Past(leads, behind, w) ==
    StackLeads(leads, w) /\ PerformLeads(leads, behind, w) /\ RunLeads(behind, w)

BackInv(leads, behind) == alone => AtMostOne /\ \E w : Past(leads, behind, w)

LEMMA PastShape ==
    ASSUME TypeOK, NEW leads, NEW w, StackLeads(leads, w)
    PROVE  /\ DOMAIN w = 1 .. Len(commands) + 1
           /\ \A i \in DOMAIN w : w[i] \in Contents
           /\ index \in 0 .. Len(commands)
           /\ w[index + 1] \in Contents
<1>1. DOMAIN w = 1 .. Len(w) /\ \A i \in DOMAIN w : w[i] \in Contents
  BY LenProperties, ElementOfSeq DEF StackLeads
<1>2. index + 1 \in 1 .. Len(commands) + 1
  BY Shape DEF TypeOK
<1>3. QED
  BY <1>1, <1>2 DEF TypeOK, StackLeads

LEMMA PastStays ==
    ASSUME NEW leads, NEW behind, AtMostOne, \E w : Past(leads, behind, w),
           UNCHANGED <<content, commands, index, run, performing, shots>>
    PROVE  AtMostOne' /\ \E w : Past(leads, behind, w)'
BY DEF AtMostOne, Past, StackLeads, PerformLeads, RunLeads

LEMMA BackStep ==
    ASSUME Closed, NEW leads, NEW behind, Reverting(leads, behind),
           TypeOK, RunInv, BackInv(leads, behind), TypeOK', [Next]_vars, alone'
    PROVE  AtMostOne' /\ \E w : Past(leads, behind, w)'
<1> USE Shape
<1>a. /\ index \in 0 .. Len(commands) /\ content \in Contents
      /\ run \in Runs /\ alone \in BOOLEAN
      /\ Len(commands) \in Nat /\ DOMAIN commands = 1 .. Len(commands)
  BY DEF TypeOK
<1>b. alone => AtMostOne /\ \E w : Past(leads, behind, w)
  BY DEF BackInv
<1>1. CASE BeginGroup
  <2>1. UNCHANGED <<content, commands, index, run, performing, shots>> /\ alone
    BY <1>1 DEF BeginGroup
  <2>2. QED
    BY <1>b, <2>1, PastStays
<1>2. CASE EndGroup
  <2>1. UNCHANGED <<content, commands, index, run, performing, shots, alone>>
    BY <1>2 DEF EndGroup
  <2>2. QED
    BY <1>b, <2>1, PastStays
<1>3. ASSUME NEW k \in Offered(content), Perform(k)
      PROVE  AtMostOne' /\ \E w : Past(leads, behind, w)'
  <2> DEFINE q == [cmd |-> k, group |-> group, id |-> given + 1, at |-> "sent"]
  <2>1. /\ alone /\ run = NoRun /\ performing = {} /\ performing' = {q}
        /\ UNCHANGED <<content, commands, index, run, shots>>
    BY <1>3 DEF Perform, Idle
  <2>2. PICK w : Past(leads, behind, w)
    BY <1>b, <2>1
  <2>3. <<w[index + 1], content>> \in behind /\ StackLeads(leads, w)
    BY <2>1, <2>2 DEF Past, RunLeads, NoRun
  <2>4. q.at = "sent" /\ q.cmd = k
    OBVIOUS
  <2> HIDE DEF q
  <2>5. AtMostOne'
    BY <2>1 DEF AtMostOne
  <2>6. Past(leads, behind, w)'
    BY <2>1, <2>3, <2>4 DEF Past, StackLeads, PerformLeads, RunLeads
  <2>7. QED
    BY <2>5, <2>6
<1>4. ASSUME NEW p \in performing, PerformReaches(p)
      PROVE  AtMostOne' /\ \E w : Past(leads, behind, w)'
  <2> DEFINE q == [p EXCEPT !.cmd = Recorded(p.cmd, content), !.at = "reached"]
  <2>1. /\ alone /\ p.at = "sent" /\ content' = Redo(p.cmd, content)
        /\ performing' = (performing \ {p}) \cup {q}
        /\ UNCHANGED <<commands, index, run, shots>>
    BY <1>4 DEF PerformReaches
  <2>2. PICK w : Past(leads, behind, w)
    BY <1>b, <2>1
  <2>3. performing = {p} /\ run = NoRun
    BY <1>b, <2>1 DEF AtMostOne
  <2>4. /\ p.cmd \in Offered(content) /\ <<w[index + 1], content>> \in behind
        /\ StackLeads(leads, w)
    BY <2>1, <2>2 DEF Past, PerformLeads
  <2>5. q.at = "reached" /\ q.cmd = Recorded(p.cmd, content)
    BY DEF Calls
  <2> HIDE DEF q
  <2>6. w[index + 1] \in Contents
    BY <2>4, PastShape
  <2>7. \E b \in Contents : <<q.cmd, w[index + 1], b>> \in leads /\ <<b, content'>> \in behind
    BY <1>a, <2>1, <2>4, <2>5, <2>6 DEF Reverting
  <2>8. performing' = {q}
    BY <2>1, <2>3
  <2>9. AtMostOne'
    BY <2>1, <2>3, <2>8 DEF AtMostOne
  <2>10. Past(leads, behind, w)'
    BY <2>1, <2>4, <2>5, <2>7, <2>8 DEF Past, StackLeads, PerformLeads, RunLeads
  <2>11. QED
    BY <2>9, <2>10
<1>5. ASSUME NEW p \in performing, PerformEnds(p)
      PROVE  AtMostOne' /\ \E w : Past(leads, behind, w)'
  <2> DEFINE e == [cmd |-> p.cmd, group |-> p.group, id |-> p.id]
             v == Visible(content)
  <2>1. alone /\ p.at = "reached" /\ performing' = performing \ {p} /\ UNCHANGED <<content, run>>
    BY <1>5 DEF PerformEnds
  <2>2. PICK w : Past(leads, behind, w)
    BY <1>b, <2>1
  <2>3. performing = {p} /\ run = NoRun /\ ~isExecuting /\ StackLeads(leads, w)
    BY <1>b, <2>1, <2>2 DEF AtMostOne, RunInv, Past
  <2>4. PICK b \in Contents : <<p.cmd, w[index + 1], b>> \in leads /\ <<b, content>> \in behind
    BY <2>1, <2>2 DEF Past, PerformLeads
  <2>5. /\ commands' = Append(SubSeq(commands, 1, index), e)
        /\ index' = index + 1
        /\ shots' = Append(SubSeq(shots, 1, index + 1), v)
    BY <1>5, <2>3 DEF PerformEnds, Registered
  <2>6. e \in Entries /\ e.cmd = p.cmd /\ v \in Sights
    BY <1>a DEF Calls, Entries, Sights
  <2>7. v = Visible(b)
    BY <1>a, <2>4 DEF Reverting
  <2>8. /\ commands \in Seq(Entries)
        /\ shots \in Seq(Sights) /\ index + 1 \in 0 .. Len(shots)
        /\ w \in Seq(Contents) /\ index + 1 \in 0 .. Len(w)
    BY <1>a, <2>3 DEF TypeOK, StackLeads
  <2> HIDE DEF e, v
  <2>9. /\ DOMAIN commands' = 1 .. index + 1 /\ Len(commands') = index + 1
        /\ \A i \in 1 .. index : commands'[i] = commands[i] /\ i \in DOMAIN commands
        /\ commands'[index + 1] = e
    BY <1>a, <2>5, <2>6, <2>8, CutAndPush
  <2>10. /\ \A i \in 1 .. index + 1 : shots'[i] = shots[i]
         /\ shots'[index + 2] = v
    <3>1. /\ \A i \in 1 .. index + 1 : Append(SubSeq(shots, 1, index + 1), v)[i] = shots[i]
          /\ Append(SubSeq(shots, 1, index + 1), v)[(index + 1) + 1] = v
      BY <2>6, <2>8, CutAndPush
    <3>2. QED
      BY <1>a, <2>5, <3>1
  <2>11. PICK x \in Seq(Contents) : /\ Len(x) = index + 2
                                   /\ \A i \in 1 .. index + 1 : x[i] = w[i]
                                   /\ x[index + 2] = b
    <3> DEFINE y == Append(SubSeq(w, 1, index + 1), b)
    <3>1. /\ y \in Seq(Contents) /\ Len(y) = (index + 1) + 1
          /\ \A i \in 1 .. index + 1 : y[i] = w[i]
          /\ y[(index + 1) + 1] = b
      BY <2>4, <2>8, CutAndPush
    <3> HIDE DEF y
    <3>2. QED
      BY <1>a, <3>1
  <2>12. \A i \in 1 .. index + 2 : shots'[i] = Visible(x[i])
    <3>1. ASSUME NEW i \in 1 .. index + 1 PROVE shots'[i] = Visible(x[i])
      BY <1>a, <2>3, <2>10, <2>11, <3>1 DEF StackLeads
    <3>2. QED
      BY <1>a, <2>7, <2>10, <2>11, <3>1
  <2>13. \A i \in 1 .. index + 1 : <<commands'[i].cmd, x[i], x[i + 1]>> \in leads
    <3>1. ASSUME NEW i \in 1 .. index PROVE <<commands'[i].cmd, x[i], x[i + 1]>> \in leads
      <4>1. i \in 1 .. index + 1 /\ i + 1 \in 1 .. index + 1
        BY <1>a
      <4>2. QED
        BY <2>3, <2>9, <2>11, <4>1 DEF StackLeads
    <3>2. <<commands'[index + 1].cmd, x[index + 1], x[index + 2]>> \in leads
      <4>1. index + 1 \in 1 .. index + 1
        BY <1>a
      <4>2. x[index + 1] = w[index + 1]
        BY <2>11, <4>1
      <4>3. QED
        BY <2>4, <2>6, <2>9, <2>11, <4>2
    <3>3. ASSUME NEW i \in 1 .. index + 1
          PROVE  <<commands'[i].cmd, x[i], x[i + 1]>> \in leads
      <4>1. CASE i = index + 1
        <5>1. i + 1 = index + 2
          BY <1>a, <4>1
        <5>2. QED
          BY <3>2, <4>1, <5>1
      <4>2. CASE i # index + 1
        <5>1. i \in 1 .. index
          BY <1>a, <4>2
        <5>2. QED
          BY <3>1, <5>1
      <4>3. QED
        BY <4>1, <4>2
    <3>4. QED
      BY <3>3
  <2>14. StackLeads(leads, x)'
    <3>1. Len(commands') + 1 = index + 2
      BY <1>a, <2>9
    <3>2. QED
      BY <2>9, <2>11, <2>12, <2>13, <3>1 DEF StackLeads
  <2>15. performing' = {} /\ run' = NoRun /\ <<x[index' + 1], content'>> \in behind
    <3>1. index' + 1 = index + 2
      BY <1>a, <2>5
    <3>2. performing' = {} /\ run' = NoRun /\ content' = content
      BY <2>1, <2>3
    <3>3. x[index' + 1] = b
      BY <2>11, <3>1
    <3>4. QED
      BY <2>4, <3>2, <3>3
  <2>16. AtMostOne' /\ Past(leads, behind, x)'
    <3>1. AtMostOne' /\ PerformLeads(leads, behind, x)'
      BY <2>15 DEF AtMostOne, PerformLeads
    <3>2. RunLeads(behind, x)'
      BY <2>15 DEF RunLeads, NoRun
    <3>3. QED
      BY <2>14, <3>1, <3>2 DEF Past
  <2>17. QED
    BY <2>16
<1>6. ASSUME NEW p \in performing, PerformFails(p)
      PROVE  AtMostOne' /\ \E w : Past(leads, behind, w)'
  <2>1. /\ alone /\ p.at = "sent" /\ performing' = performing \ {p}
        /\ UNCHANGED <<content, commands, index, run, shots>>
    BY <1>6 DEF PerformFails
  <2>2. PICK w : Past(leads, behind, w)
    BY <1>b, <2>1
  <2>3. performing = {p} /\ run = NoRun
    BY <1>b, <2>1 DEF AtMostOne
  <2>4. StackLeads(leads, w) /\ <<w[index + 1], content>> \in behind
    BY <2>1, <2>2 DEF Past, PerformLeads
  <2>5. AtMostOne' /\ Past(leads, behind, w)'
    BY <2>1, <2>3, <2>4 DEF AtMostOne, Past, StackLeads, PerformLeads, RunLeads, NoRun
  <2>6. QED
    BY <2>5
<1>7. ASSUME NEW dir \in {"undo", "redo"}, Press(dir)
      PROVE  AtMostOne' /\ \E w : Past(leads, behind, w)'
  <2>1. /\ alone /\ performing = {} /\ run = NoRun /\ run' = [dir |-> dir, at |-> "sent"]
        /\ UNCHANGED <<content, commands, index, performing, shots>>
    BY <1>7 DEF Press, Execute, Idle
  <2>2. PICK w : Past(leads, behind, w)
    BY <1>b, <2>1
  <2>3. StackLeads(leads, w) /\ <<w[index + 1], content>> \in behind
    BY <2>1, <2>2 DEF Past, RunLeads, NoRun
  <2>4. AtMostOne' /\ Past(leads, behind, w)'
    BY <2>1, <2>3 DEF AtMostOne, Past, StackLeads, PerformLeads, RunLeads
  <2>5. QED
    BY <2>4
<1>8. CASE RunReaches
  <2> DEFINE i == Target(run.dir)
  <2>1. /\ run # NoRun /\ run.at = "sent" /\ run.dir \in {"undo", "redo"}
        /\ i \in DOMAIN commands
        /\ run' = [run EXCEPT !.at = "reached"]
        /\ UNCHANGED <<index, performing, shots>>
    BY <1>8 DEF RunReaches, RunInv, NoRun
  <2>2. run'.at = "reached" /\ run'.dir = run.dir
    BY <2>1
  <2>3. alone
    BY <1>8 DEF RunReaches
  <2>4. PICK w : Past(leads, behind, w)
    BY <1>b, <2>3
  <2>5. performing = {} /\ StackLeads(leads, w) /\ <<w[index + 1], content>> \in behind
    <3>1. performing = {}
      BY <1>b, <2>1, <2>3 DEF AtMostOne
    <3>2. QED
      BY <2>1, <2>4, <3>1 DEF Past, RunLeads
  <2>6. /\ commands[i].cmd \in Commands
        /\ w[i] \in Contents /\ w[i + 1] \in Contents
        /\ <<commands[i].cmd, w[i], w[i + 1]>> \in leads
    <3>1. i \in 1 .. Len(commands) + 1 /\ i + 1 \in 1 .. Len(commands) + 1
      BY <1>a, <2>1
    <3>2. w[i] \in Contents /\ w[i + 1] \in Contents
      BY <2>5, <3>1, PastShape
    <3>3. commands[i] \in Entries
      BY <2>1, ElementOfSeq DEF TypeOK
    <3>4. QED
      BY <2>1, <2>5, <3>2, <3>3 DEF StackLeads, Entries
  <2>7. CASE run.dir = "undo"
    <3>1. commands' = commands /\ content' = Undo(commands[i].cmd, content) /\ i = index
      BY <1>8, <2>7 DEF RunReaches, Target
    <3>2. <<w[index], content'>> \in behind
      BY <1>a, <2>5, <2>6, <3>1 DEF Reverting
    <3>3. AtMostOne' /\ Past(leads, behind, w)'
      BY <2>1, <2>2, <2>5, <2>7, <3>1, <3>2 DEF AtMostOne, Past, StackLeads, PerformLeads, RunLeads
    <3>4. QED
      BY <3>3
  <2>8. CASE run.dir = "redo"
    <3> DEFINE e == [commands[i] EXCEPT !.cmd = Recorded(commands[i].cmd, content)]
    <3>1. /\ content' = Redo(commands[i].cmd, content) /\ i = index + 1
          /\ commands' = [commands EXCEPT ![i] = e]
          /\ Repeatable(commands[i].cmd)
      BY <1>8, <2>8 DEF RunReaches, Target
    <3>2. e.cmd = Recorded(commands[i].cmd, content)
      BY <2>1 DEF Entries
    <3>3. <<w[i + 1], content'>> \in behind /\ <<e.cmd, w[i], w[i + 1]>> \in leads
      BY <1>a, <2>5, <2>6, <3>1, <3>2 DEF Reverting
    <3> HIDE DEF e, i
    <3>4. DOMAIN commands' = DOMAIN commands /\ Len(commands') = Len(commands)
      BY <2>1, <3>1 DEF TypeOK
    <3>5. StackLeads(leads, w)'
      BY <2>1, <2>5, <3>1, <3>3, <3>4 DEF StackLeads
    <3>6. index' + 2 = i + 1
      BY <1>a, <2>1, <3>1
    <3>7. AtMostOne' /\ Past(leads, behind, w)'
      BY <2>1, <2>2, <2>5, <2>8, <3>3, <3>5, <3>6 DEF AtMostOne, Past, PerformLeads, RunLeads
    <3>8. QED
      BY <3>7
  <2>9. QED
    BY <2>1, <2>7, <2>8
<1>9. CASE RunEnds
  <2> DEFINE i == Target(run.dir)
  <2>1. /\ run # NoRun /\ run.at = "reached" /\ run.dir \in {"undo", "redo"}
        /\ index' = IF run.dir = "undo" THEN i - 1 ELSE i
        /\ alone
        /\ UNCHANGED <<content, commands, performing, shots>>
    BY <1>9 DEF RunEnds, RunInv, NoRun
  <2>2. run'.at \in {"none", "sent"}
    BY <1>9 DEF RunEnds, Execute, NoRun
  <2>3. PICK w : Past(leads, behind, w)
    BY <1>b, <2>1
  <2>4. performing = {} /\ StackLeads(leads, w)
    BY <1>b, <2>1, <2>3 DEF AtMostOne, Past
  <2>5. index' + 1 = (IF run.dir = "undo" THEN index ELSE index + 2)
    BY <1>a, <2>1 DEF Target
  <2>6. <<w[index' + 1], content>> \in behind
    BY <2>1, <2>3, <2>4, <2>5 DEF Past, RunLeads
  <2>7. AtMostOne' /\ Past(leads, behind, w)'
    BY <2>1, <2>2, <2>4, <2>6 DEF AtMostOne, Past, StackLeads, PerformLeads, RunLeads
  <2>8. QED
    BY <2>7
<1>10. CASE RunFails
  <2>1. /\ run # NoRun /\ run'.at = "failed" /\ alone
        /\ UNCHANGED <<content, commands, index, performing, shots>>
    BY <1>10 DEF RunFails, NoRun
  <2>2. PICK w : Past(leads, behind, w)
    BY <1>b, <2>1
  <2>3. performing = {} /\ StackLeads(leads, w)
    BY <1>b, <2>1, <2>2 DEF AtMostOne, Past
  <2>4. AtMostOne' /\ Past(leads, behind, w)'
    BY <2>1, <2>3 DEF AtMostOne, Past, StackLeads, PerformLeads, RunLeads
  <2>5. QED
    BY <2>4
<1>11. CASE UNCHANGED vars
  <2>1. UNCHANGED <<content, commands, index, run, performing, shots, alone>>
    BY <1>11 DEF vars
  <2>2. QED
    BY <1>b, <2>1, PastStays
<1>12. QED
  BY <1>1, <1>2, <1>3, <1>4, <1>5, <1>6, <1>7, <1>8, <1>9, <1>10, <1>11 DEF Next

LEMMA PastHolds ==
    ASSUME Closed, NEW leads, NEW behind, Reverting(leads, behind)
    PROVE  Spec => []BackInv(leads, behind)
<1>1. Init => BackInv(leads, behind)
  <2>1. SUFFICES ASSUME Init PROVE AtMostOne /\ \E w : Past(leads, behind, w)
    BY DEF BackInv
  <2>2. content \in Contents
    BY <2>1 DEF Init, Closed
  <2> DEFINE w == <<content>>
  <2>3. w \in Seq(Contents) /\ Len(w) = 1 /\ w[1] = content
    BY <2>2
  <2>4. /\ commands = <<>> /\ index = 0 /\ run = NoRun /\ performing = {}
        /\ shots = <<Visible(content)>>
    BY <2>1 DEF Init
  <2>5. Len(commands) = 0 /\ DOMAIN commands = {}
    BY <2>4
  <2>6. shots[1] = Visible(content) /\ <<content, content>> \in behind
    BY <2>2, <2>4 DEF Reverting
  <2> HIDE DEF w
  <2>7. StackLeads(leads, w)
    BY <2>3, <2>5, <2>6 DEF StackLeads
  <2>8. Past(leads, behind, w)
    BY <2>3, <2>4, <2>6, <2>7 DEF Past, PerformLeads, RunLeads, NoRun
  <2>9. QED
    BY <2>4, <2>8 DEF AtMostOne
<1>2. UndoInv /\ UndoInv' /\ BackInv(leads, behind) /\ [Next]_vars => BackInv(leads, behind)'
  <2>1. SUFFICES ASSUME UndoInv, UndoInv', BackInv(leads, behind), [Next]_vars, alone'
                 PROVE  AtMostOne' /\ \E w : Past(leads, behind, w)'
    BY DEF BackInv
  <2>2. TypeOK /\ RunInv /\ TypeOK'
    BY <2>1 DEF UndoInv
  <2>3. QED
    BY <2>1, <2>2, BackStep
<1>3. QED
  BY <1>1, <1>2, UndoInvariant, PTL DEF Spec

\* Commands that can be undone and done again one by one can be so together:
\* with one call at a time the user always sees what he saw when as many
\* commands had been done (undomanager.ts:118, 148).
THEOREM BackHolds ==
    ASSUME Closed, NEW leads, NEW behind, Reverting(leads, behind)
    PROVE  Spec => []BackWhereItWas
<1>1. UndoInv /\ BackInv(leads, behind) => BackWhereItWas
  <2>1. SUFFICES ASSUME UndoInv, BackInv(leads, behind), alone, Idle
                 PROVE  Visible(content) = shots[index + 1]
    BY DEF BackWhereItWas
  <2>2. PICK w : Past(leads, behind, w)
    BY <2>1 DEF BackInv
  <2>3. TypeOK /\ StackLeads(leads, w)
    BY <2>1, <2>2 DEF UndoInv, Past
  <2>4. <<w[index + 1], content>> \in behind
    BY <2>1, <2>2 DEF Past, RunLeads, Idle, NoRun
  <2>5. index + 1 \in 1 .. Len(commands) + 1 /\ w[index + 1] \in Contents /\ content \in Contents
    BY <2>3, Shape, PastShape DEF TypeOK
  <2>6. QED
    BY <2>3, <2>4, <2>5 DEF Reverting, StackLeads
<1>2. QED
  BY <1>1, PastHolds, UndoInvariant, PTL

-----------------------------------------------------------------------------
(* What the two patches of a change are worth: the first leads from the    *)
(* old form to the new one, the second back, for every block and for every *)
(* board whose own keys do not change.  Of the templates of a board this   *)
(* holds when their list changes; how a template loses a flag or gains one *)
(* is left to TLC (MCMutator).                                             *)

IsMap(f) == f = [k \in DOMAIN f |-> f[k]]

\* Two maps with the same keys and the same values are the same.
LEMMA SameMap ==
    ASSUME NEW f, NEW g, IsMap(f), IsMap(g),
           DOMAIN f = DOMAIN g, \A k \in DOMAIN f : f[k] = g[k]
    PROVE  f = g
BY DEF IsMap

LEMMA OverMap ==
    ASSUME NEW f, NEW g
    PROVE  /\ IsMap(Over(f, g))
           /\ DOMAIN Over(f, g) = DOMAIN f \cup DOMAIN g
           /\ \A k \in DOMAIN g : Over(f, g)[k] = g[k]
           /\ \A k \in DOMAIN f \ DOMAIN g : Over(f, g)[k] = f[k]
BY DEF Over, IsMap

LEMMA WithoutMap ==
    ASSUME NEW f, NEW keys
    PROVE  /\ IsMap(Without(f, keys))
           /\ DOMAIN Without(f, keys) = DOMAIN f \ keys
           /\ \A k \in DOMAIN f \ keys : Without(f, keys)[k] = f[k]
BY DEF Without, IsMap

\* What is changed is laid over the old form, what is gone is taken out: the
\* result is the new form.  The patch may say more than what differs.
LEMMA OverWithout ==
    ASSUME NEW to, NEW from, NEW patch, IsMap(to),
           DOMAIN patch \subseteq DOMAIN to,
           \A k \in DOMAIN patch : patch[k] = to[k],
           \A k \in DOMAIN to \ DOMAIN patch : k \in DOMAIN from /\ from[k] = to[k]
    PROVE  Without(Over(from, patch), DOMAIN from \ DOMAIN to) = to
<1> DEFINE all == Over(from, patch)
           result == Without(all, DOMAIN from \ DOMAIN to)
<1>1. /\ DOMAIN all = DOMAIN from \cup DOMAIN patch
      /\ \A k \in DOMAIN patch : all[k] = patch[k]
      /\ \A k \in DOMAIN from \ DOMAIN patch : all[k] = from[k]
  BY DEF Over
<1> HIDE DEF all
<1>2. /\ IsMap(result)
      /\ DOMAIN result = DOMAIN all \ (DOMAIN from \ DOMAIN to)
      /\ \A k \in DOMAIN result : result[k] = all[k]
  BY DEF Without, IsMap
<1> HIDE DEF result
<1>3. DOMAIN result = DOMAIN to
  BY <1>1, <1>2
<1>4. \A k \in DOMAIN to : result[k] = to[k]
  BY <1>1, <1>2, <1>3
<1>5. result = to
  BY <1>2, <1>3, <1>4, SameMap
<1>6. QED
  BY <1>5 DEF all, result

\* The patch of a block leads to the form it was computed for, whatever the
\* block's keys are and whichever of them are copies (block.ts:98).
THEOREM BlockPatchLeads ==
    ASSUME NEW to, NEW from, NEW copied, IsMap(to)
    PROVE  PatchBlock(BlockPatch(to, from, copied), from) = to
<1> DEFINE patch == [k \in (DOMAIN to \ DOMAIN from) \cup Changed(to, from, copied) |-> to[k]]
<1>1. /\ DOMAIN patch = (DOMAIN to \ DOMAIN from) \cup Changed(to, from, copied)
      /\ \A k \in DOMAIN patch : patch[k] = to[k]
  OBVIOUS
<1>2. /\ BlockPatch(to, from, copied).updatedFields = patch
      /\ BlockPatch(to, from, copied).deletedFields = DOMAIN from \ DOMAIN to
  BY DEF BlockPatch
<1> HIDE DEF patch
<1>3. Changed(to, from, copied) \subseteq DOMAIN to
  BY DEF Changed
<1>4. \A k \in DOMAIN to \ DOMAIN patch : k \in DOMAIN from /\ from[k] = to[k]
  BY <1>1 DEF Changed
<1>5. Without(Over(from, patch), DOMAIN from \ DOMAIN to) = to
  BY <1>1, <1>3, <1>4, OverWithout
<1>6. QED
  BY <1>2, <1>5 DEF PatchBlock

\* The two patches of a change of a block are inverse to each other: undoing
\* the change gives the block it was made on, and redoing it the new one
\* (block.ts:98).
THEOREM BlockPatchesRevert ==
    ASSUME NEW new, NEW old, NEW copied, IsMap(new), IsMap(old)
    PROVE  LET patches == createPatchesFromBlocks(new, old, copied) IN
             /\ PatchBlock(patches[1], old) = new
             /\ PatchBlock(patches[2], new) = old
BY BlockPatchLeads DEF createPatchesFromBlocks

-----------------------------------------------------------------------------
(* Boards.                                                                 *)

\* Forms of a board that share the keys of the board itself.
SameKeys(a, b) ==
    /\ IsMap(a.data) /\ IsMap(a.properties)
    /\ IsMap(b.data) /\ IsMap(b.properties)
    /\ DOMAIN a.data = DOMAIN b.data

LEMMA BoardFieldsLead ==
    ASSUME NEW to, NEW from, NEW cards, SameKeys(to, from)
    PROVE  /\ PatchBoard(BoardPatch(to, from, cards), from).data = to.data
           /\ PatchBoard(BoardPatch(to, from, cards), from).properties = to.properties
<1> DEFINE data == [k \in {k \in DOMAIN to.data : to.data[k] # from.data[k]} |-> to.data[k]]
           properties == [k \in {k \in DOMAIN to.properties :
                                   k \notin DOMAIN from.properties \/ from.properties[k] # to.properties[k]}
                            |-> to.properties[k]]
           patch == BoardPatch(to, from, cards)
<1>1. /\ patch.data = data
      /\ patch.updatedProperties = properties
      /\ patch.deletedProperties = DOMAIN from.properties \ DOMAIN to.properties
  BY DEF BoardPatch
<1>2. /\ DOMAIN data \subseteq DOMAIN to.data
      /\ \A k \in DOMAIN data : data[k] = to.data[k]
      /\ \A k \in DOMAIN to.data \ DOMAIN data : from.data[k] = to.data[k]
  OBVIOUS
<1>3. /\ DOMAIN properties \subseteq DOMAIN to.properties
      /\ \A k \in DOMAIN properties : properties[k] = to.properties[k]
      /\ \A k \in DOMAIN to.properties \ DOMAIN properties :
            k \in DOMAIN from.properties /\ from.properties[k] = to.properties[k]
  OBVIOUS
<1> HIDE DEF data, properties, patch
<1>4. Over(from.data, data) = to.data
  <2>1. /\ IsMap(Over(from.data, data))
        /\ DOMAIN Over(from.data, data) = DOMAIN from.data \cup DOMAIN data
        /\ \A k \in DOMAIN data : Over(from.data, data)[k] = data[k]
        /\ \A k \in DOMAIN from.data \ DOMAIN data : Over(from.data, data)[k] = from.data[k]
    BY OverMap
  <2>2. DOMAIN Over(from.data, data) = DOMAIN to.data
    BY <1>2, <2>1 DEF SameKeys
  <2>3. \A k \in DOMAIN to.data : Over(from.data, data)[k] = to.data[k]
    BY <1>2, <2>1 DEF SameKeys
  <2>4. QED
    BY <2>1, <2>2, <2>3, SameMap DEF SameKeys
<1>5. Without(Over(from.properties, properties), DOMAIN from.properties \ DOMAIN to.properties) = to.properties
  BY <1>3, OverWithout DEF SameKeys
<1>6. QED
  BY <1>1, <1>4, <1>5 DEF PatchBoard, patch

\* Undo of a change of a board restores the board's own keys and its
\* properties, and redo makes them again (board.ts:280).
THEOREM BoardFieldsRevert ==
    ASSUME NEW new, NEW old, SameKeys(new, old)
    PROVE  LET patches == createPatchesFromBoards(new, old)
               after == PatchBoard(patches[1], old)
               before == PatchBoard(patches[2], new)
           IN  /\ after.data = new.data /\ after.properties = new.properties
               /\ before.data = old.data /\ before.properties = old.properties
<1>1. SameKeys(old, new)
  BY DEF SameKeys
<1>2. QED
  BY <1>1, BoardFieldsLead DEF createPatchesFromBoards

-----------------------------------------------------------------------------
(* Templates.                                                              *)

\* JSON carries every key of these templates.
Whole(templates) ==
    /\ \A i \in DOMAIN templates : Stored(templates[i]) = templates[i]
    /\ templates = [i \in DOMAIN templates |-> templates[i]]

\* When templates are added, removed or moved, the server is sent the whole
\* list and stores it as it is, whatever it had: as long as one template is
\* left, the two patches are inverse to each other (board.ts:188, 222).
THEOREM TemplateListsRevert ==
    ASSUME NEW new, NEW old, Whole(new), Whole(old), new # <<>>, old # <<>>,
           IdList(new) # IdList(old)
    PROVE  LET patches == createCardPropertiesPatches(new, old) IN
             /\ PatchCardProperties(patches[1], old) = new
             /\ PatchCardProperties(patches[2], new) = old
<1>1. ASSUME NEW to, NEW from, Whole(to), to # <<>>, IdList(to) # IdList(from)
      PROVE  PatchCardProperties(CardPropertiesPatch(to, from), from) = to
  <2> DEFINE patch == CardPropertiesPatch(to, from)
  <2>1. patch.indexed /\ patch.updated = to
    BY <1>1 DEF CardPropertiesPatch
  <2> HIDE DEF patch
  <2>2. [i \in DOMAIN patch.updated |-> Stored(patch.updated[i])] = to
    BY <1>1, <2>1 DEF Whole
  <2>3. PatchCardProperties(patch, from) = to
    BY <1>1, <2>1, <2>2 DEF PatchCardProperties
  <2>4. QED
    BY <2>3 DEF patch
<1>2. QED
  BY <1>1 DEF createCardPropertiesPatches


-----------------------------------------------------------------------------
(* The commands of mutator.ts in the undo manager: an undo works on what   *)
(* the server stores then, which may hold more deleted blocks than when    *)
(* the command was done.                                                   *)

\* What the server stores, with a role for each member.
Shaped(c) ==
    /\ c = [board |-> c.board, blocks |-> c.blocks, members |-> c.members, follows |-> c.follows]
    /\ c.board = [data |-> c.board.data, properties |-> c.board.properties,
                  cardProperties |-> c.board.cardProperties]
    /\ IsMap(c.board.data) /\ IsMap(c.board.properties)
    /\ IsMap(c.blocks) /\ IsMap(c.members)
    /\ \A id \in DOMAIN c.blocks : LET b == c.blocks[id] IN
         b = [type |-> b.type, alive |-> b.alive, f |-> b.f] /\ b.alive \in BOOLEAN /\ IsMap(b.f)
    /\ \A u \in DOMAIN c.members : c.members[u] # "none"

IsEffect(e) ==
    e = [board |-> e.board, patches |-> e.patches, insert |-> e.insert, alive |-> e.alive,
         members |-> e.members, follows |-> e.follows]

Living(c) == {id \in DOMAIN c.blocks : c.blocks[id].alive}

\* d is c with more blocks that are deleted.
Behind(c, d) ==
    /\ d.board = c.board /\ d.members = c.members /\ d.follows = c.follows
    /\ \A id \in DOMAIN c.blocks : id \in DOMAIN d.blocks /\ d.blocks[id] = c.blocks[id]
    /\ \A id \in DOMAIN d.blocks \ DOMAIN c.blocks : ~d.blocks[id].alive

\* What an effect makes of a block.
After(e, id, b) ==
    LET p == IF id \in DOMAIN e.patches /\ b.alive
             THEN [b EXCEPT !.f = PatchBlock(e.patches[id], @)] ELSE b
    IN  IF id \in DOMAIN e.alive THEN [p EXCEPT !.alive = e.alive[id]] ELSE p

NowMembers(e, c) ==
    LET users == Over(c.members, e.members)
    IN  [u \in {u \in DOMAIN users : users[u] # "none"} |-> users[u]]

NowFollows(e, c) ==
    {b \in c.follows : b \notin DOMAIN e.follows \/ e.follows[b]}
      \cup {b \in DOMAIN e.follows : e.follows[b]}

NowBoard(e, c) == IF e.board = <<>> THEN c.board ELSE PatchBoard(e.board[1], c.board)

LEMMA OverNothing ==
    ASSUME NEW f, NEW g, IsMap(f), DOMAIN g = {}
    PROVE  Over(f, g) = f
BY DEF Over, IsMap

LEMMA NoneInserted ==
    ASSUME NEW blocks, IsMap(blocks)
    PROVE  InsertAll(<<>>, blocks) = blocks
<1> DEFINE ids == NewIds(<<>>, blocks)
           all == [DOMAIN <<>> -> BlockIds \ DOMAIN blocks]
           P(x) == \A i, j \in DOMAIN <<>> : x[i] = x[j] => i = j
<1>1. DOMAIN <<>> = {}
  OBVIOUS
<1>2. \E x \in all : P(x)
  <2>1. [i \in {} |-> i] \in all
    BY <1>1
  <2>2. QED
    BY <1>1, <2>1
<1>3. ids \in all
  <2>1. ids = CHOOSE x \in all : P(x)
    BY DEF NewIds
  <2> HIDE DEF ids, all, P
  <2>2. QED
    BY <1>2, <2>1
<1>4. DOMAIN ids = {}
  BY <1>1, <1>3
<1> HIDE DEF ids, all
<1>5. ToSet(ids) = {}
  BY <1>4 DEF ToSet
<1>6. InsertAll(<<>>, blocks) =
        Over(blocks, [id \in ToSet(ids) |-> <<>>[CHOOSE i \in DOMAIN ids : ids[i] = id]])
  BY DEF InsertAll, ids
<1> DEFINE new == [id \in ToSet(ids) |-> <<>>[CHOOSE i \in DOMAIN ids : ids[i] = id]]
<1>7. DOMAIN new = {}
  BY <1>5
<1> HIDE DEF new
<1>8. QED
  BY <1>6, <1>7, OverNothing DEF new

\* An effect that inserts nothing, block by block.
LEMMA ApplyPlain ==
    ASSUME NEW e, NEW c, e.insert = <<>>
    PROVE  /\ Apply(e, c) = [board |-> NowBoard(e, c), blocks |-> Apply(e, c).blocks,
                             members |-> NowMembers(e, c), follows |-> NowFollows(e, c)]
           /\ IsMap(Apply(e, c).blocks)
           /\ DOMAIN Apply(e, c).blocks = DOMAIN c.blocks
           /\ \A id \in DOMAIN c.blocks : Apply(e, c).blocks[id] = After(e, id, c.blocks[id])
<1> DEFINE patched == PatchBlocks(e.patches, c.blocks)
           lived == [id \in DOMAIN patched |->
                       IF id \in DOMAIN e.alive THEN [patched[id] EXCEPT !.alive = e.alive[id]]
                                                ELSE patched[id]]
<1>1. /\ DOMAIN patched = DOMAIN c.blocks
      /\ \A id \in DOMAIN c.blocks : patched[id] =
           IF id \in DOMAIN e.patches /\ c.blocks[id].alive
           THEN [c.blocks[id] EXCEPT !.f = PatchBlock(e.patches[id], @)] ELSE c.blocks[id]
  BY DEF PatchBlocks
<1>2. Apply(e, c) = [board |-> NowBoard(e, c), blocks |-> InsertAll(e.insert, lived),
                     members |-> NowMembers(e, c), follows |-> NowFollows(e, c)]
  BY DEF Apply, NowBoard, NowMembers, NowFollows
<1> HIDE DEF patched
<1>3. IsMap(lived) /\ DOMAIN lived = DOMAIN c.blocks
  BY <1>1 DEF IsMap
<1>4. \A id \in DOMAIN c.blocks : lived[id] = After(e, id, c.blocks[id])
  BY <1>1 DEF After
<1> HIDE DEF lived
<1>5. Apply(e, c).blocks = lived
  BY <1>2, <1>3, NoneInserted
<1>6. QED
  BY <1>2, <1>3, <1>4, <1>5

\* An effect does the same to a content with more deleted blocks.
LEMMA ApplyBehind ==
    ASSUME NEW e, NEW c, NEW d, e.insert = <<>>, Behind(c, d), DOMAIN e.alive \subseteq DOMAIN c.blocks
    PROVE  Behind(Apply(e, c), Apply(e, d))
<1>1. /\ NowBoard(e, c) = NowBoard(e, d)
      /\ NowMembers(e, c) = NowMembers(e, d)
      /\ NowFollows(e, c) = NowFollows(e, d)
  BY DEF NowBoard, NowMembers, NowFollows, Behind
<1>2. \A id \in DOMAIN d.blocks \ DOMAIN c.blocks : After(e, id, d.blocks[id]) = d.blocks[id]
  BY DEF After, Behind
<1>3. /\ Apply(e, c).board = NowBoard(e, c) /\ Apply(e, d).board = NowBoard(e, d)
      /\ Apply(e, c).members = NowMembers(e, c) /\ Apply(e, d).members = NowMembers(e, d)
      /\ Apply(e, c).follows = NowFollows(e, c) /\ Apply(e, d).follows = NowFollows(e, d)
      /\ DOMAIN Apply(e, c).blocks = DOMAIN c.blocks /\ DOMAIN Apply(e, d).blocks = DOMAIN d.blocks
      /\ \A id \in DOMAIN c.blocks : Apply(e, c).blocks[id] = After(e, id, c.blocks[id])
      /\ \A id \in DOMAIN d.blocks : Apply(e, d).blocks[id] = After(e, id, d.blocks[id])
  BY ApplyPlain
<1>4. QED
  BY <1>1, <1>2, <1>3 DEF Behind

\* A command that inserts nothing, and whose undo takes back what its redo does.
Plain(k, c) ==
    /\ k.redo.insert = <<>> /\ k.undo.insert = <<>> /\ k.made = <<>>
    /\ IsEffect(k.undo) /\ IsMap(k.undo.alive)
    /\ DOMAIN k.redo.alive \cup DOMAIN k.undo.alive \subseteq Living(c)
    /\ Apply(k.undo, Apply(k.redo, c)) = c

\* A command that inserts blocks; the server has ids for them.
Insertion(k, c) ==
    /\ k = insertBlocks(k.redo.insert) /\ k.redo.insert # <<>>
    /\ \E ids \in [DOMAIN k.redo.insert -> BlockIds \ DOMAIN c.blocks] :
         \A i, j \in DOMAIN k.redo.insert : ids[i] = ids[j] => i = j

Undoable(k, c) == Plain(k, c) \/ Insertion(k, c)

LEMMA UndoAlone ==
    ASSUME NEW k, NEW c, k.made = <<>>, IsEffect(k.undo), IsMap(k.undo.alive)
    PROVE  UndoOf(k, c) = Apply(k.undo, c)
<1> DEFINE made == [id \in ToSet(k.made) |-> FALSE]
<1>1. DOMAIN made = {}
  BY DEF ToSet
<1>2. UndoOf(k, c) = Apply([k.undo EXCEPT !.alive = Over(@, made)], c)
  BY DEF UndoOf
<1> HIDE DEF made
<1>3. Over(k.undo.alive, made) = k.undo.alive
  BY <1>1, OverNothing
<1>4. [k.undo EXCEPT !.alive = Over(@, made)] = k.undo
  BY <1>3 DEF IsEffect
<1>5. QED
  BY <1>2, <1>4

\* Done on d, undone from whatever its redo has led to: c, if d is c with more
\* deleted blocks.
LEMMA PlainBack ==
    ASSUME NEW k, NEW c, NEW d, NEW e, Shaped(c), Behind(c, d), Plain(k, d),
           Behind(Apply(k.redo, c), e)
    PROVE  Behind(c, UndoOf(k, e))
<1> DEFINE b == Apply(k.redo, c)
           x == Apply(k.undo, b)
<1>1. DOMAIN k.redo.alive \subseteq DOMAIN c.blocks /\ DOMAIN k.undo.alive \subseteq DOMAIN c.blocks
  BY DEF Plain, Living, Behind
<1>2. Behind(b, Apply(k.redo, d)) /\ DOMAIN b.blocks = DOMAIN c.blocks
  BY <1>1, ApplyBehind, ApplyPlain DEF Plain
<1>3. Behind(b, e) /\ UndoOf(k, e) = Apply(k.undo, e)
  BY UndoAlone DEF Plain
<1> HIDE DEF b
<1>4. Behind(x, d) /\ Behind(x, Apply(k.undo, e)) /\ DOMAIN x.blocks = DOMAIN c.blocks
  BY <1>1, <1>2, <1>3, ApplyBehind, ApplyPlain DEF Plain
<1> HIDE DEF x
<1>5. QED
  BY <1>3, <1>4 DEF Behind

LEMMA IdsGiven ==
    ASSUME NEW new, NEW blocks,
           \E ids \in [DOMAIN new -> BlockIds \ DOMAIN blocks] :
             \A i, j \in DOMAIN new : ids[i] = ids[j] => i = j
    PROVE  ToSet(NewIds(new, blocks)) \cap DOMAIN blocks = {}
<1> DEFINE all == [DOMAIN new -> BlockIds \ DOMAIN blocks]
           P(x) == \A i, j \in DOMAIN new : x[i] = x[j] => i = j
           ids == NewIds(new, blocks)
<1>1. ids = CHOOSE x \in all : P(x)
  BY DEF NewIds
<1>2. \E x \in all : P(x)
  OBVIOUS
<1>3. ids \in all
  <2> HIDE DEF all, P, ids
  <2>1. QED
    BY <1>1, <1>2
<1>4. QED
  BY <1>3 DEF ToSet

LEMMA NobodyElse ==
    ASSUME NEW e, NEW c, Shaped(c)
    PROVE  /\ e.members = <<>> => NowMembers(e, c) = c.members
           /\ e.follows = <<>> => NowFollows(e, c) = c.follows
<1>1. DOMAIN <<>> = {}
  OBVIOUS
<1>2. e.members = <<>> => Over(c.members, e.members) = c.members
  BY <1>1, OverNothing DEF Shaped
<1>3. {u \in DOMAIN c.members : c.members[u] # "none"} = DOMAIN c.members
  BY DEF Shaped
<1>4. ASSUME e.members = <<>> PROVE NowMembers(e, c) = c.members
  <2>1. NowMembers(e, c) =
          [u \in {u \in DOMAIN c.members : c.members[u] # "none"} |-> c.members[u]]
    BY <1>2, <1>4 DEF NowMembers
  <2>2. QED
    BY <1>3, <2>1 DEF Shaped, IsMap
<1>5. e.follows = <<>> => NowFollows(e, c) = c.follows
  BY <1>1 DEF NowFollows
<1>6. QED
  BY <1>4, <1>5

\* An insert leaves all else as it was.
LEMMA Inserted ==
    ASSUME NEW k, NEW d, Shaped(d), Insertion(k, d), NEW ids, ids = NewIds(k.redo.insert, d.blocks)
    PROVE  /\ RedoOf(k, d).board = d.board /\ RedoOf(k, d).members = d.members
           /\ RedoOf(k, d).follows = d.follows
           /\ DOMAIN RedoOf(k, d).blocks = DOMAIN d.blocks \cup ToSet(ids)
           /\ \A id \in DOMAIN d.blocks : id \notin ToSet(ids) /\ RedoOf(k, d).blocks[id] = d.blocks[id]
<1> DEFINE e == k.redo
           patched == PatchBlocks(e.patches, d.blocks)
           lived == [id \in DOMAIN patched |->
                       IF id \in DOMAIN e.alive THEN [patched[id] EXCEPT !.alive = e.alive[id]]
                                                ELSE patched[id]]
<1>1. /\ e.board = <<>> /\ e.patches = <<>> /\ e.alive = <<>> /\ e.members = <<>> /\ e.follows = <<>>
      /\ DOMAIN <<>> = {}
  BY DEF Insertion, insertBlocks, Command, NoEffect
<1>2. patched = [id \in DOMAIN d.blocks |-> d.blocks[id]]
  BY <1>1 DEF PatchBlocks
<1> HIDE DEF patched
<1>3. lived = d.blocks
  BY <1>1, <1>2 DEF Shaped, IsMap
<1>4. Apply(e, d) = [board |-> NowBoard(e, d), blocks |-> InsertAll(e.insert, lived),
                     members |-> NowMembers(e, d), follows |-> NowFollows(e, d)]
  BY DEF Apply, NowBoard, NowMembers, NowFollows, patched
<1> HIDE DEF lived
<1>5. /\ RedoOf(k, d).board = d.board /\ RedoOf(k, d).members = d.members
      /\ RedoOf(k, d).follows = d.follows /\ RedoOf(k, d).blocks = InsertAll(e.insert, d.blocks)
  BY <1>1, <1>3, <1>4, NobodyElse DEF RedoOf, NowBoard
<1>6. ToSet(ids) \cap DOMAIN d.blocks = {}
  BY IdsGiven DEF Insertion
<1>7. InsertAll(e.insert, d.blocks) =
        Over(d.blocks, [id \in ToSet(ids) |-> e.insert[CHOOSE i \in DOMAIN ids : ids[i] = id]])
  BY DEF InsertAll
<1>8. QED
  BY <1>5, <1>6, <1>7 DEF Over

\* The undo of an insert deletes what was made, and only that.
LEMMA InsertionBack ==
    ASSUME NEW k, NEW c, NEW d, NEW e, Shaped(c), Shaped(d), Shaped(e), Behind(c, d),
           Insertion(k, d), Behind(RedoOf(k, d), e)
    PROVE  Behind(c, UndoOf(RecordedOf(k, d), e))
<1> DEFINE new == k.redo.insert
           ids == NewIds(new, d.blocks)
           made == [id \in ToSet(ids) |-> FALSE]
           r == RecordedOf(k, d)
           u == [r.undo EXCEPT !.alive = Over(@, made)]
<1>1. /\ k = [redo |-> [NoEffect EXCEPT !.insert = new], undo |-> NoEffect, made |-> <<>>]
      /\ new # <<>>
  BY DEF Insertion, insertBlocks, Command
<1>2. r = [k EXCEPT !.made = ids]
  BY <1>1 DEF RecordedOf
<1>3. r.undo = NoEffect /\ r.made = ids
  BY <1>1, <1>2
<1>4. UndoOf(r, e) = Apply(u, e)
  BY <1>3 DEF UndoOf
<1>5. /\ u.board = <<>> /\ u.patches = <<>> /\ u.insert = <<>> /\ u.members = <<>> /\ u.follows = <<>>
      /\ u.alive = Over(<<>>, made)
  BY <1>3 DEF NoEffect
<1>6. DOMAIN u.alive = ToSet(ids) /\ \A id \in ToSet(ids) : u.alive[id] = FALSE
  BY <1>5 DEF Over
<1>7. ToSet(ids) \cap DOMAIN d.blocks = {}
  BY IdsGiven DEF Insertion
<1> HIDE DEF u, r, made, ids
<1>8. /\ Apply(u, e).board = e.board
      /\ Apply(u, e).follows = NowFollows(u, e) /\ Apply(u, e).members = NowMembers(u, e)
      /\ DOMAIN Apply(u, e).blocks = DOMAIN e.blocks
      /\ \A id \in DOMAIN e.blocks : Apply(u, e).blocks[id] = After(u, id, e.blocks[id])
  BY <1>5, ApplyPlain DEF NowBoard
<1>9. /\ e.board = c.board /\ e.members = c.members /\ e.follows = c.follows
      /\ \A id \in DOMAIN d.blocks :
           id \notin ToSet(ids) /\ id \in DOMAIN e.blocks /\ e.blocks[id] = d.blocks[id]
      /\ \A id \in DOMAIN e.blocks \ (DOMAIN d.blocks \cup ToSet(ids)) : ~e.blocks[id].alive
  BY Inserted DEF Behind, ids
<1>10. Apply(u, e).members = c.members /\ Apply(u, e).follows = c.follows
  BY <1>5, <1>8, <1>9, NobodyElse
<1>11. \A id \in DOMAIN e.blocks :
         Apply(u, e).blocks[id] = IF id \in ToSet(ids) THEN [e.blocks[id] EXCEPT !.alive = u.alive[id]]
                                                       ELSE e.blocks[id]
  <2>1. \A id : id \notin DOMAIN u.patches
    BY <1>5
  <2>2. \A id, x : After(u, id, x) = IF id \in ToSet(ids) THEN [x EXCEPT !.alive = u.alive[id]] ELSE x
    BY <1>6, <2>1 DEF After
  <2>3. QED
    BY <1>8, <2>2
<1>12. \A id \in DOMAIN e.blocks \cap ToSet(ids) : ~Apply(u, e).blocks[id].alive
  <2> TAKE id \in DOMAIN e.blocks \cap ToSet(ids)
  <2>1. e.blocks[id] = [type |-> e.blocks[id].type, alive |-> e.blocks[id].alive, f |-> e.blocks[id].f]
    BY DEF Shaped
  <2>2. Apply(u, e).blocks[id].alive = u.alive[id]
    BY <1>11, <2>1
  <2>3. QED
    BY <1>6, <2>2
<1>13. \A id \in DOMAIN c.blocks : id \in DOMAIN e.blocks /\ Apply(u, e).blocks[id] = c.blocks[id]
  BY <1>9, <1>11 DEF Behind
<1>14. \A id \in DOMAIN e.blocks \ DOMAIN c.blocks : ~Apply(u, e).blocks[id].alive
  BY <1>9, <1>11, <1>12 DEF Behind
<1> DEFINE x == Apply(u, e)
<1>15. /\ x.board = c.board /\ x.members = c.members /\ x.follows = c.follows
       /\ \A id \in DOMAIN c.blocks : id \in DOMAIN x.blocks /\ x.blocks[id] = c.blocks[id]
       /\ \A id \in DOMAIN x.blocks \ DOMAIN c.blocks : ~x.blocks[id].alive
  BY <1>8, <1>9, <1>10, <1>13, <1>14
<1>16. UndoOf(r, e) = x
  BY <1>4
<1> HIDE DEF x
<1>17. QED
  BY <1>15, <1>16 DEF Behind, r

\* What a user sees does not tell a content from one with more deleted blocks.
LEMMA BehindVisible ==
    ASSUME NEW c, NEW d, Shaped(c), Shaped(d), Behind(c, d)
    PROVE  VisibleIn(c) = VisibleIn(d)
<1>1. Living(c) = Living(d)
  BY DEF Living, Behind
<1>2. [id \in Living(c) |-> c.blocks[id]] = [id \in Living(d) |-> d.blocks[id]]
  BY <1>1 DEF Living, Behind
<1>3. VisibleIn(c) = [board |-> c.board, blocks |-> [id \in Living(c) |-> c.blocks[id]],
                      members |-> c.members, follows |-> c.follows]
  BY DEF VisibleIn, Shaped, Living
<1>4. VisibleIn(d) = [board |-> d.board, blocks |-> [id \in Living(d) |-> d.blocks[id]],
                      members |-> d.members, follows |-> d.follows]
  BY DEF VisibleIn, Shaped, Living
<1>5. QED
  BY <1>2, <1>3, <1>4 DEF Behind

\* The undo manager is given commands of mutator.ts.
MutatorSession ==
    /\ \A c \in Contents : Shaped(c) /\ Visible(c) = VisibleIn(c)
    /\ \A k \in Commands : Repeatable(k) <=> RepeatableBy(k)
    /\ \A k \in Commands, c \in Contents :
         /\ Redo(k, c) = RedoOf(k, c)
         /\ Undo(k, c) = UndoOf(k, c)
         /\ Recorded(k, c) = RecordedOf(k, c)

Behinds == {p \in Contents \X Contents : Behind(p[1], p[2])}

\* Undone from whatever b has become, back at a or more; and done again, if it
\* can be, from whatever a has become, back at b or more.
LeadsOn(k, a, b) ==
    /\ \A e \in Contents : Behind(b, e) => Behind(a, UndoOf(k, e))
    /\ RepeatableBy(k) => \A e \in Contents : Behind(a, e) => Behind(b, RedoOf(k, e))

AllLeads == {t \in Commands \X Contents \X Contents : LeadsOn(t[1], t[2], t[3])}

LEMMA PlainLeads ==
    ASSUME NEW k, NEW c, NEW d, Shaped(c), Behind(c, d), Plain(k, d)
    PROVE  /\ LeadsOn(k, c, RedoOf(k, c)) /\ Behind(RedoOf(k, c), RedoOf(k, d))
           /\ RecordedOf(k, d) = k
<1>1. k.redo.insert = <<>> /\ DOMAIN k.redo.alive \subseteq DOMAIN c.blocks
  BY DEF Plain, Living, Behind
<1>2. \A e : Behind(c, e) => Behind(RedoOf(k, c), RedoOf(k, e))
  BY <1>1, ApplyBehind DEF RedoOf
<1>3. \A e : Behind(RedoOf(k, c), e) => Behind(c, UndoOf(k, e))
  BY PlainBack DEF RedoOf
<1>4. QED
  BY <1>1, <1>2, <1>3 DEF LeadsOn, RecordedOf

LEMMA SessionReverts ==
    ASSUME Closed, MutatorSession, \A c \in Contents : \A k \in Offered(c) : Undoable(k, c)
    PROVE  Reverting(AllLeads, Behinds)
<1>1. \A c \in Contents : <<c, c>> \in Behinds
  BY DEF Behinds, Behind
<1>2. \A c, d \in Contents : <<c, d>> \in Behinds => Visible(c) = Visible(d)
  BY BehindVisible DEF Behinds, MutatorSession
<1>3. ASSUME NEW c \in Contents, NEW d \in Contents, NEW k \in Offered(d), <<c, d>> \in Behinds
      PROVE  \E b \in Contents : /\ <<Recorded(k, d), c, b>> \in AllLeads
                                 /\ <<b, Redo(k, d)>> \in Behinds
  <2>1. /\ k \in Commands /\ Recorded(k, d) \in Commands /\ Redo(k, c) \in Contents /\ Redo(k, d) \in Contents
        /\ Redo(k, c) = RedoOf(k, c) /\ Redo(k, d) = RedoOf(k, d) /\ Recorded(k, d) = RecordedOf(k, d)
        /\ Shaped(c) /\ Shaped(d) /\ Behind(c, d) /\ Undoable(k, d)
    BY <1>3 DEF Closed, MutatorSession, Behinds
  <2>2. CASE Plain(k, d)
    <3>1. LeadsOn(Recorded(k, d), c, Redo(k, c)) /\ Behind(Redo(k, c), Redo(k, d))
      BY <2>1, <2>2, PlainLeads
    <3>2. QED
      BY <2>1, <3>1 DEF AllLeads, Behinds
  <2>3. CASE Insertion(k, d)
    <3>1. ~RepeatableBy(RecordedOf(k, d))
      <4>1. k = [redo |-> k.redo, undo |-> k.undo, made |-> k.made] /\ k.redo.insert # <<>>
        BY <2>3 DEF Insertion, insertBlocks, Command
      <4>2. RecordedOf(k, d) = [k EXCEPT !.made = NewIds(k.redo.insert, d.blocks)]
        BY <4>1 DEF RecordedOf
      <4>3. RecordedOf(k, d).redo = k.redo
        BY <4>1, <4>2
      <4>4. QED
        BY <4>1, <4>3 DEF RepeatableBy
    <3>2. \A e \in Contents : Behind(RedoOf(k, d), e) => Behind(c, UndoOf(RecordedOf(k, d), e))
      BY <2>1, <2>3, InsertionBack DEF MutatorSession
    <3>3. LeadsOn(Recorded(k, d), c, Redo(k, d))
      BY <2>1, <3>1, <3>2 DEF LeadsOn
    <3>4. QED
      BY <1>1, <2>1, <3>3 DEF AllLeads
  <2>4. QED
    BY <2>1, <2>2, <2>3 DEF Undoable
<1>4. ASSUME NEW k \in Commands, NEW a \in Contents, NEW b \in Contents, NEW d \in Contents,
             <<k, a, b>> \in AllLeads, <<b, d>> \in Behinds
      PROVE  <<a, Undo(k, d)>> \in Behinds
  <2>1. LeadsOn(k, a, b) /\ Behind(b, d) /\ Undo(k, d) \in Contents /\ Undo(k, d) = UndoOf(k, d)
    BY <1>4 DEF AllLeads, Behinds, Closed, MutatorSession
  <2>2. QED
    BY <2>1 DEF LeadsOn, Behinds
<1>5. ASSUME NEW k \in Commands, NEW a \in Contents, NEW b \in Contents, NEW d \in Contents,
             <<k, a, b>> \in AllLeads, <<a, d>> \in Behinds, Repeatable(k)
      PROVE  <<b, Redo(k, d)>> \in Behinds /\ <<Recorded(k, d), a, b>> \in AllLeads
  <2>1. /\ LeadsOn(k, a, b) /\ Behind(a, d) /\ Redo(k, d) \in Contents /\ Redo(k, d) = RedoOf(k, d)
        /\ RepeatableBy(k) /\ Recorded(k, d) = RecordedOf(k, d)
    BY <1>5 DEF AllLeads, Behinds, Closed, MutatorSession
  <2>2. Recorded(k, d) = k
    BY <2>1 DEF RepeatableBy, RecordedOf
  <2>3. QED
    BY <1>5, <2>1, <2>2 DEF LeadsOn, Behinds
<1> HIDE DEF AllLeads, Behinds
<1>6. QED
  BY <1>1, <1>2, <1>3, <1>4, <1>5 DEF Reverting

\* A session of commands of mutator.ts, of which each can be undone on the
\* content it was given for: undo and redo take the user back to what was there,
\* one call at a time, even though an insert that was undone leaves its blocks
\* behind, deleted (mutator.ts, undomanager.ts:118, 148).
THEOREM SessionsGoBack ==
    ASSUME Closed, MutatorSession, \A c \in Contents : \A k \in Offered(c) : Undoable(k, c)
    PROVE  Spec => []BackWhereItWas
BY SessionReverts, BackHolds

-----------------------------------------------------------------------------
(* Which commands can be undone.                                           *)

\* An effect on the board and on fields of blocks.
PatchEffect(e) ==
    /\ IsEffect(e) /\ e.insert = <<>> /\ e.alive = <<>> /\ e.members = <<>> /\ e.follows = <<>>

\* Where undo takes back what redo did to each part of a content, it takes back
\* all of it.
LEMMA PartsBack ==
    ASSUME NEW r, NEW u, NEW c, Shaped(c), r.insert = <<>>, u.insert = <<>>,
           NowBoard(u, Apply(r, c)) = c.board,
           NowMembers(u, Apply(r, c)) = c.members,
           NowFollows(u, Apply(r, c)) = c.follows,
           \A id \in DOMAIN c.blocks : After(u, id, After(r, id, c.blocks[id])) = c.blocks[id]
    PROVE  Apply(u, Apply(r, c)) = c
<1> DEFINE d == Apply(r, c)
           x == Apply(u, d)
<1>1. /\ DOMAIN d.blocks = DOMAIN c.blocks
      /\ \A id \in DOMAIN c.blocks : d.blocks[id] = After(r, id, c.blocks[id])
  BY ApplyPlain
<1> HIDE DEF d
<1>2. /\ x = [board |-> NowBoard(u, d), blocks |-> x.blocks,
              members |-> NowMembers(u, d), follows |-> NowFollows(u, d)]
      /\ IsMap(x.blocks) /\ DOMAIN x.blocks = DOMAIN d.blocks
      /\ \A id \in DOMAIN d.blocks : x.blocks[id] = After(u, id, d.blocks[id])
  BY ApplyPlain
<1> HIDE DEF x
<1>3. x.blocks = c.blocks
  BY <1>1, <1>2, SameMap DEF Shaped
<1>4. x = c
  BY <1>2, <1>3 DEF d, Shaped
<1>5. QED
  BY <1>4 DEF x, d

LEMMA PatchesPlain ==
    ASSUME NEW k, NEW c, Shaped(c), k = Command(k.redo, k.undo), PatchEffect(k.redo), PatchEffect(k.undo),
           \/ k.redo.board = <<>> /\ k.undo.board = <<>>
           \/ /\ k.redo.board # <<>> /\ k.undo.board # <<>>
              /\ PatchBoard(k.undo.board[1], PatchBoard(k.redo.board[1], c.board)) = c.board,
           DOMAIN k.undo.patches = DOMAIN k.redo.patches,
           \A id \in DOMAIN k.redo.patches \cap DOMAIN c.blocks :
             PatchBlock(k.undo.patches[id], PatchBlock(k.redo.patches[id], c.blocks[id].f)) = c.blocks[id].f
    PROVE  Plain(k, c)
<1> DEFINE r == k.redo
           u == k.undo
           d == Apply(r, c)
<1>1. /\ r.insert = <<>> /\ u.insert = <<>> /\ r.alive = <<>> /\ u.alive = <<>>
      /\ r.members = <<>> /\ u.members = <<>> /\ r.follows = <<>> /\ u.follows = <<>>
      /\ k.made = <<>> /\ IsEffect(u) /\ DOMAIN <<>> = {}
  BY DEF PatchEffect, Command
<1>2. d.board = NowBoard(r, c) /\ d.members = c.members /\ d.follows = c.follows
  BY <1>1, ApplyPlain, NobodyElse
<1>3. NowBoard(u, d) = c.board
  BY <1>2 DEF NowBoard
<1>4. NowMembers(u, d) = c.members /\ NowFollows(u, d) = c.follows
  <2>1. NowMembers(u, d) = NowMembers(u, c) /\ NowFollows(u, d) = NowFollows(u, c)
    BY <1>2 DEF NowMembers, NowFollows
  <2>2. QED
    BY <1>1, <2>1, NobodyElse
<1>5. ASSUME NEW id \in DOMAIN c.blocks
      PROVE  After(u, id, After(r, id, c.blocks[id])) = c.blocks[id]
  <2> DEFINE b == c.blocks[id]
  <2>1. b = [type |-> b.type, alive |-> b.alive, f |-> b.f]
    BY DEF Shaped
  <2>2. \A x : /\ After(u, id, x) = IF id \in DOMAIN u.patches /\ x.alive
                                    THEN [x EXCEPT !.f = PatchBlock(u.patches[id], @)] ELSE x
               /\ After(r, id, x) = IF id \in DOMAIN r.patches /\ x.alive
                                    THEN [x EXCEPT !.f = PatchBlock(r.patches[id], @)] ELSE x
    BY <1>1 DEF After
  <2>3. CASE ~(id \in DOMAIN r.patches /\ b.alive)
    BY <2>2, <2>3
  <2>4. CASE id \in DOMAIN r.patches /\ b.alive
    <3> DEFINE f == PatchBlock(r.patches[id], b.f)
               m == [type |-> b.type, alive |-> b.alive, f |-> f]
    <3>1. PatchBlock(u.patches[id], f) = b.f
      BY <2>4
    <3> HIDE DEF b
    <3>2. After(r, id, b) = m
      <4> HIDE DEF f
      <4>1. QED
        BY <2>1, <2>2, <2>4 DEF f
    <3>3. After(u, id, m) = [type |-> b.type, alive |-> b.alive, f |-> PatchBlock(u.patches[id], f)]
      <4> HIDE DEF f
      <4>1. m.f = f /\ m.type = b.type /\ m.alive = b.alive
        OBVIOUS
      <4>2. [m EXCEPT !.f = PatchBlock(u.patches[id], f)] =
               [type |-> b.type, alive |-> b.alive, f |-> PatchBlock(u.patches[id], f)]
        OBVIOUS
      <4> HIDE DEF m
      <4>3. id \in DOMAIN u.patches
        BY <2>4
      <4>4. QED
        BY <2>2, <2>4, <4>1, <4>2, <4>3
    <3> HIDE DEF f, m
    <3>4. QED
      BY <2>1, <3>1, <3>2, <3>3 DEF b
  <2>5. QED
    BY <2>3, <2>4
<1>6. Apply(u, d) = c
  <2> HIDE DEF r, u
  <2>1. QED
    BY <1>1, <1>3, <1>4, <1>5, PartsBack
<1>7. QED
  BY <1>1, <1>6 DEF Plain, IsMap

LEMMA OnlyIs ==
    ASSUME NEW key, NEW value
    PROVE  IsMap(Only(key, value)) /\ DOMAIN Only(key, value) = {key} /\ Only(key, value)[key] = value
BY DEF Only, IsMap

LEMMA OverBack ==
    ASSUME NEW f, NEW new, NEW old, IsMap(f), DOMAIN new \subseteq DOMAIN f, DOMAIN old = DOMAIN new,
           \A k \in DOMAIN old : old[k] = f[k]
    PROVE  Over(Over(f, new), old) = f
<1> DEFINE a == Over(f, new)
           b == Over(a, old)
<1>1. /\ DOMAIN a = DOMAIN f \cup DOMAIN new
      /\ \A k \in DOMAIN f \ DOMAIN new : a[k] = f[k]
  BY OverMap
<1> HIDE DEF a
<1>2. /\ IsMap(b) /\ DOMAIN b = DOMAIN a \cup DOMAIN old
      /\ \A k \in DOMAIN old : b[k] = old[k]
      /\ \A k \in DOMAIN a \ DOMAIN old : b[k] = a[k]
  BY DEF Over, IsMap
<1> HIDE DEF b
<1>3. DOMAIN b = DOMAIN f /\ \A k \in DOMAIN f : b[k] = f[k]
  BY <1>1, <1>2
<1>4. b = f
  BY <1>2, <1>3, SameMap
<1>5. QED
  BY <1>4 DEF a, b

LEMMA WithoutNothing ==
    ASSUME NEW f, IsMap(f)
    PROVE  Without(f, {}) = f
BY DEF Without, IsMap

\* The old values of the fields a command sets.
LEMMA FieldsPlain ==
    ASSUME NEW c, NEW id \in DOMAIN c.blocks, NEW new, NEW old, Shaped(c),
           DOMAIN old = DOMAIN new, DOMAIN new \subseteq DOMAIN c.blocks[id].f,
           \A key \in DOMAIN old : old[key] = c.blocks[id].f[key]
    PROVE  Undoable(PatchFields(id, new, old), c)
<1> DEFINE p == [updatedFields |-> new, deletedFields |-> {}]
           q == [updatedFields |-> old, deletedFields |-> {}]
           f == c.blocks[id].f
           r == [NoEffect EXCEPT !.patches = Only(id, p)]
           u == [NoEffect EXCEPT !.patches = Only(id, q)]
           k == PatchFields(id, new, old)
<1>1. /\ k = Command(r, u) /\ k.redo = r /\ k.undo = u
  BY DEF PatchFields, Command
<1>2. PatchBlock(q, PatchBlock(p, f)) = f
  <2>1. IsMap(f) /\ IsMap(Over(f, new))
    BY OverMap DEF Shaped
  <2>2. PatchBlock(p, f) = Over(f, new)
    BY <2>1, WithoutNothing DEF PatchBlock
  <2>3. Over(Over(f, new), old) = f
    BY <2>1, OverBack
  <2>4. PatchBlock(q, Over(f, new)) = f
    BY <2>1, <2>3, WithoutNothing DEF PatchBlock
  <2>5. QED
    BY <2>2, <2>4
<1> HIDE DEF k, f, p, q
<1>3. /\ PatchEffect(r) /\ PatchEffect(u) /\ r.board = <<>> /\ u.board = <<>>
      /\ r.patches = Only(id, p) /\ u.patches = Only(id, q)
  BY DEF PatchEffect, IsEffect, NoEffect
<1> HIDE DEF r, u
<1>4. /\ DOMAIN r.patches = {id} /\ r.patches[id] = p
      /\ DOMAIN u.patches = {id} /\ u.patches[id] = q
  BY <1>3 DEF Only
<1>5. \A i \in DOMAIN r.patches \cap DOMAIN c.blocks :
        PatchBlock(u.patches[i], PatchBlock(r.patches[i], c.blocks[i].f)) = c.blocks[i].f
  BY <1>2, <1>4 DEF f
<1>6. /\ k = Command(k.redo, k.undo) /\ PatchEffect(k.redo) /\ PatchEffect(k.undo)
      /\ k.redo.board = <<>> /\ k.undo.board = <<>>
      /\ DOMAIN k.undo.patches = DOMAIN k.redo.patches
      /\ \A i \in DOMAIN k.redo.patches \cap DOMAIN c.blocks :
           PatchBlock(k.undo.patches[i], PatchBlock(k.redo.patches[i], c.blocks[i].f)) = c.blocks[i].f
  BY <1>1, <1>3, <1>4, <1>5
<1>7. Plain(k, c)
  BY <1>6, PatchesPlain
<1>8. QED
  BY <1>7 DEF Undoable, k

LEMMA OneFieldPlain ==
    ASSUME NEW c, NEW id \in DOMAIN c.blocks, NEW key \in DOMAIN c.blocks[id].f, NEW value, NEW was,
           Shaped(c), was = c.blocks[id].f[key]
    PROVE  Undoable(PatchFields(id, Only(key, value), Only(key, was)), c)
<1> DEFINE new == Only(key, value)
           old == Only(key, was)
<1>1. DOMAIN new = {key} /\ DOMAIN old = {key} /\ old[key] = c.blocks[id].f[key]
  BY OnlyIs
<1> HIDE DEF new, old
<1>2. Undoable(PatchFields(id, new, old), c)
  BY <1>1, FieldsPlain
<1>3. QED
  BY <1>2 DEF new, old

LEMMA FieldPlain ==
    ASSUME NEW c, NEW id \in DOMAIN c.blocks, NEW key \in DOMAIN c.blocks[id].f, NEW value, Shaped(c)
    PROVE  Undoable(PatchField(c, id, key, value), c)
BY OneFieldPlain DEF PatchField

\* What is set on one block is taken back by the value it had (mutator.ts:290).
THEOREM FieldCommandsUndoable ==
    ASSUME NEW c, NEW id \in DOMAIN c.blocks, NEW value, Shaped(c),
           {"title", "icon", "contentOrder", "parentCardId"} \subseteq DOMAIN c.blocks[id].f
    PROVE  /\ Undoable(changeBlockTitle(c, id, value), c)
           /\ Undoable(changeBlockIcon(c, id, value), c)
           /\ Undoable(changeCardContentOrder(c, id, value), c)
           /\ Undoable(unlinkSubCard(c, id), c)
           /\ c.blocks[id].f["parentCardId"] = "" => Undoable(linkCardAsSubCard(c, id, value), c)
<1>1. /\ Undoable(changeBlockTitle(c, id, value), c)
      /\ Undoable(changeBlockIcon(c, id, value), c)
      /\ Undoable(changeCardContentOrder(c, id, value), c)
  BY FieldPlain DEF changeBlockTitle, changeBlockIcon, changeCardContentOrder
<1>2. c.blocks[id].f.parentCardId = c.blocks[id].f["parentCardId"]
  OBVIOUS
<1>3. Undoable(unlinkSubCard(c, id), c)
  BY <1>2, OneFieldPlain DEF unlinkSubCard
<1>4. c.blocks[id].f["parentCardId"] = "" => Undoable(linkCardAsSubCard(c, id, value), c)
  BY OneFieldPlain DEF linkCardAsSubCard
<1>5. QED
  BY <1>1, <1>3, <1>4

ViewKeys ==
    {"sortOptions", "accessMode", "filter", "dateDisplayPropertyId", "visiblePropertyIds", "cardOrder",
     "columnCalculations", "defaultTemplateId"} \cup GroupKeys

\* The commands on a view: also one that regroups it, and one that moves columns,
\* restore every field they set (mutator.ts:1229, 1413).
THEOREM ViewCommandsUndoable ==
    ASSUME NEW c, NEW value, NEW hidden, Shaped(c), ViewId \in DOMAIN c.blocks, ViewKeys \subseteq DOMAIN View(c)
    PROVE  /\ \A key \in ViewKeys : Undoable(ChangeView(c, key, value), c)
           /\ Undoable(setDefaultTemplate(c, value), c)
           /\ Undoable(clearDefaultTemplate(c), c)
           /\ Undoable(changeViewGroupById(c, value), c)
           /\ Undoable(SetColumns(c, value, hidden), c)
<1>1. \A key \in ViewKeys : Undoable(ChangeView(c, key, value), c)
  BY FieldPlain DEF ChangeView, View
<1>2. Undoable(setDefaultTemplate(c, value), c) /\ Undoable(clearDefaultTemplate(c), c)
  BY FieldPlain DEF setDefaultTemplate, clearDefaultTemplate, View, ViewKeys
<1>3. Undoable(changeViewGroupById(c, value), c)
  <2> DEFINE new == [k \in GroupKeys |-> IF k = "groupById" THEN value ELSE <<>>]
             old == [k \in GroupKeys |-> View(c)[k]]
  <2>1. DOMAIN new = GroupKeys /\ DOMAIN old = GroupKeys /\ \A k \in GroupKeys : old[k] = c.blocks[ViewId].f[k]
    BY DEF View
  <2>2. GroupKeys \subseteq DOMAIN c.blocks[ViewId].f
    BY DEF ViewKeys, View
  <2> HIDE DEF new, old
  <2>3. Undoable(PatchFields(ViewId, new, old), c)
    BY <2>1, <2>2, FieldsPlain
  <2>4. QED
    BY <2>3 DEF changeViewGroupById, new, old
<1>4. Undoable(SetColumns(c, value, hidden), c)
  <2> DEFINE new == [k \in ColumnKeys |-> IF k = "visibleOptionIds" THEN value ELSE hidden]
             old == [k \in ColumnKeys |-> View(c)[k]]
  <2>1. DOMAIN new = ColumnKeys /\ DOMAIN old = ColumnKeys /\ \A k \in ColumnKeys : old[k] = c.blocks[ViewId].f[k]
    BY DEF View
  <2>2. ColumnKeys \subseteq DOMAIN c.blocks[ViewId].f
    BY DEF ViewKeys, View, ColumnKeys, GroupKeys
  <2> HIDE DEF new, old
  <2>3. Undoable(PatchFields(ViewId, new, old), c)
    BY <2>1, <2>2, FieldsPlain
  <2>4. QED
    BY <2>3 DEF SetColumns, new, old
<1>5. QED
  BY <1>1, <1>2, <1>3, <1>4

BoardAndPatches(b, p) ==
    [board |-> b, patches |-> p, insert |-> <<>>, alive |-> <<>>, members |-> <<>>, follows |-> <<>>]

LEMMA EffectForms ==
    ASSUME NEW b, NEW p
    PROVE  /\ [NoEffect EXCEPT !.board = b, !.patches = p] = BoardAndPatches(b, p)
           /\ [NoEffect EXCEPT !.board = b] = BoardAndPatches(b, <<>>)
           /\ [NoEffect EXCEPT !.patches = p] = BoardAndPatches(<<>>, p)
<1>1. [NoEffect EXCEPT !.board = b, !.patches = p] = BoardAndPatches(b, p)
  <2>1. ASSUME NEW e, e = [NoEffect EXCEPT !.board = b, !.patches = p] PROVE e = BoardAndPatches(b, p)
    BY <2>1, Zenon DEF NoEffect, BoardAndPatches
  <2>2. QED
    BY <2>1
<1>2. /\ [NoEffect EXCEPT !.board = b] = BoardAndPatches(b, <<>>)
      /\ [NoEffect EXCEPT !.patches = p] = BoardAndPatches(<<>>, p)
  BY DEF NoEffect, BoardAndPatches
<1>3. QED
  BY <1>1, <1>2

\* An effect on fields of blocks and on the board, whatever it is made of.
LEMMA BoardAndBlocksPlain ==
    ASSUME NEW c, Shaped(c), NEW pb, NEW qb, NEW p, NEW q,
           \/ pb = <<>> /\ qb = <<>>
           \/ pb # <<>> /\ qb # <<>> /\ PatchBoard(qb[1], PatchBoard(pb[1], c.board)) = c.board,
           DOMAIN q = DOMAIN p,
           \A id \in DOMAIN p \cap DOMAIN c.blocks :
             PatchBlock(q[id], PatchBlock(p[id], c.blocks[id].f)) = c.blocks[id].f
    PROVE  Undoable(Command(BoardAndPatches(pb, p), BoardAndPatches(qb, q)), c)
<1> DEFINE r == BoardAndPatches(pb, p)
           u == BoardAndPatches(qb, q)
           k == Command(r, u)
<1>1. k = Command(r, u) /\ k.redo = r /\ k.undo = u
  BY DEF Command
<1> HIDE DEF k
<1>2. /\ PatchEffect(r) /\ PatchEffect(u) /\ r.board = pb /\ u.board = qb /\ r.patches = p /\ u.patches = q
  BY DEF PatchEffect, IsEffect, BoardAndPatches
<1> HIDE DEF r, u
<1>3. Plain(k, c)
  BY <1>1, <1>2, PatchesPlain
<1>4. QED
  BY <1>3 DEF Undoable, k, r, u

\* What is set of the board is taken back by the value it had (mutator.ts:307).
LEMMA BoardDataPlain ==
    ASSUME NEW c, NEW key \in DOMAIN c.board.data, NEW value, Shaped(c)
    PROVE  Undoable(PatchBoardData(c, key, value), c)
<1> DEFINE Patch(v) == [data |-> Only(key, v), updatedProperties |-> <<>>, deletedProperties |-> {},
                        cardProperties |-> [indexed |-> FALSE, updated |-> <<>>, deleted |-> {}]]
           b == c.board
           was == c.board.data[key]
<1>1. ASSUME NEW v, NEW d, IsMap(d.properties)
      PROVE  PatchBoard(Patch(v), d) = [data |-> Over(d.data, Only(key, v)), properties |-> d.properties,
                                        cardProperties |-> d.cardProperties]
  <2>1. DOMAIN <<>> = {}
    OBVIOUS
  <2>2. Over(d.properties, <<>>) = d.properties
    BY <1>1, <2>1, OverNothing
  <2>3. Without(Over(d.properties, <<>>), {}) = d.properties
    BY <1>1, <2>2, WithoutNothing
  <2> DEFINE x == Patch(v)
  <2>4. /\ x.data = Only(key, v) /\ x.updatedProperties = <<>> /\ x.deletedProperties = {}
        /\ x.cardProperties.updated = <<>> /\ x.cardProperties.deleted = {}
    OBVIOUS
  <2> HIDE DEF x
  <2>5. PatchBoard(x, d) = [data |-> Over(d.data, Only(key, v)), properties |-> d.properties,
                            cardProperties |-> d.cardProperties]
    BY <2>3, <2>4 DEF PatchBoard
  <2>6. QED
    BY <2>5 DEF x
<1> HIDE DEF Patch
<1>2. Over(Over(b.data, Only(key, value)), Only(key, was)) = b.data
  <2> DEFINE new == Only(key, value)
             old == Only(key, was)
  <2>1. DOMAIN new = {key} /\ DOMAIN old = {key} /\ old[key] = was /\ IsMap(b.data)
    BY OnlyIs DEF Shaped
  <2> HIDE DEF new, old
  <2>2. Over(Over(b.data, new), old) = b.data
    BY <2>1, OverBack
  <2>3. QED
    BY <2>2 DEF new, old
<1> DEFINE m == [data |-> Over(b.data, Only(key, value)), properties |-> b.properties,
                 cardProperties |-> b.cardProperties]
<1>3. PatchBoard(Patch(value), b) = m
  BY <1>1 DEF Shaped
<1>4. PatchBoard(Patch(was), m) = b
  <2>1. PatchBoard(Patch(was), m) = [data |-> Over(m.data, Only(key, was)), properties |-> m.properties,
                                     cardProperties |-> m.cardProperties]
    BY <1>1 DEF Shaped
  <2>2. QED
    BY <1>2, <2>1 DEF Shaped
<1> DEFINE pb == <<Patch(value)>>
           qb == <<Patch(was)>>
<1>5. pb # <<>> /\ qb # <<>> /\ PatchBoard(qb[1], PatchBoard(pb[1], c.board)) = c.board
  BY <1>3, <1>4
<1>6. PatchBoardData(c, key, value) =
        Command([NoEffect EXCEPT !.board = pb], [NoEffect EXCEPT !.board = qb])
  BY DEF PatchBoardData, Patch
<1> HIDE DEF pb, qb
<1>7. \A id \in DOMAIN <<>> : FALSE
  OBVIOUS
<1>8. Undoable(Command(BoardAndPatches(pb, <<>>), BoardAndPatches(qb, <<>>)), c)
  BY <1>5, <1>7, BoardAndBlocksPlain
<1>9. QED
  BY <1>6, <1>8, EffectForms

\* The fields of a board.
THEOREM BoardCommandsUndoable ==
    ASSUME NEW c, NEW value, Shaped(c),
           {"title", "icon", "description", "showDescription"} \subseteq DOMAIN c.board.data
    PROVE  /\ Undoable(changeBoardTitle(c, value), c)
           /\ Undoable(changeBoardIcon(c, value), c)
           /\ Undoable(changeBoardDescription(c, value), c)
           /\ Undoable(showBoardDescription(c, value), c)
BY BoardDataPlain DEF changeBoardTitle, changeBoardIcon, changeBoardDescription, showBoardDescription

LEMMA BlockPlain ==
    ASSUME NEW c, NEW id \in DOMAIN c.blocks, NEW new, IsMap(new), Shaped(c)
    PROVE  Undoable(updateBlock(c, id, new), c)
<1> DEFINE f == c.blocks[id].f
           patches == createPatchesFromBlocks(new, f, CopiedKeys)
           p == Only(id, patches[1])
           q == Only(id, patches[2])
<1>1. updateBlock(c, id, new) =
        Command([NoEffect EXCEPT !.patches = p], [NoEffect EXCEPT !.patches = q])
  BY DEF updateBlock
<1>2. PatchBlock(patches[2], PatchBlock(patches[1], f)) = f
  BY BlockPatchesRevert DEF Shaped
<1>3. DOMAIN p = {id} /\ DOMAIN q = {id} /\ p[id] = patches[1] /\ q[id] = patches[2]
  BY DEF Only
<1> HIDE DEF p, q, patches
<1>4. Undoable(Command(BoardAndPatches(<<>>, p), BoardAndPatches(<<>>, q)), c)
  BY <1>2, <1>3, BoardAndBlocksPlain
<1>5. QED
  BY <1>1, <1>4, EffectForms

\* A new value of a property, and the departments it drops with it, are taken
\* back together (mutator.ts:922, 966).
THEOREM ValueCommandUndoable ==
    ASSUME NEW c, NEW id \in DOMAIN c.blocks, NEW p, NEW value, Shaped(c)
    PROVE  Undoable(changePropertyValue(c, id, p, value), c)
<1>1. PICK new : /\ IsMap(new)
                 /\ changePropertyValue(c, id, p, value) = updateBlock(c, id, new)
  <2> DEFINE old == c.blocks[id].f.properties
             set == IF value = <<>> THEN Without(old, {p}) ELSE Over(old, Only(p, value))
             new == [c.blocks[id].f EXCEPT !.properties = dropOutOfRangeDepartments(c, set, p)]
  <2>1. changePropertyValue(c, id, p, value) = updateBlock(c, id, new)
    BY DEF changePropertyValue
  <2>2. IsMap(new)
    BY DEF IsMap
  <2> HIDE DEF new
  <2>3. QED
    BY <2>1, <2>2
<1>2. QED
  BY <1>1, BlockPlain

\* When the list of templates changes, the undo is sent the whole old one: it
\* does not matter what the server made of the new one.
LEMMA ListBack ==
    ASSUME NEW new, NEW old, SameKeys(new, old), Whole(old.cardProperties), old.cardProperties # <<>>,
           IdList(new.cardProperties) # IdList(old.cardProperties),
           old = [data |-> old.data, properties |-> old.properties, cardProperties |-> old.cardProperties]
    PROVE  LET p == createPatchesFromBoards(new, old)
           IN  PatchBoard(p[2], PatchBoard(p[1], old)) = old
<1> DEFINE p == createPatchesFromBoards(new, old)
           m == PatchBoard(p[1], old)
           cards == CardPropertiesPatch(old.cardProperties, new.cardProperties)
<1>1. /\ m.data = new.data /\ m.properties = new.properties
      /\ PatchBoard(p[2], new).data = old.data /\ PatchBoard(p[2], new).properties = old.properties
  BY BoardFieldsRevert
<1>2. p[2].cardProperties = cards
  BY DEF createPatchesFromBoards, createCardPropertiesPatches, BoardPatch
<1> HIDE DEF m, p
<1>3. PatchBoard(p[2], m).data = old.data /\ PatchBoard(p[2], m).properties = old.properties
  BY <1>1 DEF PatchBoard
<1>4. cards.indexed /\ cards.updated = old.cardProperties
  BY DEF CardPropertiesPatch
<1> HIDE DEF cards
<1>5. PatchCardProperties(cards, m.cardProperties) = old.cardProperties
  <2>1. [i \in DOMAIN cards.updated |-> Stored(cards.updated[i])] = old.cardProperties
    BY <1>4 DEF Whole
  <2>2. QED
    BY <1>4, <2>1 DEF PatchCardProperties
<1>6. PatchBoard(p[2], m).cardProperties = old.cardProperties
  BY <1>2, <1>4, <1>5 DEF PatchBoard
<1>7. PatchBoard(p[2], m) = [data |-> PatchBoard(p[2], m).data, properties |-> PatchBoard(p[2], m).properties,
                             cardProperties |-> PatchBoard(p[2], m).cardProperties]
  BY DEF PatchBoard
<1>8. PatchBoard(p[2], m) = old
  BY <1>3, <1>6, <1>7
<1>9. QED
  BY <1>8 DEF m, p

\* A board on which JSON drops nothing, and a list of templates with other ids.
OtherList(c, templates) ==
    /\ Shaped(c) /\ Whole(c.board.cardProperties) /\ c.board.cardProperties # <<>>
    /\ IdList(templates) # IdList(c.board.cardProperties)

LEMMA ListPlain ==
    ASSUME NEW c, NEW templates, NEW new, OtherList(c, templates),
           \A id \in DOMAIN new : id \in DOMAIN c.blocks => IsMap(new[id])
    PROVE  /\ Undoable(updateBoard(c, WithTemplates(c, templates)), c)
           /\ Undoable(updateBoardAndBlocks(c, WithTemplates(c, templates), new), c)
<1> DEFINE board == WithTemplates(c, templates)
           p == createPatchesFromBoards(board, c.board)
           q == BlockPatches(c, new)
           pb == <<p[1]>>
           qb == <<p[2]>>
           redo == [id \in DOMAIN new |-> q[id][1]]
           undo == [id \in DOMAIN new |-> q[id][2]]
<1>1. /\ board.data = c.board.data /\ board.properties = c.board.properties
      /\ board.cardProperties = templates
      /\ IsMap(c.board.data) /\ IsMap(c.board.properties)
  BY DEF WithTemplates, createBoard, OtherList, Shaped
<1> HIDE DEF board
<1>2. PatchBoard(p[2], PatchBoard(p[1], c.board)) = c.board
  <2>1. SameKeys(board, c.board)
    BY <1>1 DEF SameKeys
  <2>2. QED
    BY <1>1, <2>1, ListBack DEF OtherList, Shaped
<1> HIDE DEF p
<1>3. pb # <<>> /\ qb # <<>> /\ PatchBoard(qb[1], PatchBoard(pb[1], c.board)) = c.board
  BY <1>2
<1> HIDE DEF pb, qb
<1>4. Undoable(updateBoard(c, board), c)
  <2>1. updateBoard(c, board) = Command([NoEffect EXCEPT !.board = pb], [NoEffect EXCEPT !.board = qb])
    BY DEF updateBoard, p, pb, qb
  <2>2. \A id \in DOMAIN <<>> : FALSE
    OBVIOUS
  <2>3. Undoable(Command(BoardAndPatches(pb, <<>>), BoardAndPatches(qb, <<>>)), c)
    BY <1>3, <2>2, BoardAndBlocksPlain DEF OtherList
  <2>4. QED
    BY <2>1, <2>3, EffectForms
<1>5. Undoable(updateBoardAndBlocks(c, board, new), c)
  <2>1. updateBoardAndBlocks(c, board, new) =
          Command([NoEffect EXCEPT !.board = pb, !.patches = redo], [NoEffect EXCEPT !.board = qb, !.patches = undo])
    BY DEF updateBoardAndBlocks, p, pb, qb
  <2>2. DOMAIN redo = DOMAIN new /\ DOMAIN undo = DOMAIN new
    OBVIOUS
  <2>3. ASSUME NEW id \in DOMAIN new \cap DOMAIN c.blocks
        PROVE  PatchBlock(undo[id], PatchBlock(redo[id], c.blocks[id].f)) = c.blocks[id].f
    <3>1. q[id] = createPatchesFromBlocks(new[id], c.blocks[id].f, CopiedKeys)
      BY DEF BlockPatches
    <3>2. IsMap(new[id]) /\ IsMap(c.blocks[id].f)
      BY DEF OtherList, Shaped
    <3> HIDE DEF q
    <3>3. QED
      BY <3>1, <3>2, BlockPatchesRevert
  <2> HIDE DEF redo, undo
  <2>4. Undoable(Command(BoardAndPatches(pb, redo), BoardAndPatches(qb, undo)), c)
    BY <1>3, <2>2, <2>3, BoardAndBlocksPlain DEF OtherList
  <2>5. QED
    BY <2>1, <2>4, EffectForms
<1>6. QED
  BY <1>4, <1>5 DEF board

LEMMA RemovedAt ==
    ASSUME NEW E, NEW s \in Seq(E), NEW i \in 1 .. Len(s)
    PROVE  RemoveAt(s, i) \in Seq(E) /\ Len(RemoveAt(s, i)) = Len(s) - 1
<1> DEFINE n == Len(s)
           a == SubSeq(s, 1, i - 1)
           b == SubSeq(s, i + 1, n)
<1>1. n \in Nat /\ i \in 1 .. n
  BY LenProperties
<1>2. a \in Seq(E) /\ Len(a) = i - 1
  BY <1>1, SubSeqProperties
<1>3. b \in Seq(E) /\ Len(b) = n - i
  BY <1>1, SubSeqProperties
<1>4. RemoveAt(s, i) = a \o b
  BY DEF RemoveAt
<1> HIDE DEF a, b, n
<1>5. a \o b \in Seq(E) /\ Len(a \o b) = Len(a) + Len(b)
  BY <1>2, <1>3, ConcatProperties
<1>6. QED
  BY <1>1, <1>2, <1>3, <1>4, <1>5 DEF n

LEMMA InsertedAt ==
    ASSUME NEW E, NEW s \in Seq(E), NEW i \in 1 .. Len(s) + 1, NEW e \in E
    PROVE  /\ InsertAt(s, i, e) \in Seq(E)
           /\ Len(InsertAt(s, i, e)) = Len(s) + 1
           /\ InsertAt(s, i, e)[i] = e
<1> DEFINE n == Len(s)
           a == SubSeq(s, 1, i - 1)
           b == SubSeq(s, i, n)
           m == <<e>>
           l == a \o m
<1>1. n \in Nat /\ i \in 1 .. n + 1
  BY LenProperties
<1>2. a \in Seq(E) /\ Len(a) = i - 1
  BY <1>1, SubSeqProperties
<1>3. b \in Seq(E) /\ Len(b) = n - i + 1
  BY <1>1, SubSeqProperties
<1>4. m \in Seq(E) /\ Len(m) = 1 /\ m[1] = e
  OBVIOUS
<1>5. InsertAt(s, i, e) = l \o b
  BY DEF InsertAt
<1> HIDE DEF a, b, n, m
<1>6. l \in Seq(E) /\ Len(l) = Len(a) + Len(m) /\ \A j \in 1 .. Len(a) + Len(m) : l[j] = IF j <= Len(a) THEN a[j] ELSE m[j - Len(a)]
  BY <1>2, <1>4, ConcatProperties
<1>7. Len(l) = i /\ l[i] = e
  BY <1>1, <1>2, <1>4, <1>6
<1>a. l \in Seq(E)
  BY <1>6
<1> HIDE DEF l
<1>8. /\ l \o b \in Seq(E) /\ Len(l \o b) = Len(l) + Len(b)
      /\ \A j \in 1 .. Len(l) + Len(b) : (l \o b)[j] = IF j <= Len(l) THEN l[j] ELSE b[j - Len(l)]
  BY <1>3, <1>a, ConcatProperties
<1>9. QED
  BY <1>1, <1>3, <1>5, <1>7, <1>8 DEF n

\* The templates are copied one by one.
LEMMA CopiedList ==
    ASSUME NEW c, NEW S, c.board.cardProperties \in Seq(S), Shaped(c), NEW E,
           \A j \in DOMAIN c.board.cardProperties : Copied(c)[j] \in E
    PROVE  /\ Copied(c) \in Seq(E) /\ Len(Copied(c)) = Len(c.board.cardProperties)
           /\ \A j \in DOMAIN c.board.cardProperties : Copied(c)[j].id = c.board.cardProperties[j].id
<1> DEFINE s == c.board.cardProperties
<1>1. Copied(c) = [j \in DOMAIN s |-> [s[j] EXCEPT !.flags = [k \in OptionalKeys |-> Flag(s[j], k)]]]
  BY DEF Copied, createBoard, Shaped
<1>2. Len(s) \in Nat /\ DOMAIN s = 1 .. Len(s)
  BY LenProperties
<1>3. Copied(c) \in [1 .. Len(s) -> E]
  BY <1>1, <1>2
<1>4. \A j \in DOMAIN s : Copied(c)[j].id = s[j].id
  BY <1>1
<1>5. QED
  BY <1>2, <1>3, <1>4, IsASeq, LenProperties

LEMMA LongerList ==
    ASSUME NEW c, NEW S, c.board.cardProperties \in Seq(S), Shaped(c),
           NEW i \in 1 .. Len(c.board.cardProperties) + 1, NEW t
    PROVE  IdList(InsertAt(Copied(c), i, t)) # IdList(c.board.cardProperties)
<1> DEFINE s == c.board.cardProperties
           list == InsertAt(Copied(c), i, t)
           E == {Copied(c)[j] : j \in DOMAIN s} \cup {t}
<1>a. t \in E /\ \A j \in DOMAIN s : Copied(c)[j] \in E
  OBVIOUS
<1> HIDE DEF E
<1>1. Copied(c) \in Seq(E) /\ Len(Copied(c)) = Len(s)
  BY <1>a, CopiedList
<1>2. list \in Seq(E) /\ Len(list) = Len(s) + 1
  BY <1>a, <1>1, InsertedAt
<1> HIDE DEF list
<1>3. DOMAIN list = 1 .. Len(s) + 1 /\ DOMAIN s = 1 .. Len(s) /\ Len(s) \in Nat
  BY <1>2, LenProperties
<1>4. DOMAIN IdList(list) # DOMAIN IdList(s)
  BY <1>3 DEF IdList
<1>5. QED
  BY <1>4 DEF list

\* A new property, or a copy of one, is taken from the board and from the
\* columns of a table at once (mutator.ts:509, 565).
THEOREM NewPropertyUndoable ==
    ASSUME NEW c, NEW S, c.board.cardProperties \in Seq(S), Shaped(c), Whole(c.board.cardProperties),
           c.board.cardProperties # <<>>
    PROVE  /\ \A at \in 1 .. Len(c.board.cardProperties) + 1 : Undoable(insertPropertyTemplate(c, at), c)
           /\ \A p \in Ids(c.board.cardProperties) : Undoable(duplicatePropertyTemplate(c, p), c)
<1> DEFINE s == c.board.cardProperties
<1>1. ASSUME NEW i \in 1 .. Len(s) + 1, NEW t, NEW view, IsMap(view)
      PROVE  /\ Undoable(updateBoard(c, WithTemplates(c, InsertAt(Copied(c), i, t))), c)
             /\ Undoable(updateBoardAndBlocks(c, WithTemplates(c, InsertAt(Copied(c), i, t)), Only(ViewId, view)), c)
  <2> DEFINE list == InsertAt(Copied(c), i, t)
             new == Only(ViewId, view)
  <2>1. OtherList(c, list)
    BY LongerList DEF OtherList
  <2>2. \A id \in DOMAIN new : IsMap(new[id])
    BY <1>1 DEF Only
  <2> HIDE DEF list, new
  <2>3. QED
    BY <2>1, <2>2, ListPlain DEF list, new
<1>2. ASSUME NEW at \in 1 .. Len(s) + 1
      PROVE  Undoable(insertPropertyTemplate(c, at), c)
  <2> DEFINE t == NewTemplate(Guid(c), "text", <<>>)
             columns == View(c).visiblePropertyIds
             column == IF at > 1 /\ at <= Len(columns) THEN at ELSE Len(columns) + 1
             view == [View(c) EXCEPT !.visiblePropertyIds = InsertAt(@, column, t.id)]
             board == WithTemplates(c, InsertAt(Copied(c), at, t))
  <2>1. IsMap(view)
    BY DEF IsMap
  <2>2. insertPropertyTemplate(c, at) =
          IF View(c).viewType = "table" THEN updateBoardAndBlocks(c, board, Only(ViewId, view)) ELSE updateBoard(c, board)
    BY DEF insertPropertyTemplate
  <2> HIDE DEF view, t
  <2>3. QED
    BY <1>1, <2>1, <2>2
<1>3. ASSUME NEW p \in Ids(s)
      PROVE  Undoable(duplicatePropertyTemplate(c, p), c)
  <2> DEFINE i == IndexOf(c, p) + 1
             source == Copied(c)[IndexOf(c, p)]
             t == [NewTemplate(Guid(c), source.type, source.options) EXCEPT !.flags = Only("required", Flag(source, "required"))]
             view == [View(c) EXCEPT !.visiblePropertyIds = Append(@, t.id)]
             board == WithTemplates(c, InsertAt(Copied(c), i, t))
  <2>1. IsMap(view)
    BY DEF IsMap
  <2>2. i \in 1 .. Len(s) + 1
    BY DEF IndexOf, Ids
  <2>3. duplicatePropertyTemplate(c, p) =
          IF View(c).viewType = "table" THEN updateBoardAndBlocks(c, board, Only(ViewId, view)) ELSE updateBoard(c, board)
    BY DEF duplicatePropertyTemplate
  <2> HIDE DEF view, t, i
  <2>4. QED
    BY <1>1, <2>1, <2>2, <2>3
<1>4. QED
  BY <1>2, <1>3

\* Moving a property to another place (mutator.ts:617).
THEOREM MovedPropertyUndoable ==
    ASSUME NEW c, NEW S, c.board.cardProperties \in Seq(S), Shaped(c), Whole(c.board.cardProperties),
           \A i, j \in DOMAIN c.board.cardProperties :
             c.board.cardProperties[i].id = c.board.cardProperties[j].id => i = j,
           NEW p \in Ids(c.board.cardProperties), NEW dest \in DOMAIN c.board.cardProperties,
           c.board.cardProperties[dest].id # p
    PROVE  Undoable(changePropertyTemplateOrder(c, p, dest), c)
<1> DEFINE s == c.board.cardProperties
           src == IndexOf(c, p)
           E == {Copied(c)[j] : j \in DOMAIN s}
           t == Copied(c)[src]
           r == RemoveAt(Copied(c), src)
           list == InsertAt(r, dest, t)
<1>1. Len(s) \in Nat /\ DOMAIN s = 1 .. Len(s)
  BY LenProperties
<1>2. /\ Copied(c) \in Seq(E) /\ Len(Copied(c)) = Len(s)
      /\ \A j \in DOMAIN s : Copied(c)[j].id = s[j].id
  <2>1. \A j \in DOMAIN s : Copied(c)[j] \in E
    OBVIOUS
  <2> HIDE DEF E
  <2>2. QED
    BY <2>1, CopiedList
<1>3. src \in DOMAIN s /\ s[src].id = p
  BY DEF IndexOf, Ids
<1>4. t \in E /\ t.id = p
  BY <1>2, <1>3
<1> HIDE DEF E, t, src
<1>5. r \in Seq(E) /\ Len(r) = Len(s) - 1
  BY <1>1, <1>2, <1>3, RemovedAt
<1> HIDE DEF r
<1>6. list \in Seq(E) /\ Len(list) = Len(s) /\ list[dest] = t
  <2>1. dest \in 1 .. Len(r) + 1
    BY <1>1, <1>5
  <2>2. list \in Seq(E) /\ Len(list) = Len(r) + 1 /\ list[dest] = t
    BY <1>4, <1>5, <2>1, InsertedAt
  <2>3. QED
    BY <1>1, <1>5, <2>2
<1> HIDE DEF list
<1>7. IdList(list)[dest] # IdList(s)[dest]
  BY <1>1, <1>4, <1>6, LenProperties DEF IdList
<1>8. OtherList(c, list)
  <2>1. s # <<>>
    BY <1>1
  <2>2. QED
    BY <1>7, <2>1 DEF OtherList
<1>9. changePropertyTemplateOrder(c, p, dest) = updateBoard(c, WithTemplates(c, list))
  BY DEF changePropertyTemplateOrder, Moved, list, r, t, src
<1>10. \A id \in DOMAIN <<>> : FALSE
  OBVIOUS
<1>11. QED
  BY <1>8, <1>9, <1>10, ListPlain

\* An effect on members, follows or the life of blocks, taken back by another.
LEMMA OtherPlain ==
    ASSUME NEW c, NEW r, NEW u, Shaped(c), IsEffect(r), IsEffect(u),
           r.board = <<>>, u.board = <<>>, r.patches = <<>>, u.patches = <<>>, r.insert = <<>>, u.insert = <<>>,
           IsMap(u.alive), DOMAIN r.alive \cup DOMAIN u.alive \subseteq Living(c),
           NowMembers(u, Apply(r, c)) = c.members, NowFollows(u, Apply(r, c)) = c.follows,
           \A id \in DOMAIN c.blocks : After(u, id, After(r, id, c.blocks[id])) = c.blocks[id]
    PROVE  Undoable(Command(r, u), c)
<1>1. NowBoard(u, Apply(r, c)) = c.board
  BY ApplyPlain DEF NowBoard
<1>2. Apply(u, Apply(r, c)) = c
  BY <1>1, PartsBack
<1> DEFINE k == Command(r, u)
<1>3. k.redo = r /\ k.undo = u /\ k.made = <<>>
  BY DEF Command
<1> HIDE DEF k
<1>4. Plain(k, c)
  BY <1>2, <1>3 DEF Plain
<1>5. QED
  BY <1>4 DEF Undoable, k

LEMMA Untouched ==
    ASSUME NEW e, NEW id, NEW b, e.patches = <<>>, e.alive = <<>>
    PROVE  After(e, id, b) = b
<1>1. DOMAIN <<>> = {}
  OBVIOUS
<1>2. QED
  BY <1>1 DEF After

\* A member is given the role back that the command took (mutator.ts:440).
THEOREM MemberCommandsUndoable ==
    ASSUME NEW c, NEW user, NEW role, Shaped(c)
    PROVE  /\ user \notin DOMAIN c.members => Undoable(createBoardMember(user, role), c)
           /\ user \in DOMAIN c.members =>
                /\ Undoable(updateBoardMember(c, user, role), c)
                /\ Undoable(deleteBoardMember(c, user), c)
<1>1. ASSUME NEW new, NEW old, old = IF user \in DOMAIN c.members THEN c.members[user] ELSE "none"
      PROVE  Undoable(SetMember(user, new, old), c)
  <2> DEFINE r == [NoEffect EXCEPT !.members = Only(user, new)]
             u == [NoEffect EXCEPT !.members = Only(user, old)]
             m == c.members
             d == Apply(r, c)
  <2>1. SetMember(user, new, old) = Command(r, u)
    BY DEF SetMember
  <2>2. /\ IsEffect(r) /\ IsEffect(u) /\ r.board = <<>> /\ u.board = <<>> /\ r.patches = <<>> /\ u.patches = <<>>
        /\ r.insert = <<>> /\ u.insert = <<>> /\ r.alive = <<>> /\ u.alive = <<>>
        /\ r.follows = <<>> /\ u.follows = <<>> /\ r.members = Only(user, new) /\ u.members = Only(user, old)
    BY DEF IsEffect, NoEffect
  <2>3. DOMAIN <<>> = {} /\ IsMap(<<>>)
    BY DEF IsMap
  <2> HIDE DEF r, u
  <2>4. d.members = NowMembers(r, c) /\ d.follows = NowFollows(r, c)
    BY <2>2, ApplyPlain
  <2> HIDE DEF d
  <2>5. NowFollows(u, d) = c.follows
    BY <2>2, <2>3, <2>4 DEF NowFollows
  <2>6. /\ IsMap(d.members)
        /\ DOMAIN d.members \ {user} = DOMAIN m \ {user}
        /\ \A v \in DOMAIN m \ {user} : d.members[v] = m[v]
    <3>1. \A v \in DOMAIN m : m[v] # "none"
      BY DEF Shaped
    <3>2. /\ DOMAIN Over(m, Only(user, new)) = DOMAIN m \cup {user}
          /\ \A v \in DOMAIN m \ {user} : Over(m, Only(user, new))[v] = m[v]
      BY DEF Over, Only
    <3>3. QED
      BY <2>2, <2>4, <3>1, <3>2 DEF NowMembers, IsMap
  <2>7. /\ DOMAIN Over(d.members, u.members) = DOMAIN m \cup {user}
        /\ Over(d.members, u.members)[user] = old
        /\ \A v \in DOMAIN m \ {user} : Over(d.members, u.members)[v] = m[v]
    BY <2>2, <2>6 DEF Over, Only
  <2>8. NowMembers(u, d) = m
    <3> DEFINE x == NowMembers(u, d)
    <3>1. /\ IsMap(x) /\ DOMAIN x = {v \in DOMAIN m \cup {user} : Over(d.members, u.members)[v] # "none"}
          /\ \A v \in DOMAIN x : x[v] = Over(d.members, u.members)[v]
      BY <2>7 DEF NowMembers, IsMap
    <3> HIDE DEF x
    <3>2. \A v \in DOMAIN m : m[v] # "none"
      BY DEF Shaped
    <3>3. DOMAIN x = DOMAIN m /\ \A v \in DOMAIN m : x[v] = m[v]
      BY <1>1, <2>7, <3>1, <3>2
    <3>4. x = m
      BY <3>1, <3>3, SameMap DEF Shaped
    <3>5. QED
      BY <3>4 DEF x
  <2>9. \A id \in DOMAIN c.blocks : After(u, id, After(r, id, c.blocks[id])) = c.blocks[id]
    BY <2>2, Untouched
  <2>10. DOMAIN r.alive \cup DOMAIN u.alive \subseteq Living(c) /\ IsMap(u.alive)
    BY <2>2, <2>3
  <2>11. Undoable(Command(r, u), c)
    BY <2>2, <2>5, <2>8, <2>9, <2>10, OtherPlain DEF d
  <2>12. QED
    BY <2>1, <2>11
<1>2. QED
  BY <1>1 DEF createBoardMember, updateBoardMember, deleteBoardMember

\* Follow and unfollow are each other's undo (mutator.ts:1491).
THEOREM FollowCommandsUndoable ==
    ASSUME NEW c, NEW id, Shaped(c)
    PROVE  /\ id \notin c.follows => Undoable(followBlock(id), c)
           /\ id \in c.follows => Undoable(unfollowBlock(id), c)
<1>1. ASSUME NEW new \in BOOLEAN, id \in c.follows <=> ~new
      PROVE  Undoable(SetFollow(id, new), c)
  <2> DEFINE r == [NoEffect EXCEPT !.follows = Only(id, new)]
             u == [NoEffect EXCEPT !.follows = Only(id, ~new)]
             d == Apply(r, c)
  <2>1. SetFollow(id, new) = Command(r, u)
    BY DEF SetFollow
  <2>2. /\ IsEffect(r) /\ IsEffect(u) /\ r.board = <<>> /\ u.board = <<>> /\ r.patches = <<>> /\ u.patches = <<>>
        /\ r.insert = <<>> /\ u.insert = <<>> /\ r.alive = <<>> /\ u.alive = <<>>
        /\ r.members = <<>> /\ u.members = <<>> /\ r.follows = Only(id, new) /\ u.follows = Only(id, ~new)
    BY DEF IsEffect, NoEffect
  <2>3. DOMAIN <<>> = {} /\ IsMap(<<>>)
    BY DEF IsMap
  <2> HIDE DEF r, u
  <2>4. d.members = NowMembers(r, c) /\ d.follows = NowFollows(r, c)
    BY <2>2, ApplyPlain
  <2> HIDE DEF d
  <2>5. d.follows = IF new THEN c.follows \cup {id} ELSE c.follows \ {id}
    <3>1. NowFollows(r, c) = {b \in c.follows : b # id \/ new} \cup {b \in {id} : new}
      BY <2>2 DEF NowFollows, Only
    <3>2. QED
      BY <2>4, <3>1
  <2>6. NowFollows(u, d) = c.follows
    <3>1. NowFollows(u, d) = {b \in d.follows : b # id \/ ~new} \cup {b \in {id} : ~new}
      BY <2>2 DEF NowFollows, Only
    <3>2. QED
      BY <1>1, <2>5, <3>1
  <2>7. NowMembers(u, d) = c.members
    <3>1. d.members = c.members
      BY <2>2, <2>4, NobodyElse
    <3>2. NowMembers(u, d) = NowMembers(r, c)
      BY <2>2, <3>1 DEF NowMembers
    <3>3. QED
      BY <2>4, <3>1, <3>2
  <2>8. \A b \in DOMAIN c.blocks : After(u, b, After(r, b, c.blocks[b])) = c.blocks[b]
    BY <2>2, Untouched
  <2>9. DOMAIN r.alive \cup DOMAIN u.alive \subseteq Living(c) /\ IsMap(u.alive)
    BY <2>2, <2>3
  <2>10. Undoable(Command(r, u), c)
    BY <2>2, <2>6, <2>7, <2>8, <2>9, OtherPlain DEF d
  <2>11. QED
    BY <2>1, <2>10
<1>2. QED
  BY <1>1 DEF followBlock, unfollowBlock

\* The server has an id for each of n new blocks.
IdsFor(n, c) ==
    \E ids \in [1 .. n -> BlockIds \ DOMAIN c.blocks] : \A i, j \in 1 .. n : ids[i] = ids[j] => i = j

LEMMA InsertionUndoable ==
    ASSUME NEW c, NEW S, NEW new \in Seq(S), new # <<>>, IdsFor(Len(new), c)
    PROVE  Undoable(insertBlocks(new), c)
<1> DEFINE k == insertBlocks(new)
<1>1. k.redo.insert = new
  BY DEF insertBlocks, Command, NoEffect
<1> HIDE DEF k
<1>2. DOMAIN new = 1 .. Len(new)
  BY LenProperties
<1>3. Insertion(k, c)
  <2>1. k = insertBlocks(k.redo.insert)
    BY <1>1 DEF k
  <2>2. QED
    BY <1>1, <1>2, <2>1 DEF Insertion, IdsFor
<1>4. QED
  BY <1>3 DEF Undoable, k

LEMMA OneInserted ==
    ASSUME NEW c, NEW id \in BlockIds, id \notin DOMAIN c.blocks, NEW block
    PROVE  Undoable(insertBlocks(<<block>>), c)
<1> DEFINE new == <<block>>
<1>1. new \in Seq({block}) /\ new # <<>> /\ Len(new) = 1
  OBVIOUS
<1> HIDE DEF new
<1> DEFINE ids == [i \in 1 .. 1 |-> id]
<1>2. ids \in [1 .. 1 -> BlockIds \ DOMAIN c.blocks] /\ \A i, j \in 1 .. 1 : i = j
  OBVIOUS
<1> HIDE DEF ids
<1>3. IdsFor(Len(new), c)
  <2>1. IdsFor(1, c)
    BY <1>2 DEF IdsFor
  <2>2. QED
    BY <1>1, <2>1
<1>4. Undoable(insertBlocks(new), c)
  BY <1>1, <1>3, InsertionUndoable
<1>5. QED
  BY <1>4 DEF new

\* What is deleted comes back, and what is made is deleted again, whatever id the
\* server gave to it (mutator.ts:172, 219).
THEOREM BlockCommandsUndoable ==
    ASSUME NEW c, Shaped(c), NEW block, NEW value, NEW S
    PROVE  /\ \A id \in Living(c) : Undoable(deleteBlock(id), c) /\ Undoable(deleteBoard(id), c)
           /\ \A id : BlockIds \ DOMAIN c.blocks # {} =>
                /\ Undoable(insertBlock(block), c)
                /\ Undoable(createSubCard(c, id, block), c)
                /\ Undoable(duplicateCard(c, id, value), c)
                /\ Undoable(duplicateBoard(c, id), c)
           /\ \A bab \in Seq(S) : bab # <<>> /\ IdsFor(Len(bab), c) => Undoable(createBoardsAndBlocks(bab), c)
<1>1. ASSUME NEW id \in Living(c)
      PROVE  Undoable(deleteBlock(id), c)
  <2> DEFINE dies == Only(id, FALSE)
             lives == Only(id, TRUE)
             r == [NoEffect EXCEPT !.alive = dies]
             u == [NoEffect EXCEPT !.alive = lives]
             d == Apply(r, c)
  <2>1. deleteBlock(id) = Command(r, u)
    BY DEF deleteBlock
  <2>2. /\ DOMAIN dies = {id} /\ dies[id] = FALSE
        /\ DOMAIN lives = {id} /\ lives[id] = TRUE /\ IsMap(lives)
    BY DEF Only, IsMap
  <2> HIDE DEF dies, lives
  <2>3. /\ IsEffect(r) /\ IsEffect(u) /\ r.board = <<>> /\ u.board = <<>> /\ r.patches = <<>> /\ u.patches = <<>>
        /\ r.insert = <<>> /\ u.insert = <<>> /\ r.alive = dies /\ u.alive = lives
        /\ r.members = <<>> /\ u.members = <<>> /\ r.follows = <<>> /\ u.follows = <<>>
    BY DEF IsEffect, NoEffect
  <2>4. DOMAIN <<>> = {}
    OBVIOUS
  <2> HIDE DEF r, u
  <2>5. d.members = c.members /\ d.follows = c.follows
    BY <2>3, ApplyPlain, NobodyElse
  <2> HIDE DEF d
  <2>6. NowMembers(u, d) = c.members /\ NowFollows(u, d) = c.follows
    <3>1. NowMembers(u, d) = NowMembers(u, c) /\ NowFollows(u, d) = NowFollows(u, c)
      BY <2>5 DEF NowMembers, NowFollows
    <3>2. QED
      BY <2>3, <3>1, NobodyElse
  <2>7. ASSUME NEW i \in DOMAIN c.blocks
        PROVE  After(u, i, After(r, i, c.blocks[i])) = c.blocks[i]
    <3> DEFINE b == c.blocks[i]
    <3>1. \A x : /\ After(u, i, x) = IF i = id THEN [x EXCEPT !.alive = lives[i]] ELSE x
                 /\ After(r, i, x) = IF i = id THEN [x EXCEPT !.alive = dies[i]] ELSE x
      BY <2>2, <2>3, <2>4 DEF After
    <3>2. b = [type |-> b.type, alive |-> b.alive, f |-> b.f] /\ b.alive \in BOOLEAN
      BY DEF Shaped
    <3>3. i = id => b.alive
      BY DEF Living
    <3>4. i = id => b.alive = lives[i]
      BY <2>2, <3>2, <3>3
    <3> DEFINE m == [type |-> b.type, alive |-> dies[i], f |-> b.f]
    <3> HIDE DEF b
    <3>5. [b EXCEPT !.alive = dies[i]] = m
      BY <3>2
    <3>6. [m EXCEPT !.alive = lives[i]] = [type |-> b.type, alive |-> lives[i], f |-> b.f]
      OBVIOUS
    <3> HIDE DEF m
    <3>7. CASE i = id
      <4>1. After(u, i, After(r, i, b)) = [m EXCEPT !.alive = lives[i]]
        BY <3>1, <3>5, <3>7
      <4>2. QED
        BY <3>2, <3>4, <3>6, <3>7, <4>1 DEF b
    <3>8. CASE i # id
      BY <3>1, <3>8 DEF b
    <3>9. QED
      BY <3>7, <3>8 DEF b
  <2>8. DOMAIN r.alive \cup DOMAIN u.alive \subseteq Living(c) /\ IsMap(u.alive)
    BY <2>2, <2>3
  <2>9. Undoable(Command(r, u), c)
    BY <2>3, <2>6, <2>7, <2>8, OtherPlain DEF d
  <2>10. QED
    BY <2>1, <2>9
<1>2. ASSUME NEW id, BlockIds \ DOMAIN c.blocks # {}
      PROVE  /\ Undoable(insertBlock(block), c)
             /\ Undoable(createSubCard(c, id, block), c)
             /\ Undoable(duplicateCard(c, id, value), c)
             /\ Undoable(duplicateBoard(c, id), c)
  <2>1. \A b : Undoable(insertBlocks(<<b>>), c)
    BY <1>2, OneInserted
  <2>2. QED
    BY <2>1 DEF insertBlock, createSubCard, duplicateCard, duplicateBoard
<1>3. QED
  BY <1>1, <1>2, InsertionUndoable DEF deleteBoard, createBoardsAndBlocks

\* Nothing about Good hangs on what cannot be seen, and the commands a user may
\* give on a good content make a good one.
Keeps(Good) ==
    /\ Initial \subseteq Good
    /\ \A c, d \in Contents : Visible(c) = Visible(d) /\ c \in Good => d \in Good
    /\ \A c \in Contents \cap Good : \A k \in Offered(c) : Redo(k, c) \in Good

\* Each shot on the stack is one of a good content.
GoodInv(Good) ==
    alone => /\ content \in Good
             /\ \A i \in DOMAIN shots : \E c \in Contents \cap Good : shots[i] = Visible(c)

LEMMA GoodStep ==
    ASSUME Closed, NEW leads, NEW behind, Reverting(leads, behind), NEW Good, Keeps(Good),
           TypeOK, RunInv, BackInv(leads, behind), TypeOK', BackInv(leads, behind)', GoodInv(Good),
           [Next]_vars, alone'
    PROVE  /\ (content \in Good)'
           /\ (\A i \in DOMAIN shots : \E c \in Contents \cap Good : shots[i] = Visible(c))'
<1> USE Shape
<1>1. content \in Contents /\ content' \in Contents /\ index \in 0 .. Len(commands) /\ alone \in BOOLEAN
  BY DEF TypeOK
<1>2. ASSUME alone, UNCHANGED <<content, shots>>
      PROVE  /\ (content \in Good)'
             /\ (\A i \in DOMAIN shots : \E c \in Contents \cap Good : shots[i] = Visible(c))'
  BY <1>2 DEF GoodInv
<1>3. CASE BeginGroup \/ EndGroup \/ (\E k \in Offered(content) : Perform(k))
           \/ (\E p \in performing : PerformFails(p)) \/ Press("undo") \/ Press("redo")
           \/ RunEnds \/ RunFails \/ UNCHANGED vars
  <2>1. alone /\ UNCHANGED <<content, shots>>
    BY <1>1, <1>3 DEF BeginGroup, EndGroup, Perform, PerformFails, Press, RunEnds, RunFails, vars
  <2>2. QED
    BY <1>2, <2>1
<1>4. ASSUME NEW p \in performing, PerformReaches(p)
      PROVE  /\ (content \in Good)'
             /\ (\A i \in DOMAIN shots : \E c \in Contents \cap Good : shots[i] = Visible(c))'
  <2>1. alone /\ p.at = "sent" /\ content' = Redo(p.cmd, content) /\ shots' = shots
    BY <1>4 DEF PerformReaches
  <2>2. p.cmd \in Offered(content)
    BY <2>1 DEF BackInv, Past, PerformLeads
  <2>3. content' \in Good
    BY <1>1, <2>1, <2>2 DEF Keeps, GoodInv
  <2>4. QED
    BY <2>1, <2>3 DEF GoodInv
<1>5. ASSUME NEW p \in performing, PerformEnds(p)
      PROVE  /\ (content \in Good)'
             /\ (\A i \in DOMAIN shots : \E c \in Contents \cap Good : shots[i] = Visible(c))'
  <2>1. alone /\ content' = content /\ (UNCHANGED stack \/ Registered(p))
    BY <1>5 DEF PerformEnds
  <2>2. CASE UNCHANGED stack
    BY <1>2, <2>1, <2>2 DEF stack
  <2>3. CASE Registered(p)
    <3> DEFINE v == Visible(content)
    <3>1. shots' = Append(SubSeq(shots, 1, index + 1), v)
      BY <2>3 DEF Registered
    <3>2. shots \in Seq(Sights) /\ index + 1 \in 0 .. Len(shots) /\ v \in Sights /\ index + 1 \in Nat
      BY <1>1 DEF TypeOK, Sights
    <3> HIDE DEF v
    <3>3. /\ DOMAIN shots' = 1 .. (index + 1) + 1
          /\ \A i \in 1 .. index + 1 : shots'[i] = shots[i] /\ i \in DOMAIN shots
          /\ shots'[(index + 1) + 1] = v
      BY <3>1, <3>2, CutAndPush
    <3>4. \A i \in DOMAIN shots' : shots'[i] = v \/ \E j \in DOMAIN shots : shots'[i] = shots[j]
      <4>1. \A i \in 1 .. (index + 1) + 1 : i \in 1 .. index + 1 \/ i = (index + 1) + 1
        BY <3>2
      <4>2. QED
        BY <3>3, <4>1
    <3>5. content \in Good /\ \A i \in DOMAIN shots : \E c \in Contents \cap Good : shots[i] = Visible(c)
      BY <2>1 DEF GoodInv
    <3>6. \A i \in DOMAIN shots' : \E c \in Contents \cap Good : shots'[i] = Visible(c)
      BY <1>1, <3>4, <3>5 DEF v
    <3>7. QED
      BY <2>1, <3>5, <3>6
  <2>4. QED
    BY <2>1, <2>2, <2>3
<1>6. CASE RunReaches
  <2>a. alone
    BY <1>6 DEF RunReaches
  <2>b. /\ run # NoRun /\ run.at = "sent" /\ run.dir \in {"undo", "redo"}
        /\ Target(run.dir) \in DOMAIN commands
        /\ run' = [run EXCEPT !.at = "reached"]
        /\ UNCHANGED <<index, performing, shots>>
    BY <1>6 DEF RunReaches, RunInv, NoRun
  <2>1. /\ alone /\ run # NoRun /\ run.at = "sent" /\ run.dir \in {"undo", "redo"}
        /\ Target(run.dir) \in DOMAIN commands
        /\ run' = [run EXCEPT !.at = "reached"] /\ UNCHANGED <<index, performing, shots>>
    BY <2>a, <2>b
  <2>2. run'.at = "reached" /\ run'.dir = run.dir
    BY <2>1
  <2>3. performing = {}
    BY <2>1 DEF BackInv, AtMostOne
  <2>4. PICK w : Past(leads, behind, w)'
    BY DEF BackInv
  <2> DEFINE j == IF run.dir = "undo" THEN index ELSE index + 2
  <2>5. <<w[j], content'>> \in behind /\ StackLeads(leads, w)'
    BY <2>1, <2>2, <2>3, <2>4 DEF Past, RunLeads
  <2>6. j \in 1 .. Len(commands) + 1 /\ Len(commands') = Len(commands)
    <3>1. DOMAIN commands = 1 .. Len(commands) /\ Len(commands) \in Nat
      BY DEF TypeOK
    <3>2. Len(commands') + 1 = Len(shots') /\ Len(commands) + 1 = Len(shots)
          /\ Len(commands') \in Nat
      BY DEF TypeOK
    <3>3. QED
      BY <1>1, <2>1, <3>1, <3>2 DEF Target
  <2> HIDE DEF j
  <2>7. /\ w \in Seq(Contents) /\ Len(w) = Len(commands) + 1 /\ shots[j] = Visible(w[j])
        /\ j \in DOMAIN shots /\ w[j] \in Contents
    <3>1. w \in Seq(Contents) /\ Len(w) = Len(commands) + 1 /\ shots[j] = Visible(w[j])
      BY <2>1, <2>5, <2>6 DEF StackLeads
    <3>2. DOMAIN shots = 1 .. Len(commands) + 1
      BY DEF TypeOK
    <3>3. w[j] \in Contents
      BY <2>6, <3>1, ElementOfSeq
    <3>4. QED
      BY <2>6, <3>1, <3>2, <3>3
  <2>8. Visible(content') = Visible(w[j])
    BY <1>1, <2>5, <2>7 DEF Reverting
  <2>9. content' \in Good
    BY <1>1, <2>1, <2>7, <2>8 DEF GoodInv, Keeps
  <2>10. QED
    BY <2>1, <2>9 DEF GoodInv
<1>7. QED
  BY <1>3, <1>4, <1>5, <1>6 DEF Next

\* What every command keeps true of a content, sessions of commands that can be
\* undone and done again keep true of it, through every undo and redo, as long
\* as it can be seen and one call is made at a time (undomanager.ts:118, 148).
THEOREM SessionsKeep ==
    ASSUME Closed, NEW leads, NEW behind, Reverting(leads, behind), NEW Good, Keeps(Good)
    PROVE  Spec => [](alone => content \in Good)
<1>1. Init => GoodInv(Good)
  <2>1. SUFFICES ASSUME Init PROVE GoodInv(Good)
    OBVIOUS
  <2>2. content \in Contents /\ content \in Good /\ shots = <<Visible(content)>>
    BY <2>1 DEF Init, Closed, Keeps
  <2>3. DOMAIN shots = {1} /\ shots[1] = Visible(content)
    BY <2>2
  <2>4. QED
    BY <2>2, <2>3 DEF GoodInv
<1>2. /\ UndoInv /\ UndoInv' /\ BackInv(leads, behind) /\ BackInv(leads, behind)'
      /\ GoodInv(Good) /\ [Next]_vars
      => GoodInv(Good)'
  <2>1. SUFFICES ASSUME UndoInv, UndoInv', BackInv(leads, behind), BackInv(leads, behind)',
                        GoodInv(Good), [Next]_vars, alone'
                 PROVE  /\ (content \in Good)'
                        /\ (\A i \in DOMAIN shots : \E c \in Contents \cap Good : shots[i] = Visible(c))'
    BY DEF GoodInv
  <2>2. TypeOK /\ RunInv /\ TypeOK'
    BY <2>1 DEF UndoInv
  <2>3. QED
    BY <2>1, <2>2, GoodStep
<1>3. GoodInv(Good) => (alone => content \in Good)
  BY DEF GoodInv
<1>4. Spec => []BackInv(leads, behind)
  BY PastHolds
<1>5. QED
  BY <1>1, <1>2, <1>3, <1>4, UndoInvariant, PTL DEF Spec

\* Every set of numbers has a least one.
LEMMA LeastExists ==
    ASSUME NEW T, T \subseteq Nat, T # {}
    PROVE  \E x \in T : \A y \in T : x <= y
<1> DEFINE R == OpToRel(<, Nat)
<1>1. IsWellFoundedOn(R, Nat)
  BY NatLessThanWellFounded
<1>2. \A x, y \in Nat : x < y => <<x, y>> \in R
  BY DEF OpToRel
<1> HIDE DEF R
<1>3. PICK x \in T : \A y \in T : <<y, x>> \notin R
  BY <1>1, WFMin
<1>4. ASSUME NEW y \in T PROVE x <= y
  <2>1. x \in Nat /\ y \in Nat
    OBVIOUS
  <2>2. ~ (y < x)
    BY <1>2, <1>3, <2>1
  <2> QED BY ONLY <2>1, <2>2
<1> QED BY <1>4

\* Induction, over the numbers that are good.
LEMMA UpTo ==
    ASSUME NEW n \in Nat, NEW G, 0 \in G, \A k \in 1 .. n : k - 1 \in G => k \in G
    PROVE  n \in G
<1> DEFINE Bad == {k \in 0 .. n : k \notin G}
<1>1. SUFFICES ASSUME Bad # {} PROVE FALSE
  OBVIOUS
<1>2. PICK k \in Bad : \A j \in Bad : k <= j
  <2>1. Bad \subseteq Nat
    OBVIOUS
  <2> HIDE DEF Bad
  <2> QED BY <1>1, <2>1, LeastExists
<1>3. k \in 1 .. n /\ k \notin G
  BY <1>2
<1>4. k - 1 \in 0 .. n /\ ~(k <= k - 1)
  BY <1>3
<1>5. k - 1 \in G
  BY <1>2, <1>4
<1> QED BY <1>3, <1>5

\* The last of a set of indices.
LEMMA MaxOfIndices ==
    ASSUME NEW k \in Nat, NEW d, d \subseteq 1 .. k, k \in d
    PROVE  Max(d) = k
<1>1. \A y \in d : k >= y
  OBVIOUS
<1>2. \A x \in d : (\A y \in d : x >= y) => x = k
  OBVIOUS
<1>3. Max(d) = CHOOSE x \in d : \A y \in d : x >= y
  BY DEF Max
<1> QED BY <1>1, <1>2, <1>3

\* One turn of filter().
Kept(t, x, S) == IF x \in S THEN Append(t, x) ELSE t

\* What filter() makes of a list, element by element.
LEMMA FilteredUnfolds ==
    ASSUME NEW S, NEW s, Len(s) \in Nat, DOMAIN s = 1 .. Len(s)
    PROVE  \E f : /\ f[0] = <<>>
                  /\ f[Len(s)] = Filtered(s, S)
                  /\ \A k \in 1 .. Len(s) : f[k] = Kept(f[k - 1], s[k], S)
<1> DEFINE start == <<>>
           Op(t, x) == Kept(t, x, S)
           Folds(g, D) == g = [d \in SUBSET D |->
                                 IF d = {} THEN start ELSE LET x == Max(d) IN Op(g[d \ {x}], s[x])]
           G == {k \in 0 .. Len(s) : \E g : Folds(g, 1 .. k)}
<1>1. \E g : Folds(g, 1 .. Len(s))
  <2>1. 0 \in G
    <3> DEFINE g == [d \in SUBSET (1 .. 0) |-> start]
    <3>1. \A d \in SUBSET (1 .. 0) : d = {}
      OBVIOUS
    <3>2. Folds(g, 1 .. 0)
      BY <3>1
    <3> HIDE DEF Folds
    <3> QED BY <3>2
  <2>2. ASSUME NEW k \in 1 .. Len(s), k - 1 \in G PROVE k \in G
    <3>1. PICK h : Folds(h, 1 .. (k - 1))
      <4> HIDE DEF Folds
      <4> QED BY <2>2
    <3> DEFINE g == [d \in SUBSET (1 .. k) |->
                       IF k \in d THEN Op(h[d \ {k}], s[k]) ELSE h[d]]
    <3> HIDE DEF Op
    <3>2. ASSUME NEW d \in SUBSET (1 .. k)
          PROVE  g[d] = IF d = {} THEN start ELSE LET x == Max(d) IN Op(g[d \ {x}], s[x])
      <4>1. CASE k \in d
        <5>1. Max(d) = k /\ d \ {k} \in SUBSET (1 .. k) /\ k \notin d \ {k}
          <6>1. k \in Nat /\ d \subseteq 1 .. k
            BY <2>2
          <6> QED BY <4>1, <6>1, MaxOfIndices
        <5>2. g[d \ {k}] = h[d \ {k}]
          BY <5>1
        <5> QED BY <4>1, <5>1, <5>2
      <4>2. CASE k \notin d
        <5>1. d \in SUBSET (1 .. (k - 1))
          BY <4>2
        <5>2. h[d] = IF d = {} THEN start ELSE LET x == Max(d) IN Op(h[d \ {x}], s[x])
          BY <3>1, <5>1
        <5>3. \A x : d \ {x} \in SUBSET (1 .. k) /\ k \notin d \ {x}
          BY <4>2
        <5>4. g[d] = h[d] /\ \A x : g[d \ {x}] = h[d \ {x}]
          BY <4>2, <5>3
        <5> QED BY <5>2, <5>4
      <4> QED BY <4>1, <4>2
    <3>3. Folds(g, 1 .. k)
      BY <3>2
    <3> HIDE DEF Folds
    <3> QED BY <2>2, <3>3
  <2> HIDE DEF G
  <2>3. Len(s) \in G
    BY <2>1, <2>2, UpTo
  <2> QED BY <2>3 DEF G
<1> DEFINE n == Len(s)
           iter == CHOOSE g : Folds(g, DOMAIN s)
           f == [k \in 0 .. n |-> iter[1 .. k]]
<1>2. Folds(iter, 1 .. n)
  <2> HIDE DEF Folds
  <2> QED BY <1>1
<1>3. Filtered(s, S) = iter[DOMAIN s]
  BY DEF Filtered, Kept, FoldLeft, MapThenFoldSet
<1> HIDE DEF iter
<1>4. f[0] = start
  <2>1. 1 .. 0 = {} /\ {} \in SUBSET (1 .. n) /\ 0 \in 0 .. n
    OBVIOUS
  <2> QED BY <1>2, <2>1
<1>5. ASSUME NEW k \in 1 .. n PROVE f[k] = Op(f[k - 1], s[k])
  <2>1. 1 .. k \in SUBSET (1 .. n) /\ k \in 1 .. k /\ k \in Nat
    OBVIOUS
  <2>2. Max(1 .. k) = k
    BY <2>1, MaxOfIndices
  <2>3. (1 .. k) \ {k} = 1 .. (k - 1)
    OBVIOUS
  <2> HIDE DEF Op
  <2>4. iter[1 .. k] = Op(iter[1 .. (k - 1)], s[k])
    BY <1>2, <2>1, <2>2, <2>3
  <2> QED BY <2>4
<1>6. f[n] = Filtered(s, S)
  BY <1>3
<1> HIDE DEF n, f
<1> QED BY <1>4, <1>5, <1>6 DEF n


LEMMA AppendedSet ==
    ASSUME NEW E, NEW s \in Seq(E), NEW x \in E
    PROVE  Append(s, x) \in Seq(E) /\ ToSet(Append(s, x)) = ToSet(s) \cup {x}
<1>1. /\ Append(s, x) \in Seq(E) /\ Len(Append(s, x)) = Len(s) + 1
      /\ \A i \in 1 .. Len(s) : Append(s, x)[i] = s[i]
      /\ Append(s, x)[Len(s) + 1] = x
  BY AppendProperties
<1>2. Len(s) \in Nat /\ DOMAIN s = 1 .. Len(s) /\ DOMAIN Append(s, x) = 1 .. Len(s) + 1
  BY <1>1, LenProperties
<1> DEFINE t == Append(s, x)
<1> HIDE DEF t
<1>3. \A i \in DOMAIN t : t[i] \in ToSet(s) \cup {x}
  <2> TAKE i \in DOMAIN t
  <2>1. i \in 1 .. Len(s) \/ i = Len(s) + 1
    BY <1>2 DEF t
  <2> QED BY <1>1, <1>2, <2>1 DEF ToSet, t
<1>4. \A i \in DOMAIN s : s[i] \in ToSet(t)
  BY <1>1, <1>2 DEF ToSet, t
<1>5. x \in ToSet(t)
  BY <1>1, <1>2 DEF ToSet, t
<1> QED BY <1>1, <1>3, <1>4, <1>5 DEF ToSet, t

\* filter() keeps what is in the set, and nothing else.
LEMMA FilteredSet ==
    ASSUME NEW E, NEW s \in Seq(E), NEW S
    PROVE  Filtered(s, S) \in Seq(E) /\ ToSet(Filtered(s, S)) = ToSet(s) \cap S
<1> DEFINE n == Len(s)
<1>1. n \in Nat /\ DOMAIN s = 1 .. n /\ \A i \in 1 .. n : s[i] \in E
  BY LenProperties, ElementOfSeq
<1>2. PICK f : /\ f[0] = <<>> /\ f[n] = Filtered(s, S)
               /\ \A k \in 1 .. n : f[k] = Kept(f[k - 1], s[k], S)
  BY <1>1, FilteredUnfolds
<1> HIDE DEF n
<1> DEFINE Upto(k) == {s[i] : i \in 1 .. k}
           G == {k \in 0 .. n : f[k] \in Seq(E) /\ ToSet(f[k]) = Upto(k) \cap S}
<1>3. 0 \in G
  <2>1. Upto(0) = {} /\ <<>> \in Seq(E) /\ ToSet(<<>>) = {} /\ 0 \in 0 .. n
    BY <1>1 DEF ToSet
  <2> QED BY <1>2, <2>1
<1>4. ASSUME NEW k \in 1 .. n, k - 1 \in G PROVE k \in G
  <2>1. f[k - 1] \in Seq(E) /\ ToSet(f[k - 1]) = Upto(k - 1) \cap S /\ k \in 0 .. n
    BY <1>1, <1>4
  <2>2. Upto(k) = Upto(k - 1) \cup {s[k]}
    <3>1. 1 .. k = (1 .. (k - 1)) \cup {k}
      BY <1>1
    <3> QED BY <3>1
  <2>3. f[k] = IF s[k] \in S THEN Append(f[k - 1], s[k]) ELSE f[k - 1]
    BY <1>2 DEF Kept
  <2>4. s[k] \in E
    BY <1>1
  <2> HIDE DEF Upto
  <2>5. f[k] \in Seq(E) /\ ToSet(f[k]) = Upto(k) \cap S
    <3>1. CASE s[k] \in S
      <4>1. Append(f[k - 1], s[k]) \in Seq(E) /\ ToSet(Append(f[k - 1], s[k])) = ToSet(f[k - 1]) \cup {s[k]}
        BY <2>1, <2>4, AppendedSet
      <4> QED BY <2>1, <2>2, <2>3, <3>1, <4>1
    <3>2. CASE s[k] \notin S
      BY <2>1, <2>2, <2>3, <3>2
    <3> QED BY <3>1, <3>2
  <2> QED BY <2>1, <2>5
<1> HIDE DEF G
<1>5. n \in G
  BY <1>1, <1>3, <1>4, UpTo
<1>6. Upto(n) = ToSet(s)
  BY <1>1 DEF ToSet
<1> QED BY <1>2, <1>5, <1>6 DEF G

LEMMA JoinedSet ==
    ASSUME NEW E, NEW s \in Seq(E), NEW t \in Seq(E)
    PROVE  s \o t \in Seq(E) /\ ToSet(s \o t) = ToSet(s) \cup ToSet(t)
<1>1. /\ s \o t \in Seq(E) /\ Len(s \o t) = Len(s) + Len(t)
      /\ \A i \in 1 .. Len(s) + Len(t) : (s \o t)[i] = IF i <= Len(s) THEN s[i] ELSE t[i - Len(s)]
  BY ConcatProperties
<1>2. /\ Len(s) \in Nat /\ DOMAIN s = 1 .. Len(s) /\ Len(t) \in Nat /\ DOMAIN t = 1 .. Len(t)
      /\ DOMAIN (s \o t) = 1 .. Len(s) + Len(t)
  BY <1>1, LenProperties
<1> DEFINE u == s \o t
<1> HIDE DEF u
<1>3. \A i \in DOMAIN u : u[i] \in ToSet(s) \cup ToSet(t)
  <2> TAKE i \in DOMAIN u
  <2>1. i \in 1 .. Len(s) + Len(t)
    BY <1>2 DEF u
  <2>2. CASE i <= Len(s)
    BY <1>1, <1>2, <2>1, <2>2 DEF ToSet, u
  <2>3. CASE ~(i <= Len(s))
    <3>1. i - Len(s) \in DOMAIN t
      BY <1>2, <2>1, <2>3
    <3> QED BY <1>1, <2>1, <2>3, <3>1 DEF ToSet, u
  <2> QED BY <2>2, <2>3
<1>4. \A i \in DOMAIN s : s[i] \in ToSet(u)
  BY <1>1, <1>2 DEF ToSet, u
<1>5. \A i \in DOMAIN t : t[i] \in ToSet(u)
  <2> TAKE i \in DOMAIN t
  <2>1. i + Len(s) \in 1 .. Len(s) + Len(t) /\ ~(i + Len(s) <= Len(s)) /\ (i + Len(s)) - Len(s) = i
    BY <1>2
  <2> QED BY <1>1, <1>2, <2>1 DEF ToSet, u
<1> QED BY <1>1, <1>3, <1>4, <1>5 DEF ToSet, u

\* splice() takes out one element and puts in one.
LEMMA CutSet ==
    ASSUME NEW E, NEW s \in Seq(E), NEW i \in 1 .. Len(s) + 1
    PROVE  /\ SubSeq(s, 1, i - 1) \in Seq(E) /\ SubSeq(s, i, Len(s)) \in Seq(E)
           /\ ToSet(SubSeq(s, 1, i - 1)) = {s[j] : j \in 1 .. i - 1}
           /\ ToSet(SubSeq(s, i, Len(s))) = {s[j] : j \in i .. Len(s)}
<1> DEFINE n == Len(s)
           a == SubSeq(s, 1, i - 1)
           b == SubSeq(s, i, n)
<1>1. n \in Nat /\ i \in 1 .. n + 1
  BY LenProperties
<1>2. a \in Seq(E) /\ Len(a) = i - 1 /\ \A j \in 1 .. i - 1 : a[j] = s[j]
  BY <1>1, SubSeqProperties
<1>3. b \in Seq(E) /\ Len(b) = n - i + 1 /\ \A j \in 1 .. n - i + 1 : b[j] = s[i + j - 1]
  BY <1>1, SubSeqProperties
<1>4. DOMAIN a = 1 .. i - 1 /\ DOMAIN b = 1 .. n - i + 1
  BY <1>2, <1>3, LenProperties
<1> HIDE DEF a, b, n
<1>5. ToSet(a) = {s[j] : j \in 1 .. i - 1}
  BY <1>2, <1>4 DEF ToSet
<1>6. ToSet(b) = {s[j] : j \in i .. n}
  <2>1. \A j \in DOMAIN b : \E k \in i .. n : b[j] = s[k]
    <3> TAKE j \in DOMAIN b
    <3>1. j \in 1 .. n - i + 1 /\ i + j - 1 \in i .. n
      BY <1>1, <1>4
    <3> QED BY <1>3, <3>1
  <2>2. \A j \in i .. n : j - i + 1 \in DOMAIN b /\ b[j - i + 1] = s[j]
    <3> TAKE j \in i .. n
    <3>1. j - i + 1 \in 1 .. n - i + 1 /\ i + (j - i + 1) - 1 = j
      BY <1>1
    <3> QED BY <1>3, <1>4, <3>1
  <2>3. ToSet(b) \subseteq {s[j] : j \in i .. n}
    BY <2>1 DEF ToSet
  <2>4. \A j \in i .. n : s[j] \in ToSet(b)
    BY <2>2 DEF ToSet
  <2> QED BY <2>3, <2>4
<1> QED BY <1>2, <1>3, <1>5, <1>6 DEF a, b, n

LEMMA InsertedSet ==
    ASSUME NEW E, NEW s \in Seq(E), NEW i \in 1 .. Len(s) + 1, NEW e \in E
    PROVE  InsertAt(s, i, e) \in Seq(E) /\ ToSet(InsertAt(s, i, e)) = ToSet(s) \cup {e}
<1> DEFINE n == Len(s)
           a == SubSeq(s, 1, i - 1)
           b == SubSeq(s, i, n)
           m == <<e>>
           l == a \o m
<1>1. n \in Nat /\ i \in 1 .. n + 1 /\ DOMAIN s = 1 .. n
  BY LenProperties
<1>2. /\ a \in Seq(E) /\ b \in Seq(E)
      /\ ToSet(a) = {s[j] : j \in 1 .. i - 1} /\ ToSet(b) = {s[j] : j \in i .. n}
  BY CutSet
<1>3. m \in Seq(E) /\ ToSet(m) = {e}
  BY DEF ToSet
<1>4. InsertAt(s, i, e) = l \o b
  BY DEF InsertAt
<1> HIDE DEF a, b, m, n
<1>5. l \in Seq(E) /\ ToSet(l) = ToSet(a) \cup {e}
  BY <1>2, <1>3, JoinedSet
<1> HIDE DEF l
<1>6. l \o b \in Seq(E) /\ ToSet(l \o b) = ToSet(l) \cup ToSet(b)
  BY <1>2, <1>5, JoinedSet
<1>7. ToSet(s) = ToSet(a) \cup ToSet(b)
  <2>1. 1 .. n = (1 .. i - 1) \cup (i .. n)
    BY <1>1
  <2> QED BY <1>1, <1>2, <2>1 DEF ToSet
<1> QED BY <1>4, <1>5, <1>6, <1>7

LEMMA RemovedSet ==
    ASSUME NEW E, NEW s \in Seq(E), NEW i \in 1 .. Len(s)
    PROVE  RemoveAt(s, i) \in Seq(E) /\ ToSet(s) = ToSet(RemoveAt(s, i)) \cup {s[i]}
<1> DEFINE n == Len(s)
           a == SubSeq(s, 1, i - 1)
           b == SubSeq(s, i + 1, n)
<1>1. n \in Nat /\ i \in 1 .. n /\ DOMAIN s = 1 .. n /\ i + 1 \in 1 .. n + 1 /\ i \in 1 .. n + 1
  BY LenProperties
<1>2. a \in Seq(E) /\ ToSet(a) = {s[j] : j \in 1 .. i - 1}
  BY <1>1, CutSet
<1>3. b \in Seq(E) /\ ToSet(b) = {s[j] : j \in i + 1 .. n}
  BY <1>1, CutSet
<1>4. RemoveAt(s, i) = a \o b
  BY DEF RemoveAt
<1> HIDE DEF a, b, n
<1>5. a \o b \in Seq(E) /\ ToSet(a \o b) = ToSet(a) \cup ToSet(b)
  BY <1>2, <1>3, JoinedSet
<1>6. 1 .. n = (1 .. i - 1) \cup {i} \cup (i + 1 .. n)
  BY <1>1
<1>7. ToSet(s) = ToSet(a) \cup ToSet(b) \cup {s[i]}
  BY <1>1, <1>2, <1>3, <1>6 DEF ToSet
<1> QED BY <1>4, <1>5, <1>7

LEMMA Listed ==
    ASSUME NEW n \in Nat, NEW s, NEW E, s = [i \in 1 .. n |-> s[i]], \A i \in 1 .. n : s[i] \in E
    PROVE  s \in Seq(E) /\ Len(s) = n /\ DOMAIN s = 1 .. n
<1>1. s \in [1 .. n -> E]
  OBVIOUS
<1> QED BY <1>1, IsASeq, LenProperties

\* The blocks that live take the new forms; nobody is deleted or comes back.
Becomes(c, d, new) ==
    /\ DOMAIN d.blocks = DOMAIN c.blocks
    /\ \A id \in DOMAIN c.blocks :
         /\ d.blocks[id].type = c.blocks[id].type /\ d.blocks[id].alive = c.blocks[id].alive
         /\ id \in DOMAIN new \cap Living(c) => d.blocks[id].f = new[id]
         /\ id \notin DOMAIN new => d.blocks[id].f = c.blocks[id].f

LEMMA CardsStay ==
    ASSUME NEW c, NEW d, NEW new, Becomes(c, d, new)
    PROVE  CardsOf(d) = CardsOf(c) /\ CardsOf(c) \subseteq Living(c) /\ Living(d) = Living(c)
BY DEF Becomes, CardsOf, Alive, Living

LEMMA PatchesDone ==
    ASSUME NEW c, Shaped(c), NEW b, NEW p, NEW u, NEW new, DOMAIN new = DOMAIN p,
           \A id \in DOMAIN p \cap Living(c) : PatchBlock(p[id], c.blocks[id].f) = new[id]
    PROVE  LET d == RedoOf(Command(BoardAndPatches(b, p), u), c)
           IN  d.board = NowBoard(BoardAndPatches(b, p), c) /\ Becomes(c, d, new)
<1> DEFINE e == BoardAndPatches(b, p)
           d == Apply(e, c)
<1>1. e.board = b /\ e.patches = p /\ e.insert = <<>> /\ e.alive = <<>> /\ DOMAIN <<>> = {}
  BY DEF BoardAndPatches
<1>2. RedoOf(Command(e, u), c) = d
  BY DEF RedoOf, Command
<1>3. /\ d.board = NowBoard(e, c) /\ DOMAIN d.blocks = DOMAIN c.blocks
      /\ \A id \in DOMAIN c.blocks : d.blocks[id] = After(e, id, c.blocks[id])
  BY <1>1, ApplyPlain
<1> HIDE DEF e, d
<1>4. ASSUME NEW id \in DOMAIN c.blocks
      PROVE  /\ d.blocks[id].type = c.blocks[id].type /\ d.blocks[id].alive = c.blocks[id].alive
             /\ id \in DOMAIN new \cap Living(c) => d.blocks[id].f = new[id]
             /\ id \notin DOMAIN new => d.blocks[id].f = c.blocks[id].f
  <2> DEFINE x == c.blocks[id]
             f == PatchBlock(p[id], x.f)
  <2>1. x = [type |-> x.type, alive |-> x.alive, f |-> x.f]
    BY DEF Shaped
  <2>2. After(e, id, x) = IF id \in DOMAIN p /\ x.alive THEN [x EXCEPT !.f = f] ELSE x
    BY <1>1 DEF After
  <2>3. id \in DOMAIN new \cap Living(c) => f = new[id] /\ id \in DOMAIN p /\ x.alive
    BY DEF Living
  <2>4. d.blocks[id] = After(e, id, x)
    BY <1>3
  <2> HIDE DEF f, x
  <2>5. CASE id \in DOMAIN p /\ x.alive
    <3>1. d.blocks[id] = [type |-> x.type, alive |-> x.alive, f |-> f]
      BY <2>1, <2>2, <2>4, <2>5
    <3>2. d.blocks[id].type = x.type /\ d.blocks[id].alive = x.alive /\ d.blocks[id].f = f
      BY <3>1
    <3> QED BY <2>3, <2>5, <3>2 DEF x
  <2>6. CASE ~(id \in DOMAIN p /\ x.alive)
    BY <2>2, <2>3, <2>4, <2>6 DEF x
  <2> QED BY <2>5, <2>6
<1> QED BY <1>2, <1>3, <1>4 DEF Becomes, e

LEMMA BoardAndBlocksDone ==
    ASSUME NEW c, Shaped(c), NEW board, NEW new, \A id \in DOMAIN new \cap Living(c) : IsMap(new[id])
    PROVE  LET d == RedoOf(updateBoardAndBlocks(c, board, new), c)
           IN  /\ d.board = PatchBoard(createPatchesFromBoards(board, c.board)[1], c.board)
               /\ Becomes(c, d, new)
<1> DEFINE p == createPatchesFromBoards(board, c.board)
           q == BlockPatches(c, new)
           pb == <<p[1]>>
           qb == <<p[2]>>
           redo == [id \in DOMAIN new |-> q[id][1]]
           undo == [id \in DOMAIN new |-> q[id][2]]
           u == BoardAndPatches(qb, undo)
<1>1. updateBoardAndBlocks(c, board, new) = Command(BoardAndPatches(pb, redo), u)
  <2>1. updateBoardAndBlocks(c, board, new) =
          Command([NoEffect EXCEPT !.board = pb, !.patches = redo], [NoEffect EXCEPT !.board = qb, !.patches = undo])
    BY DEF updateBoardAndBlocks
  <2> HIDE DEF pb, qb, redo, undo
  <2> QED BY <2>1, EffectForms
<1>2. pb # <<>> /\ pb[1] = p[1]
  OBVIOUS
<1>3. DOMAIN redo = DOMAIN new
  OBVIOUS
<1>4. \A id \in DOMAIN redo \cap Living(c) : PatchBlock(redo[id], c.blocks[id].f) = new[id]
  <2> TAKE id \in DOMAIN redo \cap Living(c)
  <2>1. redo[id] = createPatchesFromBlocks(new[id], c.blocks[id].f, CopiedKeys)[1]
    BY DEF BlockPatches
  <2>2. redo[id] = BlockPatch(new[id], c.blocks[id].f, CopiedKeys)
    BY <2>1 DEF createPatchesFromBlocks
  <2> HIDE DEF redo
  <2>3. IsMap(new[id])
    BY <1>3
  <2> QED BY <2>2, <2>3, BlockPatchLeads
<1> HIDE DEF p, q, pb, redo, u
<1> DEFINE d == RedoOf(Command(BoardAndPatches(pb, redo), u), c)
<1>5. d.board = NowBoard(BoardAndPatches(pb, redo), c) /\ Becomes(c, d, new)
  BY <1>3, <1>4, PatchesDone
<1>6. NowBoard(BoardAndPatches(pb, redo), c) = PatchBoard(p[1], c.board)
  BY <1>2 DEF NowBoard, BoardAndPatches
<1> HIDE DEF d
<1> QED BY <1>1, <1>5, <1>6 DEF d, p

LEMMA BoardDone ==
    ASSUME NEW c, Shaped(c), NEW board
    PROVE  LET d == RedoOf(updateBoard(c, board), c)
           IN  /\ d.board = PatchBoard(createPatchesFromBoards(board, c.board)[1], c.board)
               /\ Becomes(c, d, <<>>)
<1> DEFINE p == createPatchesFromBoards(board, c.board)
           pb == <<p[1]>>
           qb == <<p[2]>>
           u == BoardAndPatches(qb, <<>>)
           none == <<>>
<1>1. updateBoard(c, board) = Command(BoardAndPatches(pb, none), u)
  <2>1. updateBoard(c, board) = Command([NoEffect EXCEPT !.board = pb], [NoEffect EXCEPT !.board = qb])
    BY DEF updateBoard
  <2> HIDE DEF pb, qb
  <2> QED BY <2>1, EffectForms
<1>2. pb # <<>> /\ pb[1] = p[1] /\ DOMAIN none = {}
  OBVIOUS
<1> HIDE DEF p, pb, u, none
<1> DEFINE d == RedoOf(Command(BoardAndPatches(pb, none), u), c)
<1>5. d.board = NowBoard(BoardAndPatches(pb, none), c) /\ Becomes(c, d, none)
  BY <1>2, PatchesDone
<1>6. NowBoard(BoardAndPatches(pb, none), c) = PatchBoard(p[1], c.board)
  BY <1>2 DEF NowBoard, BoardAndPatches
<1> HIDE DEF d
<1> QED BY <1>1, <1>5, <1>6 DEF d, p, none

LEMMA BlockDone ==
    ASSUME NEW c, Shaped(c), NEW id \in DOMAIN c.blocks, NEW new, IsMap(new)
    PROVE  LET d == RedoOf(updateBlock(c, id, new), c)
           IN  d.board = c.board /\ Becomes(c, d, Only(id, new))
<1> DEFINE f == c.blocks[id].f
           patches == createPatchesFromBlocks(new, f, CopiedKeys)
           p == Only(id, patches[1])
           q == Only(id, patches[2])
           u == BoardAndPatches(<<>>, q)
           none == <<>>
           all == Only(id, new)
<1>1. updateBlock(c, id, new) = Command(BoardAndPatches(none, p), u)
  <2>1. updateBlock(c, id, new) = Command([NoEffect EXCEPT !.patches = p], [NoEffect EXCEPT !.patches = q])
    BY DEF updateBlock
  <2> HIDE DEF p, q
  <2> QED BY <2>1, EffectForms
<1>2. DOMAIN p = {id} /\ p[id] = patches[1] /\ DOMAIN all = {id} /\ all[id] = new
  BY OnlyIs
<1>3. PatchBlock(patches[1], f) = new
  BY BlockPatchLeads DEF createPatchesFromBlocks
<1> HIDE DEF p, u, patches, all
<1>4. \A i \in DOMAIN p \cap Living(c) : PatchBlock(p[i], c.blocks[i].f) = all[i]
  BY <1>2, <1>3
<1> HIDE DEF f, none
<1> DEFINE d == RedoOf(Command(BoardAndPatches(none, p), u), c)
<1>5. d.board = NowBoard(BoardAndPatches(none, p), c) /\ Becomes(c, d, all)
  BY <1>2, <1>4, PatchesDone
<1>6. NowBoard(BoardAndPatches(none, p), c) = c.board
  BY DEF NowBoard, BoardAndPatches, none
<1> HIDE DEF d
<1> QED BY <1>1, <1>5, <1>6 DEF d, all

LEMMA FieldsDone ==
    ASSUME NEW c, Shaped(c), NEW id \in DOMAIN c.blocks, NEW new, NEW old
    PROVE  LET d == RedoOf(PatchFields(id, new, old), c)
           IN  d.board = c.board /\ Becomes(c, d, Only(id, Over(c.blocks[id].f, new)))
<1> DEFINE f == c.blocks[id].f
           part == [updatedFields |-> new, deletedFields |-> {}]
           back == [updatedFields |-> old, deletedFields |-> {}]
           p == Only(id, part)
           q == Only(id, back)
           u == BoardAndPatches(<<>>, q)
           none == <<>>
           all == Only(id, Over(f, new))
<1>1. PatchFields(id, new, old) = Command(BoardAndPatches(none, p), u)
  <2>1. PatchFields(id, new, old) = Command([NoEffect EXCEPT !.patches = p], [NoEffect EXCEPT !.patches = q])
    BY DEF PatchFields
  <2> HIDE DEF p, q
  <2> QED BY <2>1, EffectForms
<1>2. DOMAIN p = {id} /\ p[id] = part /\ DOMAIN all = {id} /\ all[id] = Over(f, new)
  BY OnlyIs
<1>3. PatchBlock(part, f) = Over(f, new)
  <2>1. IsMap(Over(f, new)) /\ part.updatedFields = new /\ part.deletedFields = {}
    BY OverMap
  <2> HIDE DEF part
  <2> QED BY <2>1, WithoutNothing DEF PatchBlock
<1> HIDE DEF p, u, part, all
<1>4. \A i \in DOMAIN p \cap Living(c) : PatchBlock(p[i], c.blocks[i].f) = all[i]
  BY <1>2, <1>3
<1> HIDE DEF f, none
<1> DEFINE d == RedoOf(Command(BoardAndPatches(none, p), u), c)
<1>5. d.board = NowBoard(BoardAndPatches(none, p), c) /\ Becomes(c, d, all)
  BY <1>2, <1>4, PatchesDone
<1>6. NowBoard(BoardAndPatches(none, p), c) = c.board
  BY DEF NowBoard, BoardAndPatches, none
<1> HIDE DEF d
<1> QED BY <1>1, <1>5, <1>6 DEF d, all, f

-----------------------------------------------------------------------------
(* What commands keep true of the cards.                                   *)

\* Contents that look the same have the same board and the same living blocks.
LEMMA SameSight ==
    ASSUME NEW c, NEW d, VisibleIn(c) = VisibleIn(d), Shaped(c), Shaped(d)
    PROVE  /\ c.board = d.board /\ CardsOf(c) = CardsOf(d) /\ Living(c) = Living(d)
           /\ \A id \in Living(c) : c.blocks[id] = d.blocks[id]
<1> DEFINE x == [id \in Living(c) |-> c.blocks[id]]
           y == [id \in Living(d) |-> d.blocks[id]]
<1>1. VisibleIn(c) = [board |-> c.board, blocks |-> x, members |-> c.members, follows |-> c.follows]
  BY DEF VisibleIn, Shaped, Living
<1>2. VisibleIn(d) = [board |-> d.board, blocks |-> y, members |-> d.members, follows |-> d.follows]
  BY DEF VisibleIn, Shaped, Living
<1> HIDE DEF x, y
<1>3. c.board = d.board /\ x = y
  <2>1. VisibleIn(c).board = c.board /\ VisibleIn(c).blocks = x
    BY <1>1
  <2>2. VisibleIn(d).board = d.board /\ VisibleIn(d).blocks = y
    BY <1>2
  <2> QED BY <2>1, <2>2
<1> USE DEF x, y
<1>4. Living(c) = Living(d)
  <2>1. DOMAIN [id \in Living(c) |-> c.blocks[id]] = Living(c) /\ DOMAIN [id \in Living(d) |-> d.blocks[id]] = Living(d)
    OBVIOUS
  <2> QED BY <1>3, <2>1
<1>5. \A id \in Living(c) : c.blocks[id] = d.blocks[id]
  <2> TAKE id \in Living(c)
  <2>1. [i \in Living(c) |-> c.blocks[i]][id] = c.blocks[id] /\ [i \in Living(d) |-> d.blocks[i]][id] = d.blocks[id]
    BY <1>4
  <2> QED BY <1>3, <2>1
<1>6. CardsOf(c) = {id \in Living(c) : c.blocks[id].type = "card"} /\ CardsOf(d) = {id \in Living(d) : d.blocks[id].type = "card"}
  BY DEF CardsOf, Alive, Living
<1> QED BY <1>3, <1>4, <1>5, <1>6

\* A session of commands that can be undone keeps what each of them keeps.
LEMMA CommandsKeep ==
    ASSUME Closed, MutatorSession, NEW Good, Initial \subseteq Good,
           \A c, d \in Contents : VisibleIn(c) = VisibleIn(d) /\ c \in Good => d \in Good,
           \A c \in Contents : \A k \in Offered(c) : Undoable(k, c),
           \A c \in Contents \cap Good : \A k \in Offered(c) : RedoOf(k, c) \in Good
    PROVE  Spec => [](alone => content \in Good)
<1>1. \A c \in Contents : \A k \in Offered(c) : Redo(k, c) = RedoOf(k, c)
  BY DEF Closed, MutatorSession
<1>2. Keeps(Good)
  BY <1>1 DEF Keeps, MutatorSession
<1> QED BY <1>2, SessionReverts, SessionsKeep

\* No two properties of the board have the same id.
OneOfEach(c) ==
    \A t, u \in ToSet(Templates(c)) : t.id = u.id => t = u

\* The values of every property of a card are a list.
ValuesListed(c, Values) ==
    \A id \in CardsOf(c) :
      /\ "properties" \in DOMAIN c.blocks[id].f
      /\ \A p \in DOMAIN c.blocks[id].f.properties : c.blocks[id].f.properties[p] \in Seq(Values)

\* The user gives a card a value.  Departments are offered of the divisions
\* the card has (orgMaster, the property's editor).
GivesValue(k, c, Values) ==
    \E id \in CardsOf(c), value \in Seq(Values), p \in Ids(Templates(c)) :
      /\ k = changePropertyValue(c, id, p, value)
      /\ p \in OfType(c, "orgDepartment") \ OfType(c, "orgDivision") =>
           ToSet(value) \subseteq allowedDepartments(
             selectedUnitIds(c, c.blocks[id].f.properties, "orgDivision"))

\* The command leaves the properties of the board as they are, and makes no
\* card and changes none in what it holds of them.
LeavesValues(k, c) ==
    LET d == RedoOf(k, c)
    IN  /\ Templates(d) = Templates(c)
        /\ \A id \in CardsOf(d) :
             id \in CardsOf(c) /\ d.blocks[id].f.properties = c.blocks[id].f.properties

LEMMA LeftInRange ==
    ASSUME NEW c, NEW d, AllInRange(c), Templates(d) = Templates(c),
           \A id \in CardsOf(d) :
             id \in CardsOf(c) /\ d.blocks[id].f.properties = c.blocks[id].f.properties
    PROVE  AllInRange(d)
<1>1. \A properties, type : selectedUnitIds(d, properties, type) = selectedUnitIds(c, properties, type)
  BY DEF selectedUnitIds, OfType, Templates
<1> QED BY <1>1 DEF AllInRange, InRange

LEMMA SelectedIs ==
    ASSUME NEW c, NEW f, NEW type, NEW v
    PROVE  v \in selectedUnitIds(c, f, type) <=> \E q \in OfType(c, type) \cap DOMAIN f : v \in ToSet(f[q])
BY DEF selectedUnitIds

LEMMA AllowedIs ==
    ASSUME NEW v, NEW S
    PROVE  v \in allowedDepartments(S) <=> v \in DOMAIN DivisionOf /\ (S = {} \/ DivisionOf[v] \in S)
BY DEF allowedDepartments

LEMMA OneType ==
    ASSUME NEW c, OneOfEach(c)
    PROVE  OfType(c, "orgDivision") \cap OfType(c, "orgDepartment") = {}
<1> SUFFICES ASSUME NEW q \in OfType(c, "orgDivision") \cap OfType(c, "orgDepartment") PROVE FALSE
  OBVIOUS
<1>1. PICK t \in ToSet(Templates(c)) : t.type = "orgDivision" /\ t.id = q
  BY DEF OfType, Templates
<1>2. PICK u \in ToSet(Templates(c)) : u.type = "orgDepartment" /\ u.id = q
  BY DEF OfType, Templates
<1> QED BY <1>1, <1>2 DEF OneOfEach

\* What becomes of the values of one card.
LEMMA ValueInRange ==
    ASSUME NEW c, NEW Values, NEW old, NEW value \in Seq(Values), NEW p, NEW new,
           \A q \in DOMAIN old : old[q] \in Seq(Values),
           InRange(c, old), OneOfEach(c),
           p \in OfType(c, "orgDepartment") \ OfType(c, "orgDivision") =>
             ToSet(value) \subseteq allowedDepartments(selectedUnitIds(c, old, "orgDivision")),
           new = IF value = <<>> THEN Without(old, {p}) ELSE Over(old, Only(p, value))
    PROVE  InRange(c, dropOutOfRangeDepartments(c, new, p))
<1> DEFINE Div == OfType(c, "orgDivision")
           Dep == OfType(c, "orgDepartment")
           was == selectedUnitIds(c, old, "orgDivision")
           had == selectedUnitIds(c, old, "orgDepartment")
           divisions == selectedUnitIds(c, new, "orgDivision")
           allowed == allowedDepartments(divisions)
           dropped == [q \in DOMAIN new |-> IF q \in Dep THEN Filtered(new[q], allowed) ELSE new[q]]
<1>1. Div \cap Dep = {}
  BY OneType
<1>2. /\ \A q \in DOMAIN new \ {p} : q \in DOMAIN old /\ new[q] = old[q]
      /\ \A q \in DOMAIN old \ {p} : q \in DOMAIN new
      /\ p \in DOMAIN new => new[p] = value
  <2>1. CASE value = <<>>
    BY <2>1 DEF Without
  <2>2. CASE value # <<>>
    BY <2>2 DEF Over, Only
  <2> QED BY <2>1, <2>2
<1>3. \A q \in DOMAIN new : new[q] \in Seq(Values)
  BY <1>2
<1>4. had \subseteq allowedDepartments(was)
  BY DEF InRange
<1>5. dropOutOfRangeDepartments(c, new, p) = IF p \in Div /\ divisions # {} /\ DOMAIN DivisionOf # {} THEN dropped ELSE new
  BY DEF dropOutOfRangeDepartments
<1>6. p \in Dep \ Div => ToSet(value) \subseteq allowedDepartments(was)
  OBVIOUS
<1>7. /\ \A v : v \in was <=> \E q \in Div \cap DOMAIN old : v \in ToSet(old[q])
      /\ \A v : v \in had <=> \E q \in Dep \cap DOMAIN old : v \in ToSet(old[q])
      /\ \A v : v \in divisions <=> \E q \in Div \cap DOMAIN new : v \in ToSet(new[q])
      /\ \A v : v \in selectedUnitIds(c, new, "orgDepartment") <=> \E q \in Dep \cap DOMAIN new : v \in ToSet(new[q])
  BY SelectedIs
<1>8. CASE p \in Div /\ divisions # {} /\ DOMAIN DivisionOf # {}
  <2>1. /\ DOMAIN dropped = DOMAIN new
        /\ \A q \in DOMAIN new \cap Dep : dropped[q] = Filtered(new[q], allowed)
        /\ \A q \in DOMAIN new \ Dep : dropped[q] = new[q]
    OBVIOUS
  <2>2. \A q \in DOMAIN new : ToSet(Filtered(new[q], allowed)) = ToSet(new[q]) \cap allowed
    <3> TAKE q \in DOMAIN new
    <3>1. new[q] \in Seq(Values)
      BY <1>3
    <3> HIDE DEF allowed
    <3> QED BY <3>1, FilteredSet
  <2>3. dropOutOfRangeDepartments(c, new, p) = dropped
    BY <1>5, <1>8
  <2>4. /\ \A v : v \in selectedUnitIds(c, dropped, "orgDivision") <=> \E q \in Div \cap DOMAIN dropped : v \in ToSet(dropped[q])
        /\ \A v : v \in selectedUnitIds(c, dropped, "orgDepartment") <=> \E q \in Dep \cap DOMAIN dropped : v \in ToSet(dropped[q])
    BY SelectedIs
  <2> HIDE DEF dropped, Div, Dep, divisions, allowed
  <2>5. selectedUnitIds(c, dropped, "orgDepartment") \subseteq allowed
    <3> SUFFICES ASSUME NEW v \in selectedUnitIds(c, dropped, "orgDepartment") PROVE v \in allowed
      OBVIOUS
    <3>1. PICK q \in Dep \cap DOMAIN dropped : v \in ToSet(dropped[q])
      BY <2>4
    <3>2. q \in DOMAIN new \cap Dep
      BY <2>1, <3>1
    <3>3. dropped[q] = Filtered(new[q], allowed)
      BY <2>1, <3>2
    <3>4. ToSet(Filtered(new[q], allowed)) = ToSet(new[q]) \cap allowed
      BY <2>2, <3>2
    <3> QED BY ONLY <3>1, <3>3, <3>4
  <2>6. selectedUnitIds(c, dropped, "orgDivision") = divisions
    <3>1. \A q \in Div \cap DOMAIN new : dropped[q] = new[q]
      BY <1>1, <2>1
    <3>2. DOMAIN dropped = DOMAIN new
      BY <2>1
    <3>3. \A v : v \in selectedUnitIds(c, dropped, "orgDivision") <=> v \in divisions
      BY ONLY <1>7, <2>4, <3>1, <3>2
    <3> QED BY ONLY <3>3
  <2> QED BY <2>3, <2>5, <2>6 DEF InRange, allowed
<1>9. CASE ~(p \in Div /\ divisions # {} /\ DOMAIN DivisionOf # {})
  <2>1. dropOutOfRangeDepartments(c, new, p) = new
    BY <1>5, <1>9
  <2> HIDE DEF Div, Dep, divisions, was, had
  <2>2. ASSUME p \notin Div PROVE divisions = was
    <3>1. \A q \in Div : (q \in DOMAIN new <=> q \in DOMAIN old) /\ (q \in DOMAIN new => new[q] = old[q])
      BY <1>2, <2>2
    <3>2. \A v : v \in divisions <=> v \in was
      BY ONLY <1>7, <3>1
    <3> QED BY ONLY <3>2
  <2>3. ASSUME p \notin Dep PROVE selectedUnitIds(c, new, "orgDepartment") = had
    <3>1. \A q \in Dep : (q \in DOMAIN new <=> q \in DOMAIN old) /\ (q \in DOMAIN new => new[q] = old[q])
      BY <1>2, <2>3
    <3>2. \A v : v \in selectedUnitIds(c, new, "orgDepartment") <=> v \in had
      BY ONLY <1>7, <3>1
    <3> QED BY ONLY <3>2
  <2>4. \A v \in selectedUnitIds(c, new, "orgDepartment") : v \in had \cup ToSet(value)
    <3> TAKE v \in selectedUnitIds(c, new, "orgDepartment")
    <3>1. PICK q \in Dep \cap DOMAIN new : v \in ToSet(new[q])
      BY <1>7
    <3> QED BY <1>2, <1>7, <3>1
  <2>5. selectedUnitIds(c, new, "orgDepartment") \subseteq allowedDepartments(divisions)
    <3>1. CASE p \notin Div
      <4>1. selectedUnitIds(c, new, "orgDepartment") \subseteq allowedDepartments(was)
        BY <1>4, <1>6, <2>3, <2>4, <3>1
      <4> QED BY <2>2, <3>1, <4>1
    <3>2. CASE p \in Div
      <4>1. selectedUnitIds(c, new, "orgDepartment") \subseteq allowedDepartments(was)
        BY <1>1, <1>4, <2>3, <3>2
      <4>2. divisions = {} \/ DOMAIN DivisionOf = {}
        BY <1>9, <3>2
      <4>3. allowedDepartments(was) \subseteq allowedDepartments(divisions)
        BY <4>2, AllowedIs
      <4> QED BY <4>1, <4>3
    <3> QED BY <3>1, <3>2
  <2> QED BY <2>1, <2>5 DEF InRange, divisions
<1> QED BY <1>8, <1>9

LEMMA ValueKeepsRange ==
    ASSUME NEW c, NEW Values, NEW k, Shaped(c), OneOfEach(c), ValuesListed(c, Values),
           GivesValue(k, c, Values), AllInRange(c)
    PROVE  Undoable(k, c) /\ AllInRange(RedoOf(k, c))
<1>1. PICK id \in CardsOf(c), value \in Seq(Values), p \in Ids(Templates(c)) :
        /\ k = changePropertyValue(c, id, p, value)
        /\ p \in OfType(c, "orgDepartment") \ OfType(c, "orgDivision") =>
             ToSet(value) \subseteq allowedDepartments(
               selectedUnitIds(c, c.blocks[id].f.properties, "orgDivision"))
  BY DEF GivesValue
<1> DEFINE f == c.blocks[id].f
           old == f.properties
           set == IF value = <<>> THEN Without(old, {p}) ELSE Over(old, Only(p, value))
           now == dropOutOfRangeDepartments(c, set, p)
           new == [f EXCEPT !.properties = now]
           d == RedoOf(k, c)
           one == Only(id, new)
<1>2. k = updateBlock(c, id, new) /\ IsMap(new) /\ id \in DOMAIN c.blocks /\ id \in Living(c)
  BY <1>1 DEF changePropertyValue, IsMap, CardsOf, Alive, Living
<1>3. InRange(c, now)
  <2>1. InRange(c, old) /\ \A q \in DOMAIN old : old[q] \in Seq(Values)
    BY DEF ValuesListed, AllInRange
  <2>2. p \in OfType(c, "orgDepartment") \ OfType(c, "orgDivision") =>
          ToSet(value) \subseteq allowedDepartments(selectedUnitIds(c, old, "orgDivision"))
    BY <1>1
  <2>3. \A x : x = set => InRange(c, dropOutOfRangeDepartments(c, x, p))
    <3> HIDE DEF old
    <3> QED BY <2>1, <2>2, ValueInRange
  <2> HIDE DEF set
  <2> QED BY <2>3
<1> HIDE DEF now
<1>4. new.properties = now
  <2>1. "properties" \in DOMAIN f
    BY DEF ValuesListed
  <2> QED BY <2>1
<1>5. DOMAIN one = {id} /\ one[id] = new
  BY OnlyIs
<1> HIDE DEF new, one
<1>6. d.board = c.board /\ Becomes(c, d, one)
  BY <1>2, BlockDone DEF one
<1> HIDE DEF d
<1>7. CardsOf(d) = CardsOf(c) /\ CardsOf(c) \subseteq Living(c)
  BY <1>6, CardsStay
<1>8. \A properties, type : selectedUnitIds(d, properties, type) = selectedUnitIds(c, properties, type)
  BY <1>6 DEF selectedUnitIds, OfType
<1>9. ASSUME NEW i \in CardsOf(c) PROVE InRange(c, d.blocks[i].f.properties)
  <2>1. CASE i = id
    <3>1. d.blocks[i].f = new
      BY <1>2, <1>5, <1>6, <2>1 DEF Becomes
    <3> QED BY <1>3, <1>4, <3>1 DEF new
  <2>2. CASE i # id
    BY <1>5, <1>6, <1>7, <2>2 DEF AllInRange, Becomes, Living
  <2> QED BY <2>1, <2>2
<1>10. AllInRange(d)
  BY <1>7, <1>8, <1>9 DEF AllInRange, InRange
<1> QED BY <1>1, <1>2, <1>10, ValueCommandUndoable DEF d

\* A card names only departments of its own divisions, through every undo and
\* redo of commands that set a value and of commands that leave the values
\* alone, of any organisation, with any number of division and department
\* properties on the board (mutator.ts:917).
THEOREM DepartmentsInRangeHolds ==
    ASSUME Closed, MutatorSession, NEW Values,
           \A c \in Contents : OneOfEach(c) /\ ValuesListed(c, Values),
           \A c \in Initial : AllInRange(c),
           \A c \in Contents : \A k \in Offered(c) :
             GivesValue(k, c, Values) \/ (Undoable(k, c) /\ LeavesValues(k, c))
    PROVE  Spec => []DepartmentsInRange
<1> SUFFICES ASSUME NEW Good, Good = {c \in Contents : AllInRange(c)}
             PROVE  Spec => []DepartmentsInRange
  OBVIOUS
<1>1. Initial \subseteq Good
  BY DEF Closed
<1>2. ASSUME NEW c \in Contents, NEW d \in Contents, VisibleIn(c) = VisibleIn(d), c \in Good
      PROVE  d \in Good
  <2>1. Shaped(c) /\ Shaped(d) /\ AllInRange(c)
    BY <1>2 DEF MutatorSession
  <2>2. /\ c.board = d.board /\ CardsOf(c) = CardsOf(d) /\ Living(c) = Living(d)
        /\ \A id \in Living(c) : c.blocks[id] = d.blocks[id]
    BY <1>2, <2>1, SameSight
  <2>3. \A id \in CardsOf(d) : id \in CardsOf(c) /\ d.blocks[id].f.properties = c.blocks[id].f.properties
    BY <2>2 DEF CardsOf, Alive, Living
  <2>4. AllInRange(d)
    BY <2>1, <2>2, <2>3, LeftInRange DEF Templates
  <2> QED BY <2>4
<1>3. ASSUME NEW c \in Contents, NEW k \in Offered(c) PROVE Undoable(k, c)
  <2>1. CASE GivesValue(k, c, Values)
    <3>1. PICK id \in CardsOf(c), value \in Seq(Values), p \in Ids(Templates(c)) :
            k = changePropertyValue(c, id, p, value)
      BY <2>1 DEF GivesValue
    <3>2. id \in DOMAIN c.blocks /\ Shaped(c)
      BY DEF CardsOf, Alive, MutatorSession
    <3> QED BY <3>1, <3>2, ValueCommandUndoable
  <2> QED BY <2>1
<1>4. ASSUME NEW c \in Contents \cap Good, NEW k \in Offered(c) PROVE RedoOf(k, c) \in Good
  <2>1. Shaped(c) /\ AllInRange(c) /\ OneOfEach(c) /\ ValuesListed(c, Values)
    BY DEF MutatorSession
  <2>2. AllInRange(RedoOf(k, c))
    <3>1. CASE GivesValue(k, c, Values)
      BY <2>1, <3>1, ValueKeepsRange
    <3>2. CASE LeavesValues(k, c)
      BY <2>1, <3>2, LeftInRange DEF LeavesValues
    <3> QED BY <3>1, <3>2
  <2>3. RedoOf(k, c) \in Contents
    BY DEF Closed, MutatorSession
  <2> QED BY <2>2, <2>3
<1>5. Spec => [](alone => content \in Good)
  <2>1. \A c, d \in Contents : VisibleIn(c) = VisibleIn(d) /\ c \in Good => d \in Good
    BY <1>2
  <2>2. \A c \in Contents : \A k \in Offered(c) : Undoable(k, c)
    BY <1>3
  <2>3. \A c \in Contents \cap Good : \A k \in Offered(c) : RedoOf(k, c) \in Good
    BY <1>4
  <2> QED BY <1>1, <2>1, <2>2, <2>3, CommandsKeep
<1>6. (alone => content \in Good) => DepartmentsInRange
  BY DEF DepartmentsInRange
<1> QED BY <1>5, <1>6, PTL

-----------------------------------------------------------------------------
(* The templates after a patch.                                            *)

LEMMA IdsAre ==
    ASSUME NEW s, NEW v
    PROVE  v \in Ids(s) <=> \E t \in ToSet(s) : t.id = v
BY DEF Ids, ToSet

LEMMA SameSetIds ==
    ASSUME NEW s, NEW t, ToSet(s) = ToSet(t)
    PROVE  Ids(s) = Ids(t)
<1>1. \A v : v \in Ids(s) <=> v \in Ids(t)
  BY IdsAre
<1> QED BY <1>1

LEMMA NothingEmpty == Ids(<<>>) = {} /\ ToSet(<<>>) = {}
<1>1. DOMAIN <<>> = {}
  OBVIOUS
<1> QED BY <1>1 DEF Ids, ToSet

LEMMA StoredIs ==
    ASSUME NEW t
    PROVE  Stored(t).id = t.id /\ Stored(t).type = t.type /\ Stored(t).options = t.options
BY DEF Stored

LEMMA NothingIn ==
    ASSUME NEW E, NEW s \in Seq(E), ToSet(s) = {}
    PROVE  s = <<>>
<1>1. Len(s) \in Nat /\ DOMAIN s = 1 .. Len(s)
  BY LenProperties
<1>2. DOMAIN s = {}
  BY DEF ToSet
<1>3. Len(s) = 0
  BY <1>1, <1>2
<1> QED BY <1>3, EmptySeq

LEMMA SameIdLists ==
    ASSUME NEW s, NEW t, IdList(s) = IdList(t)
    PROVE  DOMAIN s = DOMAIN t /\ Ids(s) = Ids(t)
<1>1. DOMAIN IdList(s) = DOMAIN s /\ DOMAIN IdList(t) = DOMAIN t
  BY DEF IdList
<1>2. DOMAIN s = DOMAIN t
  BY <1>1
<1>3. \A i \in DOMAIN s : s[i].id = t[i].id
  <2> TAKE i \in DOMAIN s
  <2>1. IdList(s)[i] = s[i].id /\ IdList(t)[i] = t[i].id
    BY <1>2 DEF IdList
  <2> QED BY <2>1
<1> QED BY <1>2, <1>3 DEF Ids

LEMMA WiderSeq ==
    ASSUME NEW E, NEW s \in Seq(E), NEW G, E \subseteq G
    PROVE  s \in Seq(G)
<1>1. Len(s) \in Nat /\ s = [i \in 1 .. Len(s) |-> s[i]] /\ \A i \in 1 .. Len(s) : s[i] \in G
  BY LenProperties, ElementOfSeq
<1> QED BY <1>1, Listed

\* What is sent of a list is what JSON carries of its templates.
Sent(s) == [i \in DOMAIN s |-> Stored(s[i])]

LEMMA SentList ==
    ASSUME NEW E, NEW s \in Seq(E)
    PROVE  /\ Sent(s) \in Seq({Stored(x) : x \in E})
           /\ \A x : x \in ToSet(Sent(s)) <=> \E t \in ToSet(s) : x = Stored(t)
           /\ Ids(Sent(s)) = Ids(s)
<1>1. Len(s) \in Nat /\ DOMAIN s = 1 .. Len(s) /\ \A i \in 1 .. Len(s) : s[i] \in E
  BY LenProperties, ElementOfSeq
<1> DEFINE u == Sent(s)
           n == Len(s)
<1>2. DOMAIN u = DOMAIN s /\ \A i \in DOMAIN s : u[i] = Stored(s[i])
  BY DEF Sent
<1>3. u = [i \in 1 .. n |-> u[i]]
  BY <1>1 DEF Sent
<1> HIDE DEF u, n
<1>4. u \in Seq({Stored(x) : x \in E})
  BY <1>1, <1>2, <1>3, Listed DEF n
<1>5. \A x : x \in ToSet(u) <=> \E t \in ToSet(s) : x = Stored(t)
  BY <1>2 DEF ToSet
<1>6. Ids(u) = Ids(s)
  BY <1>2, StoredIs DEF Ids
<1> QED BY <1>4, <1>5, <1>6 DEF u

\* When the list of ids stays, each template is the one that was there or one
\* that was sent, and one that was sent is not the one that was there.
LEMMA SameIdsPatched ==
    ASSUME NEW E, NEW to \in Seq(E), NEW from \in Seq(E), IdList(to) = IdList(from)
    PROVE  LET r == PatchCardProperties(CardPropertiesPatch(to, from), from)
               sent == Sent(Differing(to, from))
           IN  /\ Ids(r) = Ids(from)
               /\ \A x \in ToSet(r) : x \in ToSet(sent) \/ (x \in ToSet(from) /\ x.id \notin Ids(sent))
<1> DEFINE patch == CardPropertiesPatch(to, from)
           diff == Differing(to, from)
           sent == Sent(diff)
           F == {Stored(x) : x \in E}
           Now(t) == IF t.id \in Ids(sent) THEN Template(sent, t.id) ELSE t
           kept == Filtered(from, {t \in ToSet(from) : t.id \notin patch.deleted})
           added == Filtered(sent, {t \in ToSet(sent) : t.id \notin Ids(kept)})
           now == [i \in DOMAIN kept |-> Now(kept[i])]
           n == Len(kept)
<1>1. Ids(to) = Ids(from)
  BY SameIdLists
<1>2. patch.indexed = FALSE /\ patch.updated = diff /\ patch.deleted = {}
  BY <1>1 DEF CardPropertiesPatch
<1>3. diff \in Seq(E) /\ ToSet(diff) \subseteq ToSet(to)
  BY FilteredSet DEF Differing
<1>4. PatchCardProperties(patch, from) = now \o added
  <2> HIDE DEF patch
  <2>1. [i \in DOMAIN patch.updated |-> Stored(patch.updated[i])] = sent
    BY <1>2 DEF Sent
  <2> QED BY <1>2, <2>1 DEF PatchCardProperties
<1> HIDE DEF patch, diff
<1>5. sent \in Seq(F) /\ Ids(sent) = Ids(diff)
  BY <1>3, SentList
<1>6. Ids(sent) \subseteq Ids(from)
  BY <1>1, <1>3, <1>5, IdsAre
<1>7. kept \in Seq(E) /\ ToSet(kept) = ToSet(from)
  <2> DEFINE S == {t \in ToSet(from) : t.id \notin patch.deleted}
  <2>1. S = ToSet(from)
    BY <1>2
  <2>2. Filtered(from, S) \in Seq(E) /\ ToSet(Filtered(from, S)) = ToSet(from) \cap S
    BY FilteredSet
  <2> QED BY <2>1, <2>2
<1> HIDE DEF sent, kept, F
<1>8. Ids(kept) = Ids(from)
  BY <1>7, SameSetIds
<1>9. added \in Seq(F) /\ ToSet(added) = {}
  <2> DEFINE S == {t \in ToSet(sent) : t.id \notin Ids(kept)}
  <2>1. S = {}
    BY <1>6, <1>8, IdsAre
  <2>2. Filtered(sent, S) \in Seq(F) /\ ToSet(Filtered(sent, S)) = ToSet(sent) \cap S
    BY <1>5, FilteredSet
  <2> QED BY <2>1, <2>2
<1> HIDE DEF added
<1>10. ASSUME NEW t
       PROVE  /\ Now(t).id = t.id
              /\ Now(t) \in ToSet(sent) \/ (Now(t) = t /\ t.id \notin Ids(sent))
  <2>1. CASE t.id \in Ids(sent)
    <3>1. \E x \in ToSet(sent) : x.id = t.id
      BY <2>1, IdsAre
    <3>2. Template(sent, t.id) \in ToSet(sent) /\ Template(sent, t.id).id = t.id
      BY <3>1 DEF Template
    <3> QED BY <2>1, <3>2
  <2> QED BY <2>1
<1> HIDE DEF Now
<1>11. n \in Nat /\ DOMAIN kept = 1 .. n /\ \A i \in 1 .. n : kept[i] \in E
  BY <1>7, LenProperties, ElementOfSeq
<1>12. ToSet(sent) \subseteq F
  BY <1>5, LenProperties, ElementOfSeq DEF ToSet
<1>13. DOMAIN now = DOMAIN kept /\ \A i \in DOMAIN kept : now[i] = Now(kept[i])
  OBVIOUS
<1>14. now = [i \in 1 .. n |-> now[i]]
  BY <1>11
<1> HIDE DEF now, n
<1>15. \A i \in 1 .. n : now[i] \in E \cup F
  BY <1>10, <1>11, <1>12, <1>13
<1>16. now \in Seq(E \cup F)
  BY <1>11, <1>14, <1>15, Listed
<1>17. added \in Seq(E \cup F)
  <2>1. added = <<>>
    BY <1>9, NothingIn
  <2> QED BY <2>1
<1>18. ToSet(now \o added) = ToSet(now)
  <2>1. ToSet(now \o added) = ToSet(now) \cup ToSet(added)
    BY <1>16, <1>17, JoinedSet
  <2> QED BY <1>9, <2>1
<1>19. Ids(now \o added) = Ids(from)
  <2>1. Ids(now) = Ids(kept)
    BY <1>10, <1>13 DEF Ids
  <2>2. Ids(now \o added) = Ids(now)
    BY <1>18, SameSetIds
  <2> QED BY <1>8, <2>1, <2>2
<1>20. ASSUME NEW x \in ToSet(now)
       PROVE  x \in ToSet(sent) \/ (x \in ToSet(from) /\ x.id \notin Ids(sent))
  <2>1. PICK i \in DOMAIN kept : x = Now(kept[i])
    BY <1>13 DEF ToSet
  <2>2. kept[i] \in ToSet(from)
    BY <1>7 DEF ToSet
  <2> QED BY <1>10, <2>1, <2>2
<1> QED BY <1>4, <1>18, <1>19, <1>20 DEF patch, sent, diff

LEMMA OtherIdsPatched ==
    ASSUME NEW E, NEW to \in Seq(E), NEW from \in Seq(E), IdList(to) # IdList(from)
    PROVE  Ids(PatchCardProperties(CardPropertiesPatch(to, from), from)) = Ids(to)
<1> DEFINE patch == CardPropertiesPatch(to, from)
           sent == Sent(to)
           kept == Filtered(from, {t \in ToSet(from) : t.id \notin patch.deleted})
           added == Filtered(sent, {t \in ToSet(sent) : t.id \notin Ids(kept)})
<1>1. patch.indexed = TRUE /\ patch.updated = to /\ patch.deleted = Ids(from) \ Ids(to)
  BY DEF CardPropertiesPatch
<1>2. sent \in Seq({Stored(x) : x \in E}) /\ Ids(sent) = Ids(to)
  BY SentList
<1>3. [i \in DOMAIN patch.updated |-> Stored(patch.updated[i])] = sent
  BY <1>1 DEF Sent
<1> HIDE DEF patch, sent
<1>4. CASE sent # <<>>
  <2>1. PatchCardProperties(patch, from) = sent
    BY <1>1, <1>3, <1>4 DEF PatchCardProperties
  <2> QED BY <1>2, <2>1 DEF patch
<1>5. CASE sent = <<>>
  <2> DEFINE Now(t) == IF t.id \in Ids(sent) THEN Template(sent, t.id) ELSE t
             now == [i \in DOMAIN kept |-> Now(kept[i])]
  <2>1. PatchCardProperties(patch, from) = now \o added
    BY <1>3, <1>5 DEF PatchCardProperties
  <2>2. Ids(to) = {} /\ ToSet(sent) = {}
    BY <1>2, <1>5, NothingEmpty
  <2>3. kept \in Seq(E) /\ ToSet(kept) = {}
    <3> DEFINE S == {t \in ToSet(from) : t.id \notin patch.deleted}
    <3>1. S = {}
      BY <1>1, <2>2, IdsAre
    <3>2. Filtered(from, S) \in Seq(E) /\ ToSet(Filtered(from, S)) = ToSet(from) \cap S
      BY FilteredSet
    <3> QED BY <3>1, <3>2
  <2>4. ToSet(added) = {} /\ added \in Seq({Stored(x) : x \in E})
    <3> DEFINE S == {t \in ToSet(sent) : t.id \notin Ids(kept)}
    <3>1. Filtered(sent, S) \in Seq({Stored(x) : x \in E}) /\ ToSet(Filtered(sent, S)) = ToSet(sent) \cap S
      BY <1>2, FilteredSet
    <3> QED BY <2>2, <3>1
  <2> HIDE DEF kept, added, Now
  <2>5. kept = <<>> /\ added = <<>>
    BY <2>3, <2>4, NothingIn
  <2>6. now = <<>>
    BY <2>5
  <2>7. now \o added = <<>>
    BY <2>5, <2>6
  <2>8. Ids(<<>>) = {}
    BY NothingEmpty
  <2> QED BY <2>1, <2>2, <2>7, <2>8 DEF patch
<1> QED BY <1>4, <1>5

LEMMA BoardIds ==
    ASSUME NEW E, NEW to, NEW from, to.cardProperties \in Seq(E), from.cardProperties \in Seq(E)
    PROVE  Ids(PatchBoard(createPatchesFromBoards(to, from)[1], from).cardProperties) = Ids(to.cardProperties)
<1> DEFINE t == to.cardProperties
           f == from.cardProperties
           patch == CardPropertiesPatch(t, f)
           p == createPatchesFromBoards(to, from)[1]
<1>1. p.cardProperties = patch
  BY DEF createPatchesFromBoards, createCardPropertiesPatches, BoardPatch
<1> HIDE DEF p
<1>2. PatchBoard(p, from).cardProperties =
        IF patch.updated = <<>> /\ patch.deleted = {} THEN f ELSE PatchCardProperties(patch, f)
  BY <1>1 DEF PatchBoard
<1>3. CASE IdList(t) = IdList(f)
  <2>1. Ids(PatchCardProperties(patch, f)) = Ids(f)
    BY <1>3, SameIdsPatched
  <2>2. Ids(t) = Ids(f)
    BY <1>3, SameIdLists
  <2> HIDE DEF patch, t, f
  <2> QED BY <1>2, <2>1, <2>2 DEF p, t
<1>4. CASE IdList(t) # IdList(f)
  <2>1. Ids(PatchCardProperties(patch, f)) = Ids(t)
    BY <1>4, OtherIdsPatched
  <2>2. ~(patch.updated = <<>> /\ patch.deleted = {})
    <3> SUFFICES ASSUME patch.updated = <<>>, patch.deleted = {} PROVE FALSE
      OBVIOUS
    <3>1. t = <<>> /\ Ids(f) \ Ids(t) = {}
      BY <1>4 DEF CardPropertiesPatch
    <3>2. Ids(f) = {}
      BY <3>1, NothingEmpty
    <3>3. ToSet(f) = {}
      BY <3>2, IdsAre
    <3>4. f = <<>>
      BY <3>3, NothingIn
    <3> QED BY <1>4, <3>1, <3>4
  <2> HIDE DEF patch, t, f
  <2> QED BY <1>2, <2>1, <2>2 DEF p, t
<1> QED BY <1>3, <1>4

-----------------------------------------------------------------------------
(* What commands keep true of the properties referred to.                  *)

\* The open view lives, with its lists of properties, next to its cards.
Formed(c, Props) ==
    /\ ViewId \in Living(c) /\ c.blocks[ViewId].type # "card"
    /\ ListKeys \cup {"groupById"} \subseteq DOMAIN View(c)
    /\ \A key \in ListKeys : View(c)[key] \in Seq(Props)
    /\ \A id \in CardsOf(c) : "properties" \in DOMAIN c.blocks[id].f

LEMMA UsedIs ==
    ASSUME NEW c, NEW v
    PROVE  v \in Used(c) <=>
             \/ \E key \in ListKeys : v \in ToSet(View(c)[key])
             \/ v = View(c)["groupById"] /\ v # ""
             \/ \E id \in CardsOf(c) : v \in DOMAIN c.blocks[id].f.properties
<1> DEFINE lists == UNION {ToSet(View(c)[key]) : key \in ListKeys}
           groups == {View(c).groupById} \ {""}
           cards == UNION {DOMAIN c.blocks[id].f.properties : id \in CardsOf(c)}
<1>1. Used(c) = lists \cup groups \cup cards
  BY DEF Used
<1>2. v \in lists <=> \E key \in ListKeys : v \in ToSet(View(c)[key])
  OBVIOUS
<1>3. v \in groups <=> v = View(c)["groupById"] /\ v # ""
  OBVIOUS
<1>4. v \in cards <=> \E id \in CardsOf(c) : v \in DOMAIN c.blocks[id].f.properties
  OBVIOUS
<1> HIDE DEF lists, groups, cards
<1> QED BY <1>1, <1>2, <1>3, <1>4

\* The command takes no property off the board, and what the view and the cards
\* refer to after it they did before, or it is a property of the board.
Adds(k, c) ==
    LET d == RedoOf(k, c)
    IN  /\ Ids(Templates(c)) \subseteq Ids(Templates(d))
        /\ Used(d) \subseteq Used(c) \cup Ids(Templates(d))

Deletes(k, c) == \E p \in Ids(Templates(c)) : k = deleteProperty(c, p)

LEMMA CopiedIds ==
    ASSUME NEW c, NEW E, Templates(c) \in Seq(E), Shaped(c)
    PROVE  LET F == {Copied(c)[i] : i \in DOMAIN Templates(c)}
           IN  /\ Copied(c) \in Seq(F) /\ Len(Copied(c)) = Len(Templates(c))
               /\ Ids(Copied(c)) = Ids(Templates(c))
               /\ ToSet(Copied(c)) \subseteq F
<1> DEFINE s == c.board.cardProperties
           F == {Copied(c)[i] : i \in DOMAIN s}
<1>1. \A j \in DOMAIN s : Copied(c)[j] \in F
  OBVIOUS
<1> HIDE DEF F
<1>2. /\ Copied(c) \in Seq(F) /\ Len(Copied(c)) = Len(s)
      /\ \A j \in DOMAIN s : Copied(c)[j].id = s[j].id
  BY <1>1, CopiedList DEF Templates
<1>3. DOMAIN Copied(c) = 1 .. Len(s) /\ DOMAIN s = 1 .. Len(s)
  BY <1>2, LenProperties DEF Templates
<1>4. Ids(Copied(c)) = Ids(s)
  BY <1>2, <1>3 DEF Ids
<1>5. ToSet(Copied(c)) \subseteq F
  BY <1>1, <1>3 DEF ToSet
<1> QED BY <1>2, <1>4, <1>5 DEF F, Templates

\* The board a command makes of other templates has their ids.
LEMMA NewIdsOf ==
    ASSUME NEW c, NEW E, NEW F, NEW templates, Templates(c) \in Seq(E), templates \in Seq(F), NEW board,
           board = PatchBoard(createPatchesFromBoards(WithTemplates(c, templates), c.board)[1], c.board)
    PROVE  Ids(board.cardProperties) = Ids(templates)
<1> DEFINE to == WithTemplates(c, templates)
           G == E \cup F
<1>1. to.cardProperties = templates
  BY DEF WithTemplates, createBoard
<1>2. templates \in Seq(G) /\ c.board.cardProperties \in Seq(G)
  BY WiderSeq DEF Templates
<1> HIDE DEF to, G
<1>3. Ids(PatchBoard(createPatchesFromBoards(to, c.board)[1], c.board).cardProperties) = Ids(to.cardProperties)
  BY <1>1, <1>2, BoardIds
<1> QED BY <1>1, <1>3 DEF to

LEMMA TemplatesLeft ==
    ASSUME NEW c, NEW E, Templates(c) \in Seq(E), Shaped(c), NEW p
    PROVE  /\ Ids(TemplatesBut(c, p)) = Ids(Templates(c)) \ {p}
           /\ \E F : TemplatesBut(c, p) \in Seq(F)
<1> DEFINE F == {Copied(c)[i] : i \in DOMAIN Templates(c)}
           S == {t \in ToSet(Copied(c)) : t.id # p}
           r == Filtered(Copied(c), S)
<1>1. Copied(c) \in Seq(F) /\ Ids(Copied(c)) = Ids(Templates(c))
  BY CopiedIds
<1>2. r \in Seq(F) /\ ToSet(r) = ToSet(Copied(c)) \cap S
  <2> HIDE DEF S, F
  <2> QED BY <1>1, FilteredSet
<1>3. TemplatesBut(c, p) = r
  BY DEF TemplatesBut
<1> HIDE DEF r, F
<1>4. \A v : v \in Ids(r) <=> v \in Ids(Copied(c)) /\ v # p
  BY <1>2, IdsAre
<1> QED BY <1>1, <1>2, <1>3, <1>4

\* What deleteProperty makes of the view and of the cards that hold the property.
DeletedFrom(c, p) ==
    LET uses == \/ p \in ToSet(View(c).visiblePropertyIds) \cup ToSet(View(c).sortOptions)
                         \cup ToSet(View(c).filter)
                \/ View(c).groupById = p
        holders == {id \in CardsOf(c) : p \in DOMAIN c.blocks[id].f.properties}
    IN  [id \in holders \cup (IF uses THEN {ViewId} ELSE {}) |->
             IF id = ViewId
             THEN [View(c) EXCEPT !.visiblePropertyIds = Removing(@, p),
                                  !.sortOptions = Removing(@, p),
                                  !.filter = Removing(@, p),
                                  !.groupById = IF @ = p THEN "" ELSE @]
             ELSE [c.blocks[id].f EXCEPT !.properties = Without(@, {p})]]

LEMMA DeletedIs ==
    ASSUME NEW c, NEW p, NEW Props, Formed(c, Props), NEW new, new = DeletedFrom(c, p)
    PROVE  /\ \A id \in DOMAIN new : IsMap(new[id])
           /\ \A id \in CardsOf(c) : IF p \in DOMAIN c.blocks[id].f.properties
                THEN /\ id \in DOMAIN new
                     /\ new[id].properties = Without(c.blocks[id].f.properties, {p})
                ELSE id \notin DOMAIN new
           /\ ViewId \in DOMAIN new =>
                /\ \A key \in ListKeys : ToSet(new[ViewId][key]) \subseteq ToSet(View(c)[key]) \ {p}
                /\ new[ViewId]["groupById"] \in {"", View(c)["groupById"]} \ ({p} \ {""})
           /\ ViewId \notin DOMAIN new =>
                /\ \A key \in ListKeys : p \notin ToSet(View(c)[key])
                /\ View(c)["groupById"] # p
<1> DEFINE v == View(c)
           uses == \/ p \in ToSet(v.visiblePropertyIds) \cup ToSet(v.sortOptions) \cup ToSet(v.filter)
                   \/ v.groupById = p
           holders == {id \in CardsOf(c) : p \in DOMAIN c.blocks[id].f.properties}
           view == [v EXCEPT !.visiblePropertyIds = Removing(@, p), !.sortOptions = Removing(@, p),
                             !.filter = Removing(@, p), !.groupById = IF @ = p THEN "" ELSE @]
           card(id) == [c.blocks[id].f EXCEPT !.properties = Without(@, {p})]
<1>1. ViewId \notin CardsOf(c)
  BY DEF Formed, CardsOf, Alive
<1>2. /\ DOMAIN new = holders \cup (IF uses THEN {ViewId} ELSE {})
      /\ \A id \in holders : new[id] = card(id)
      /\ uses => new[ViewId] = view
  BY <1>1 DEF DeletedFrom
<1>3. IsMap(view) /\ \A id : IsMap(card(id))
  BY DEF IsMap
<1>4. /\ view["visiblePropertyIds"] = Removing(v["visiblePropertyIds"], p)
      /\ view["sortOptions"] = Removing(v["sortOptions"], p)
      /\ view["filter"] = Removing(v["filter"], p)
      /\ view["groupById"] = IF v["groupById"] = p THEN "" ELSE v["groupById"]
  BY DEF Formed, ListKeys
<1>5. \A id \in CardsOf(c) : card(id).properties = Without(c.blocks[id].f.properties, {p})
  BY DEF Formed
<1>6. \A key \in ListKeys : ToSet(Removing(v[key], p)) = ToSet(v[key]) \ {p}
  <2> TAKE key \in ListKeys
  <2> DEFINE S == ToSet(v[key]) \ {p}
  <2>1. v[key] \in Seq(Props)
    BY DEF Formed
  <2>2. Removing(v[key], p) = Filtered(v[key], S)
    BY DEF Removing
  <2>3. ToSet(Filtered(v[key], S)) = ToSet(v[key]) \cap S
    <3> HIDE DEF S, v
    <3> QED BY <2>1, FilteredSet
  <2> QED BY <2>2, <2>3
<1>7. uses <=> (\E key \in ListKeys : p \in ToSet(v[key])) \/ v["groupById"] = p
  BY DEF ListKeys
<1> HIDE DEF v, uses, view, card
<1>8. \A id \in DOMAIN new : IsMap(new[id])
  BY <1>2, <1>3
<1>9. \A id \in CardsOf(c) : IF p \in DOMAIN c.blocks[id].f.properties
                THEN /\ id \in DOMAIN new
                     /\ new[id].properties = Without(c.blocks[id].f.properties, {p})
                ELSE id \notin DOMAIN new
  BY <1>1, <1>2, <1>5
<1>10. ViewId \in DOMAIN new <=> uses
  BY <1>1, <1>2
<1>11. ASSUME uses
       PROVE  /\ \A key \in ListKeys : ToSet(new[ViewId][key]) \subseteq ToSet(v[key]) \ {p}
              /\ new[ViewId]["groupById"] \in {"", v["groupById"]} \ ({p} \ {""})
  <2>1. new[ViewId] = view
    BY <1>2, <1>11
  <2>2. \A key \in ListKeys : view[key] = Removing(v[key], p)
    BY <1>4 DEF ListKeys
  <2>3. \A key \in ListKeys : ToSet(new[ViewId][key]) \subseteq ToSet(v[key]) \ {p}
    BY <1>6, <2>1, <2>2
  <2> QED BY <1>4, <2>1, <2>3
<1> QED BY <1>7, <1>8, <1>9, <1>10, <1>11 DEF v

\* A property goes from the board together with every reference to it (mutator.ts:597).
LEMMA DeleteKeepsThere ==
    ASSUME NEW c, NEW E, NEW Props, NEW p, Shaped(c), Templates(c) \in Seq(E), Formed(c, Props), AllThere(c)
    PROVE  AllThere(RedoOf(deleteProperty(c, p), c))
<1> DEFINE list == TemplatesBut(c, p)
           board == WithTemplates(c, list)
           new == DeletedFrom(c, p)
           d == RedoOf(deleteProperty(c, p), c)
<1>1. deleteProperty(c, p) = updateBoardAndBlocks(c, board, new)
  BY DEF deleteProperty, DeletedFrom
<1>2. /\ \A id \in DOMAIN new : IsMap(new[id])
      /\ \A id \in CardsOf(c) : IF p \in DOMAIN c.blocks[id].f.properties
           THEN /\ id \in DOMAIN new
                /\ new[id].properties = Without(c.blocks[id].f.properties, {p})
           ELSE id \notin DOMAIN new
      /\ ViewId \in DOMAIN new =>
           /\ \A key \in ListKeys : ToSet(new[ViewId][key]) \subseteq ToSet(View(c)[key]) \ {p}
           /\ new[ViewId]["groupById"] \in {"", View(c)["groupById"]} \ ({p} \ {""})
      /\ ViewId \notin DOMAIN new =>
           /\ \A key \in ListKeys : p \notin ToSet(View(c)[key])
           /\ View(c)["groupById"] # p
  <2> HIDE DEF new
  <2> QED BY DeletedIs DEF new
<1> HIDE DEF new
<1>3. /\ d.board = PatchBoard(createPatchesFromBoards(board, c.board)[1], c.board)
      /\ Becomes(c, d, new)
  <2> HIDE DEF board
  <2> QED BY <1>1, <1>2, BoardAndBlocksDone
<1>4. Ids(Templates(d)) = Ids(Templates(c)) \ {p}
  <2>1. Ids(list) = Ids(Templates(c)) \ {p}
    BY TemplatesLeft
  <2>2. PICK F : list \in Seq(F)
    BY TemplatesLeft
  <2> HIDE DEF list, d
  <2>3. Ids(d.board.cardProperties) = Ids(list)
    BY <1>3, <2>2, NewIdsOf
  <2> QED BY <2>1, <2>3 DEF Templates
<1> HIDE DEF d
<1>5. CardsOf(d) = CardsOf(c) /\ CardsOf(c) \subseteq Living(c) /\ ViewId \in Living(c) /\ Living(c) \subseteq DOMAIN c.blocks
  BY <1>3, CardsStay DEF Formed, Living
<1>6. ASSUME NEW v \in Used(d) PROVE v \in Used(c) \ {p}
  <2>1. ASSUME NEW id \in CardsOf(d), v \in DOMAIN d.blocks[id].f.properties PROVE v \in Used(c) \ {p}
    <3>1. id \in CardsOf(c) /\ id \in Living(c) /\ id \in DOMAIN c.blocks
      BY <1>5, <2>1
    <3>2. v \in DOMAIN c.blocks[id].f.properties /\ v # p
      <4>1. CASE p \in DOMAIN c.blocks[id].f.properties
        <5>1. d.blocks[id].f = new[id] /\ new[id].properties = Without(c.blocks[id].f.properties, {p})
          BY <1>2, <1>3, <3>1, <4>1 DEF Becomes
        <5>2. d.blocks[id].f.properties = Without(c.blocks[id].f.properties, {p})
          BY <5>1
        <5>3. v \in DOMAIN Without(c.blocks[id].f.properties, {p})
          BY <2>1, <5>2
        <5>4. DOMAIN Without(c.blocks[id].f.properties, {p}) = DOMAIN c.blocks[id].f.properties \ {p}
          BY DEF Without
        <5> QED BY <5>3, <5>4
      <4>2. CASE p \notin DOMAIN c.blocks[id].f.properties
        <5>1. d.blocks[id].f = c.blocks[id].f
          BY <1>2, <1>3, <3>1, <4>2 DEF Becomes
        <5> QED BY <2>1, <4>2, <5>1
      <4> QED BY <4>1, <4>2
    <3> QED BY <3>1, <3>2, UsedIs
  <2>2. CASE ViewId \in DOMAIN new
    <3>1. View(d) = new[ViewId]
      BY <1>3, <1>5, <2>2 DEF Becomes, View
    <3>2. ASSUME NEW key \in ListKeys, v \in ToSet(View(d)[key]) PROVE v \in Used(c) \ {p}
      <4>1. v \in ToSet(View(c)[key]) /\ v # p
        BY <1>2, <2>2, <3>1, <3>2
      <4> QED BY <4>1, UsedIs
    <3>3. ASSUME v = View(d)["groupById"], v # "" PROVE v \in Used(c) \ {p}
      <4>1. v = View(c)["groupById"] /\ v # p
        BY <1>2, <2>2, <3>1, <3>3
      <4> QED BY <3>3, <4>1, UsedIs
    <3> QED BY <2>1, <3>2, <3>3, UsedIs
  <2>3. CASE ViewId \notin DOMAIN new
    <3>1. View(d) = View(c)
      BY <1>3, <1>5, <2>3 DEF Becomes, View
    <3>2. ASSUME NEW key \in ListKeys, v \in ToSet(View(d)[key]) PROVE v \in Used(c) \ {p}
      <4>1. v \in ToSet(View(c)[key]) /\ v # p
        BY <1>2, <2>3, <3>1, <3>2
      <4> QED BY <4>1, UsedIs
    <3>3. ASSUME v = View(d)["groupById"], v # "" PROVE v \in Used(c) \ {p}
      <4>1. v = View(c)["groupById"] /\ v # p
        BY <1>2, <2>3, <3>1, <3>3
      <4> QED BY <3>3, <4>1, UsedIs
    <3> QED BY <2>1, <3>2, <3>3, UsedIs
  <2> QED BY <2>2, <2>3
<1> QED BY <1>4, <1>6 DEF AllThere, d

\* Deleting a property can be undone, wherever it was used (mutator.ts:597).
THEOREM DeletePropertyUndoable ==
    ASSUME NEW c, NEW E, NEW p \in Ids(Templates(c)), Shaped(c), Templates(c) \in Seq(E), Whole(Templates(c))
    PROVE  Undoable(deleteProperty(c, p), c)
<1> DEFINE list == TemplatesBut(c, p)
           new == DeletedFrom(c, p)
<1>1. deleteProperty(c, p) = updateBoardAndBlocks(c, WithTemplates(c, list), new)
  BY DEF deleteProperty, DeletedFrom
<1>2. \A id \in DOMAIN new : IsMap(new[id])
  BY DEF DeletedFrom, IsMap
<1>3. Ids(list) # Ids(Templates(c))
  BY TemplatesLeft
<1>4. Templates(c) # <<>>
  BY NothingEmpty
<1> HIDE DEF list, new
<1>5. OtherList(c, list)
  BY <1>3, <1>4, SameIdLists DEF OtherList, Templates
<1> QED BY <1>1, <1>2, <1>5, ListPlain

\* What the view and the cards refer to after some of them changed.
LEMMA UsedAfter ==
    ASSUME NEW c, NEW d, NEW new, NEW Props, NEW S, Formed(c, Props), Becomes(c, d, new), Used(c) \subseteq S,
           ViewId \in DOMAIN new =>
             /\ \A key \in ListKeys : ToSet(new[ViewId][key]) \subseteq S
             /\ new[ViewId]["groupById"] \in S \cup {""},
           \A id \in CardsOf(c) \cap DOMAIN new : DOMAIN new[id].properties \subseteq S
    PROVE  Used(d) \subseteq S
<1>1. CardsOf(d) = CardsOf(c) /\ CardsOf(c) \subseteq Living(c) /\ Living(c) \subseteq DOMAIN c.blocks
      /\ ViewId \in Living(c)
  BY CardsStay DEF Formed, Living
<1> SUFFICES ASSUME NEW v \in Used(d) PROVE v \in S
  OBVIOUS
<1>2. ASSUME NEW id \in CardsOf(d), v \in DOMAIN d.blocks[id].f.properties PROVE v \in S
  <2>1. CASE id \in DOMAIN new
    BY <1>1, <1>2, <2>1 DEF Becomes
  <2>2. CASE id \notin DOMAIN new
    <3>1. v \in DOMAIN c.blocks[id].f.properties
      BY <1>1, <1>2, <2>2 DEF Becomes
    <3> QED BY <1>1, <3>1, UsedIs
  <2> QED BY <2>1, <2>2
<1>3. CASE ViewId \in DOMAIN new
  <2>1. View(d) = new[ViewId]
    BY <1>1, <1>3 DEF Becomes, View
  <2> QED BY <1>2, <1>3, <2>1, UsedIs
<1>4. CASE ViewId \notin DOMAIN new
  <2>1. View(d) = View(c)
    BY <1>1, <1>4 DEF Becomes, View
  <2> QED BY <1>2, <2>1, UsedIs
<1> QED BY <1>3, <1>4

\* A command on one block, whose references are known.
LEMMA BlockAdds ==
    ASSUME NEW c, NEW k, NEW id, NEW new, NEW Props, Formed(c, Props),
           RedoOf(k, c).board = c.board, Becomes(c, RedoOf(k, c), Only(id, new)),
           id = ViewId =>
             /\ \A key \in ListKeys : ToSet(new[key]) \subseteq Used(c) \cup Ids(Templates(c))
             /\ new["groupById"] \in Used(c) \cup Ids(Templates(c)) \cup {""},
           id \in CardsOf(c) => DOMAIN new.properties \subseteq Used(c) \cup Ids(Templates(c))
    PROVE  Adds(k, c)
<1> DEFINE d == RedoOf(k, c)
           S == Used(c) \cup Ids(Templates(d))
           all == Only(id, new)
<1>1. DOMAIN all = {id} /\ all[id] = new
  BY OnlyIs
<1>2. Templates(d) = Templates(c)
  BY DEF Templates
<1> HIDE DEF all, d
<1>3. Becomes(c, d, all)
  BY DEF all, d
<1>4. Used(d) \subseteq S
  <2>1. ViewId \in DOMAIN all =>
             /\ \A key \in ListKeys : ToSet(all[ViewId][key]) \subseteq S
             /\ all[ViewId]["groupById"] \in S \cup {""}
    BY <1>1, <1>2
  <2>2. \A i \in CardsOf(c) \cap DOMAIN all : DOMAIN all[i].properties \subseteq S
    BY <1>1, <1>2
  <2>3. Used(c) \subseteq S
    OBVIOUS
  <2> HIDE DEF S
  <2> QED BY <1>3, <2>1, <2>2, <2>3, UsedAfter
<1> QED BY <1>2, <1>4 DEF Adds, d

\* A value is given to a property of the board; the view is told to list, to
\* sort by, to filter by or to group by properties of the board.
THEOREM ReferencesAdd ==
    ASSUME NEW c, NEW Props, Shaped(c), Formed(c, Props)
    PROVE  /\ \A value : \A id \in CardsOf(c), p \in Ids(Templates(c)) :
                Adds(changePropertyValue(c, id, p, value), c)
           /\ \A key, value :
                /\ key \in ListKeys => ToSet(value) \subseteq Ids(Templates(c))
                /\ key = "groupById" => value \in Ids(Templates(c)) \cup {""}
                => Adds(ChangeView(c, key, value), c)
           /\ \A p \in Ids(Templates(c)) \cup {""} : Adds(changeViewGroupById(c, p), c)
<1>1. ViewId \in DOMAIN c.blocks /\ ViewId \notin CardsOf(c)
  BY DEF Formed, Living, CardsOf, Alive
<1>2. ASSUME NEW id \in CardsOf(c), NEW p \in Ids(Templates(c)), NEW value
      PROVE  Adds(changePropertyValue(c, id, p, value), c)
  <2> DEFINE f == c.blocks[id].f
             old == f.properties
             set == IF value = <<>> THEN Without(old, {p}) ELSE Over(old, Only(p, value))
             now == dropOutOfRangeDepartments(c, set, p)
             new == [f EXCEPT !.properties = now]
             k == changePropertyValue(c, id, p, value)
  <2>1. k = updateBlock(c, id, new) /\ IsMap(new) /\ id \in DOMAIN c.blocks /\ id # ViewId
    BY <1>1 DEF changePropertyValue, IsMap, CardsOf, Alive
  <2>2. DOMAIN now = DOMAIN set
    BY DEF dropOutOfRangeDepartments
  <2>3. DOMAIN set \subseteq DOMAIN old \cup {p}
    BY DEF Without, Over, Only
  <2> HIDE DEF now, set
  <2>4. new.properties = now
    <3>1. "properties" \in DOMAIN f
      BY DEF Formed
    <3> QED BY <3>1
  <2>5. DOMAIN old \subseteq Used(c)
    BY UsedIs
  <2> HIDE DEF new, old, f
  <2>6. RedoOf(k, c).board = c.board /\ Becomes(c, RedoOf(k, c), Only(id, new))
    BY <2>1, BlockDone
  <2>7. DOMAIN new.properties \subseteq Used(c) \cup Ids(Templates(c))
    BY <2>2, <2>3, <2>4, <2>5
  <2> HIDE DEF k
  <2>8. Adds(k, c)
    BY <2>1, <2>6, <2>7, BlockAdds
  <2> QED BY <2>8 DEF k
<1>3. ASSUME NEW new, NEW old,
             \A key \in ListKeys \cap DOMAIN new : ToSet(new[key]) \subseteq Ids(Templates(c)),
             "groupById" \in DOMAIN new => new["groupById"] \in Ids(Templates(c)) \cup {""}
      PROVE  Adds(PatchFields(ViewId, new, old), c)
  <2> DEFINE k == PatchFields(ViewId, new, old)
             now == Over(View(c), new)
  <2>1. RedoOf(k, c).board = c.board /\ Becomes(c, RedoOf(k, c), Only(ViewId, now))
    BY <1>1, FieldsDone DEF View
  <2>2. \A key \in DOMAIN View(c) : now[key] = IF key \in DOMAIN new THEN new[key] ELSE View(c)[key]
    BY DEF Over
  <2>3. ListKeys \cup {"groupById"} \subseteq DOMAIN View(c)
    BY DEF Formed
  <2> HIDE DEF k, now
  <2>4. \A key \in ListKeys : ToSet(now[key]) \subseteq Used(c) \cup Ids(Templates(c))
    <3> TAKE key \in ListKeys
    <3>1. CASE key \in DOMAIN new
      <4>1. now[key] = new[key]
        BY <2>2, <2>3, <3>1
      <4> QED BY <1>3, <3>1, <4>1
    <3>2. CASE key \notin DOMAIN new
      <4>1. now[key] = View(c)[key]
        BY <2>2, <2>3, <3>2
      <4> QED BY <4>1, UsedIs
    <3> QED BY <3>1, <3>2
  <2>5. now["groupById"] \in Used(c) \cup Ids(Templates(c)) \cup {""}
    <3>1. CASE "groupById" \in DOMAIN new
      <4>1. now["groupById"] = new["groupById"]
        BY <2>2, <2>3, <3>1
      <4> QED BY <1>3, <3>1, <4>1
    <3>2. CASE "groupById" \notin DOMAIN new
      <4>1. now["groupById"] = View(c)["groupById"]
        BY <2>2, <2>3, <3>2
      <4> QED BY <4>1, UsedIs
    <3> QED BY <3>1, <3>2
  <2>6. Adds(k, c)
    BY <1>1, <2>1, <2>4, <2>5, BlockAdds
  <2> QED BY <2>6 DEF k
<1>4. ASSUME NEW key, NEW value, key \in ListKeys => ToSet(value) \subseteq Ids(Templates(c)),
             key = "groupById" => value \in Ids(Templates(c)) \cup {""}
      PROVE  Adds(ChangeView(c, key, value), c)
  <2> DEFINE new == Only(key, value)
             old == Only(key, c.blocks[ViewId].f[key])
  <2>1. DOMAIN new = {key} /\ new[key] = value
    BY OnlyIs
  <2>2. ChangeView(c, key, value) = PatchFields(ViewId, new, old)
    BY DEF ChangeView, PatchField
  <2> HIDE DEF new, old
  <2> QED BY <1>3, <1>4, <2>1, <2>2
<1>5. ASSUME NEW p \in Ids(Templates(c)) \cup {""}
      PROVE  Adds(changeViewGroupById(c, p), c)
  <2> DEFINE new == [k \in GroupKeys |-> IF k = "groupById" THEN p ELSE <<>>]
             old == [k \in GroupKeys |-> View(c)[k]]
  <2>1. DOMAIN new \cap ListKeys = {} /\ new["groupById"] = p
    BY DEF GroupKeys, ListKeys
  <2>2. changeViewGroupById(c, p) = PatchFields(ViewId, new, old)
    BY DEF changeViewGroupById
  <2> HIDE DEF new, old
  <2> QED BY <1>3, <2>1, <2>2
<1> QED BY <1>2, <1>4, <1>5

LEMMA NothingThere == DOMAIN <<>> = {}
OBVIOUS

LEMMA BoardAndBlocksAdd ==
    ASSUME NEW c, NEW k, NEW E, NEW F, NEW Props, NEW list \in Seq(F), NEW new,
           Shaped(c), Templates(c) \in Seq(E), Formed(c, Props),
           Ids(Templates(c)) \subseteq Ids(list),
           \/ k = updateBoard(c, WithTemplates(c, list))
           \/ /\ k = updateBoardAndBlocks(c, WithTemplates(c, list), Only(ViewId, new)) /\ IsMap(new)
              /\ \A key \in ListKeys : ToSet(new[key]) \subseteq Used(c) \cup Ids(list)
              /\ new["groupById"] \in Used(c) \cup {""}
    PROVE  Adds(k, c)
<1> DEFINE board == WithTemplates(c, list)
           d == RedoOf(k, c)
           one == Only(ViewId, new)
           S == Used(c) \cup Ids(list)
<1>1. DOMAIN one = {ViewId} /\ one[ViewId] = new
  BY OnlyIs
<1> HIDE DEF board, one
<1>2. PICK some : /\ d.board = PatchBoard(createPatchesFromBoards(board, c.board)[1], c.board)
                  /\ Becomes(c, d, some)
                  /\ some = <<>> \/ (some = one /\ k = updateBoardAndBlocks(c, board, one))
  <2>1. CASE k = updateBoard(c, board)
    BY <2>1, BoardDone
  <2>2. CASE k = updateBoardAndBlocks(c, board, one)
    <3>1. CASE k = updateBoard(c, board)
      BY <2>1, <3>1
    <3>2. CASE k # updateBoard(c, board)
      <4>1. IsMap(new)
        BY <3>2 DEF board, one
      <4>2. \A id \in DOMAIN one \cap Living(c) : IsMap(one[id])
        BY <1>1, <4>1
      <4> QED BY <2>2, <4>2, BoardAndBlocksDone
    <3> QED BY <3>1, <3>2
  <2> QED BY <2>1, <2>2 DEF board, one
<1> HIDE DEF d
<1>3. Ids(Templates(d)) = Ids(list)
  <2>1. d.board = PatchBoard(createPatchesFromBoards(WithTemplates(c, list), c.board)[1], c.board)
    BY <1>2 DEF board
  <2>b. list \in Seq(F) /\ Templates(c) \in Seq(E)
    OBVIOUS
  <2>a. ASSUME NEW b, b = PatchBoard(createPatchesFromBoards(WithTemplates(c, list), c.board)[1], c.board)
        PROVE  Ids(b.cardProperties) = Ids(list)
    BY ONLY <2>a, <2>b, NewIdsOf
  <2>2. Ids(d.board.cardProperties) = Ids(list)
    BY <2>1, <2>a
  <2> QED BY <2>2 DEF Templates
<1>4. Used(d) \subseteq S
  <2>1. CASE some = <<>>
    <3>a. DOMAIN <<>> = {}
      BY ONLY NothingThere
    <3>1. DOMAIN some = {}
      BY <2>1, <3>a
    <3>2. Used(c) \subseteq S
      OBVIOUS
    <3> HIDE DEF S
    <3> QED BY <1>2, <3>1, <3>2, UsedAfter
  <2>2. CASE some # <<>>
    <3>1. some = one /\ k = updateBoardAndBlocks(c, board, one)
      BY <1>2, <2>2
    <3>2. CASE k = updateBoard(c, board)
      <4>1. PICK none : none = <<>> /\ Becomes(c, d, none)
        BY <3>2, BoardDone DEF d
      <4>a. DOMAIN <<>> = {}
        BY ONLY NothingThere
      <4>2. DOMAIN none = {} /\ Used(c) \subseteq S
        BY <4>1, <4>a
      <4> HIDE DEF S
      <4> QED BY <4>1, <4>2, UsedAfter
    <3>3. CASE k # updateBoard(c, board)
      <4>1. /\ \A key \in ListKeys : ToSet(new[key]) \subseteq S
            /\ new["groupById"] \in S \cup {""}
        BY <3>3 DEF board, one
      <4>2. ViewId \in DOMAIN some =>
               /\ \A key \in ListKeys : ToSet(some[ViewId][key]) \subseteq S
               /\ some[ViewId]["groupById"] \in S \cup {""}
        BY <1>1, <3>1, <4>1
      <4>3. CardsOf(c) \cap DOMAIN some = {}
        BY <1>1, <3>1 DEF Formed, CardsOf, Alive
      <4>4. Used(c) \subseteq S
        OBVIOUS
      <4> HIDE DEF S
      <4> QED BY <1>2, <4>2, <4>3, <4>4, UsedAfter
    <3> QED BY <3>2, <3>3
  <2> QED BY <2>1, <2>2
<1> QED BY <1>3, <1>4 DEF Adds, d

\* A property is inserted, copied or moved.
THEOREM TemplatesAdd ==
    ASSUME NEW c, NEW E, NEW Props, Shaped(c), Templates(c) \in Seq(E), Formed(c, Props)
    PROVE  /\ \A at \in 1 .. Len(Templates(c)) + 1 : Adds(insertPropertyTemplate(c, at), c)
           /\ \A p \in Ids(Templates(c)) : Adds(duplicatePropertyTemplate(c, p), c)
           /\ \A p \in Ids(Templates(c)), dest \in DOMAIN Templates(c) :
                Adds(changePropertyTemplateOrder(c, p, dest), c)
<1> DEFINE s == Templates(c)
           n == Len(s)
           F == {Copied(c)[i] : i \in DOMAIN s}
           columns == View(c).visiblePropertyIds
<1>1. /\ Copied(c) \in Seq(F) /\ Len(Copied(c)) = n
      /\ Ids(Copied(c)) = Ids(s) /\ ToSet(Copied(c)) \subseteq F
  BY CopiedIds
<1>2. n \in Nat /\ DOMAIN s = 1 .. n /\ DOMAIN Copied(c) = 1 .. n
  BY <1>1, LenProperties
<1>3. ASSUME NEW at \in 1 .. n + 1, NEW t
      PROVE  /\ InsertAt(Copied(c), at, t) \in Seq(F \cup {t})
             /\ Ids(s) \subseteq Ids(InsertAt(Copied(c), at, t)) /\ t.id \in Ids(InsertAt(Copied(c), at, t))
  <2>1. Copied(c) \in Seq(F \cup {t}) /\ t \in F \cup {t} /\ at \in 1 .. Len(Copied(c)) + 1
    BY <1>1, WiderSeq
  <2>2. /\ InsertAt(Copied(c), at, t) \in Seq(F \cup {t})
        /\ ToSet(InsertAt(Copied(c), at, t)) = ToSet(Copied(c)) \cup {t}
    <3> HIDE DEF F
    <3> QED BY <2>1, InsertedSet
  <2> QED BY <1>1, <2>2, IdsAre
<1>4. columns \in Seq(Props) /\ Len(columns) \in Nat
  <2>1. View(c)["visiblePropertyIds"] \in Seq(Props)
    BY DEF Formed, ListKeys
  <2> QED BY <2>1, LenProperties
<1>5. ASSUME NEW list, NEW t, NEW G, list \in Seq(G), Ids(s) \subseteq Ids(list), t.id \in Ids(list),
             NEW view, IsMap(view),
             \A key \in DOMAIN View(c) \ {"visiblePropertyIds"} : view[key] = View(c)[key],
             ToSet(view["visiblePropertyIds"]) = ToSet(columns) \cup {t.id},
             NEW k,
             k \in {updateBoard(c, WithTemplates(c, list)),
                    updateBoardAndBlocks(c, WithTemplates(c, list), Only(ViewId, view))}
      PROVE  Adds(k, c)
  <2>1. \A key \in ListKeys : ToSet(view[key]) \subseteq Used(c) \cup Ids(list)
    <3> TAKE key \in ListKeys
    <3>1. CASE key = "visiblePropertyIds"
      <4>1. ToSet(View(c)[key]) \subseteq Used(c)
        BY UsedIs
      <4> QED BY <1>5, <3>1, <4>1
    <3>2. CASE key # "visiblePropertyIds"
      <4>1. view[key] = View(c)[key]
        BY <1>5, <3>2 DEF Formed
      <4> QED BY <4>1, UsedIs
    <3> QED BY <3>1, <3>2
  <2>2. view["groupById"] \in Used(c) \cup {""}
    <3>1. view["groupById"] = View(c)["groupById"]
      BY <1>5 DEF Formed
    <3> QED BY <3>1, UsedIs
  <2>3. \/ k = updateBoard(c, WithTemplates(c, list))
        \/ k = updateBoardAndBlocks(c, WithTemplates(c, list), Only(ViewId, view))
    BY <1>5
  <2> QED BY <1>5, <2>1, <2>2, <2>3, BoardAndBlocksAdd
<1>6. ASSUME NEW i \in Nat, NEW x, NEW view, view = [View(c) EXCEPT !.visiblePropertyIds = x]
      PROVE  /\ IsMap(view) /\ view["visiblePropertyIds"] = x
             /\ \A key \in DOMAIN View(c) \ {"visiblePropertyIds"} : view[key] = View(c)[key]
  BY <1>6 DEF IsMap, Formed, ListKeys
<1>7. ASSUME NEW at \in 1 .. n + 1
      PROVE  Adds(insertPropertyTemplate(c, at), c)
  <2> DEFINE t == NewTemplate(Guid(c), "text", <<>>)
             list == InsertAt(Copied(c), at, t)
             column == IF at > 1 /\ at <= Len(columns) THEN at ELSE Len(columns) + 1
             x == InsertAt(columns, column, t.id)
             view == [View(c) EXCEPT !.visiblePropertyIds = x]
  <2>1. insertPropertyTemplate(c, at) \in
          {updateBoard(c, WithTemplates(c, list)), updateBoardAndBlocks(c, WithTemplates(c, list), Only(ViewId, view))}
    BY DEF insertPropertyTemplate
  <2>2. column \in 1 .. Len(columns) + 1
    BY <1>2, <1>4
  <2> HIDE DEF t, column
  <2>3. ToSet(x) = ToSet(columns) \cup {t.id}
    <3> DEFINE P == Props \cup {t.id}
    <3>1. columns \in Seq(P) /\ t.id \in P
      BY <1>4, WiderSeq
    <3> HIDE DEF columns, P
    <3> QED BY <2>2, <3>1, InsertedSet
  <2>4. list \in Seq(F \cup {t}) /\ Ids(s) \subseteq Ids(list) /\ t.id \in Ids(list)
    BY <1>3
  <2> HIDE DEF x, list
  <2>5. /\ IsMap(view) /\ view["visiblePropertyIds"] = x
        /\ \A key \in DOMAIN View(c) \ {"visiblePropertyIds"} : view[key] = View(c)[key]
    BY <1>6
  <2> HIDE DEF view, columns, s, F
  <2> QED BY <1>5, <2>1, <2>3, <2>4, <2>5
<1>8. ASSUME NEW p \in Ids(s)
      PROVE  Adds(duplicatePropertyTemplate(c, p), c)
  <2> DEFINE i == IndexOf(c, p) + 1
             source == Copied(c)[IndexOf(c, p)]
             t == [NewTemplate(Guid(c), source.type, source.options) EXCEPT !.flags = Only("required", Flag(source, "required"))]
             list == InsertAt(Copied(c), i, t)
             x == Append(columns, t.id)
             view == [View(c) EXCEPT !.visiblePropertyIds = x]
  <2>1. duplicatePropertyTemplate(c, p) \in
          {updateBoard(c, WithTemplates(c, list)), updateBoardAndBlocks(c, WithTemplates(c, list), Only(ViewId, view))}
    BY DEF duplicatePropertyTemplate
  <2>2. i \in 1 .. n + 1
    BY <1>2 DEF IndexOf, Ids, Templates
  <2> HIDE DEF t, i
  <2>3. ToSet(x) = ToSet(columns) \cup {t.id}
    <3> DEFINE P == Props \cup {t.id}
    <3>1. columns \in Seq(P) /\ t.id \in P
      BY <1>4, WiderSeq
    <3> HIDE DEF columns, P
    <3> QED BY <3>1, AppendedSet
  <2>4. list \in Seq(F \cup {t}) /\ Ids(s) \subseteq Ids(list) /\ t.id \in Ids(list)
    BY <1>3, <2>2
  <2> HIDE DEF x, list
  <2>5. /\ IsMap(view) /\ view["visiblePropertyIds"] = x
        /\ \A key \in DOMAIN View(c) \ {"visiblePropertyIds"} : view[key] = View(c)[key]
    BY <1>6
  <2> HIDE DEF view, columns, s, F
  <2> QED BY <1>5, <2>1, <2>3, <2>4, <2>5
<1>9. ASSUME NEW p \in Ids(s), NEW dest \in DOMAIN s
      PROVE  Adds(changePropertyTemplateOrder(c, p, dest), c)
  <2> DEFINE src == IndexOf(c, p)
             r == RemoveAt(Copied(c), src)
             e == Copied(c)[src]
             list == InsertAt(r, dest, e)
  <2>1. src \in 1 .. n
    BY <1>2 DEF IndexOf, Ids, Templates
  <2>2. e \in F
    BY <1>2, <2>1
  <2> HIDE DEF F, src
  <2>3. r \in Seq(F) /\ Len(r) = n - 1 /\ ToSet(Copied(c)) = ToSet(r) \cup {e}
    BY <1>1, <2>1, RemovedAt, RemovedSet
  <2>4. dest \in 1 .. Len(r) + 1
    BY <1>2, <2>3
  <2> HIDE DEF r, e
  <2>5. list \in Seq(F) /\ ToSet(list) = ToSet(r) \cup {e}
    BY <2>2, <2>3, <2>4, InsertedSet
  <2> HIDE DEF list
  <2>6. Ids(list) = Ids(s)
    BY <1>1, <2>3, <2>5, SameSetIds
  <2>7. changePropertyTemplateOrder(c, p, dest) = updateBoard(c, WithTemplates(c, list))
    BY DEF changePropertyTemplateOrder, Moved, list, r, e, src
  <2>8. Ids(Templates(c)) \subseteq Ids(list)
    BY <2>6
  <2> QED BY <2>5, <2>7, <2>8, BoardAndBlocksAdd
<1> QED BY <1>7, <1>8, <1>9

LEMMA SameReferences ==
    ASSUME NEW c, NEW d, NEW Props, Formed(c, Props), AllThere(c), Ids(Templates(c)) \subseteq Ids(Templates(d)),
           CardsOf(d) \subseteq CardsOf(c), View(d) = View(c),
           \A id \in CardsOf(d) : d.blocks[id].f = c.blocks[id].f
    PROVE  AllThere(d)
<1> SUFFICES ASSUME NEW v \in Used(d) PROVE v \in Ids(Templates(d))
  BY DEF AllThere
<1>1. v \in Used(c)
  <2>1. ASSUME NEW id \in CardsOf(d), v \in DOMAIN d.blocks[id].f.properties PROVE v \in Used(c)
    <3>1. id \in CardsOf(c) /\ v \in DOMAIN c.blocks[id].f.properties
      BY <2>1
    <3> QED BY <3>1, UsedIs
  <2> QED BY <2>1, UsedIs
<1> QED BY <1>1 DEF AllThere

\* A property the view or a card refers to is one of the board, through every
\* undo and redo of commands that delete a property of the board and of
\* commands that refer to no other property than those of the board and take
\* none off it, on any board (mutator.ts:597).
THEOREM PropertiesExistHolds ==
    ASSUME Closed, MutatorSession, NEW E, NEW Props,
           \A c \in Contents : Templates(c) \in Seq(E) /\ Whole(Templates(c)) /\ Formed(c, Props),
           \A c \in Initial : AllThere(c),
           \A c \in Contents : \A k \in Offered(c) : Deletes(k, c) \/ (Undoable(k, c) /\ Adds(k, c))
    PROVE  Spec => []PropertiesExist
<1> SUFFICES ASSUME NEW Good, Good = {c \in Contents : AllThere(c)}
             PROVE  Spec => []PropertiesExist
  OBVIOUS
<1>1. Initial \subseteq Good
  BY DEF Closed
<1>2. ASSUME NEW c \in Contents, NEW d \in Contents, VisibleIn(c) = VisibleIn(d), c \in Good
      PROVE  d \in Good
  <2>1. Shaped(c) /\ Shaped(d) /\ AllThere(c) /\ Formed(c, Props) /\ Formed(d, Props)
    BY <1>2 DEF MutatorSession
  <2>2. /\ c.board = d.board /\ CardsOf(c) = CardsOf(d) /\ Living(c) = Living(d)
        /\ \A id \in Living(c) : c.blocks[id] = d.blocks[id]
    BY <1>2, <2>1, SameSight
  <2>3. \A id \in CardsOf(d) : d.blocks[id].f = c.blocks[id].f
    BY <2>2 DEF CardsOf, Alive, Living
  <2>4. View(d) = View(c)
    BY <2>1, <2>2 DEF Formed, View
  <2>5. Ids(Templates(c)) \subseteq Ids(Templates(d)) /\ CardsOf(d) \subseteq CardsOf(c)
    BY <2>2 DEF Templates
  <2>6. AllThere(d)
    BY <2>1, <2>3, <2>4, <2>5, SameReferences
  <2> QED BY <2>6
<1>3. ASSUME NEW c \in Contents, NEW k \in Offered(c) PROVE Undoable(k, c)
  <2>1. CASE Deletes(k, c)
    <3>1. PICK p \in Ids(Templates(c)) : k = deleteProperty(c, p)
      BY <2>1 DEF Deletes
    <3>2. Shaped(c) /\ Templates(c) \in Seq(E) /\ Whole(Templates(c))
      BY DEF MutatorSession
    <3>3. Undoable(deleteProperty(c, p), c)
      BY <3>2, DeletePropertyUndoable
    <3> QED BY <3>1, <3>3
  <2> QED BY <2>1
<1>4. ASSUME NEW c \in Contents \cap Good, NEW k \in Offered(c) PROVE RedoOf(k, c) \in Good
  <2>1. Shaped(c) /\ AllThere(c) /\ Templates(c) \in Seq(E) /\ Formed(c, Props)
    BY DEF MutatorSession
  <2>2. AllThere(RedoOf(k, c))
    <3>1. CASE Deletes(k, c)
      <4>1. PICK p \in Ids(Templates(c)) : k = deleteProperty(c, p)
        BY <3>1 DEF Deletes
      <4>2. AllThere(RedoOf(deleteProperty(c, p), c))
        BY <2>1, DeleteKeepsThere
      <4> QED BY <4>1, <4>2
    <3>2. CASE Adds(k, c)
      BY <2>1, <3>2 DEF Adds, AllThere
    <3> QED BY <3>1, <3>2
  <2>3. RedoOf(k, c) \in Contents
    BY DEF Closed, MutatorSession
  <2> QED BY <2>2, <2>3
<1>5. Spec => [](alone => content \in Good)
  <2>1. \A c, d \in Contents : VisibleIn(c) = VisibleIn(d) /\ c \in Good => d \in Good
    BY <1>2
  <2>2. \A c \in Contents : \A k \in Offered(c) : Undoable(k, c)
    BY <1>3
  <2>3. \A c \in Contents \cap Good : \A k \in Offered(c) : RedoOf(k, c) \in Good
    BY <1>4
  <2> QED BY <1>1, <2>1, <2>2, <2>3, CommandsKeep
<1>6. (alone => content \in Good) => PropertiesExist
  BY DEF PropertiesExist
<1> QED BY <1>5, <1>6, PTL

-----------------------------------------------------------------------------
(* Texts that become options.                                              *)

LEMMA SeqOfSet ==
    ASSUME NEW S, IsFiniteSet(S)
    PROVE  LET s == SetToSeq(S)
           IN  /\ DOMAIN s = 1 .. Cardinality(S) /\ Cardinality(S) \in Nat
               /\ \A i \in DOMAIN s : s[i] \in S
               /\ \A i, j \in DOMAIN s : s[i] = s[j] => i = j
               /\ \A x \in S : \E i \in DOMAIN s : s[i] = x
<1> DEFINE n == Cardinality(S)
           s == SetToSeq(S)
           T == 1 .. n
<1>1. n \in Nat /\ ExistsBijection(T, S)
  BY FS_CardinalityType
<1>2. PICK f \in [T -> S] : IsInjective(f)
  BY <1>1 DEF ExistsBijection, Bijection, Injection
<1>3. s = CHOOSE g \in [T -> S] : IsInjective(g)
  BY DEF SetToSeq
<1>4. s \in [T -> S] /\ IsInjective(s)
  BY <1>2, <1>3
<1> HIDE DEF s
<1>5. IsFiniteSet(T) /\ Cardinality(T) = n
  BY <1>1, FS_Interval
<1>6. s \in Injection(T, S)
  BY <1>4 DEF Injection
<1>7. s \in Surjection(T, S)
  BY <1>5, <1>6, FS_Injection
<1>8. \A x \in S : \E i \in T : s[i] = x
  BY <1>7 DEF Surjection
<1> QED BY <1>1, <1>4, <1>8 DEF IsInjective, s

\* There is an option for every text, and no two texts have the same one.
LEMMA OptionsMade ==
    ASSUME NEW c, NEW p, NEW holders, holders \subseteq CardsOf(c), IsFiniteSet(CardsOf(c)), IsFiniteSet(GuidIds),
           Cardinality(CardsOf(c)) <= Cardinality(GuidIds)
    PROVE  LET texts == OptionsForTexts(c, holders, p, SetToSeq(GuidIds))
           IN  /\ DOMAIN texts \subseteq Nat
               /\ \A id \in holders : \E i \in DOMAIN texts : texts[i].value = First(c, id, p)
               /\ \A i, j \in DOMAIN texts : texts[i].id = texts[j].id => i = j
<1> DEFINE T == {First(c, id, p) : id \in holders}
           f == [id \in holders |-> First(c, id, p)]
           s == SetToSeq(T)
           g == SetToSeq(GuidIds)
           texts == OptionsForTexts(c, holders, p, g)
<1>1. IsFiniteSet(holders) /\ Cardinality(holders) <= Cardinality(CardsOf(c))
  BY FS_Subset
<1>2. f \in Surjection(holders, T)
  BY DEF Surjection
<1>3. IsFiniteSet(T) /\ Cardinality(T) <= Cardinality(holders)
  <2> HIDE DEF f, T
  <2> QED BY <1>1, <1>2, FS_Surjection
<1>4. texts = [i \in DOMAIN s |-> NewOption(g[i], s[i])]
  BY DEF OptionsForTexts
<1>5. \A id \in holders : First(c, id, p) \in T
  OBVIOUS
<1>6. /\ Cardinality(T) \in Nat /\ Cardinality(holders) \in Nat
      /\ Cardinality(CardsOf(c)) \in Nat /\ Cardinality(GuidIds) \in Nat
  BY <1>1, <1>3, FS_CardinalityType
<1> HIDE DEF T, texts
<1>7. /\ DOMAIN s = 1 .. Cardinality(T) /\ \A x \in T : \E i \in DOMAIN s : s[i] = x
  BY <1>3, SeqOfSet
<1>8. /\ DOMAIN g = 1 .. Cardinality(GuidIds) /\ \A i, j \in DOMAIN g : g[i] = g[j] => i = j
  BY SeqOfSet
<1> HIDE DEF s, g
<1>9. DOMAIN s \subseteq DOMAIN g /\ DOMAIN s \subseteq Nat
  BY <1>1, <1>3, <1>6, <1>7, <1>8
<1>10. DOMAIN texts = DOMAIN s /\ \A i \in DOMAIN s : texts[i].id = g[i] /\ texts[i].value = s[i]
  BY <1>4 DEF NewOption
<1> QED BY <1>5, <1>7, <1>8, <1>9, <1>10 DEF texts, g

\* The conversion of a text to a select, as a change of one template and of the
\* cards that hold the text.
Converted(c, p) ==
    LET holders == {id \in CardsOf(c) : /\ p \in DOMAIN c.blocks[id].f.properties
                                        /\ c.blocks[id].f.properties[p] # <<>>}
        texts == OptionsForTexts(c, holders, p, SetToSeq(GuidIds))
        Option(id) == texts[CHOOSE i \in DOMAIN texts : texts[i].value = First(c, id, p)].id
    IN  [holders   |-> holders,
         texts     |-> texts,
         templates |-> [i \in DOMAIN Copied(c) |->
                          IF Copied(c)[i].id = p
                          THEN [Copied(c)[i] EXCEPT !.type = "multiSelect", !.name = "n", !.options = texts]
                          ELSE Copied(c)[i]],
         cards     |-> [id \in holders |-> [c.blocks[id].f EXCEPT !.properties = Over(@, Only(p, <<Option(id)>>))]]]

LEMMA ConversionIs ==
    ASSUME NEW c, NEW p, c.board.cardProperties[IndexOf(c, p)].type = "text", Converted(c, p).holders # {}
    PROVE  changePropertyTypeAndName(c, p, "multiSelect", "n", SetToSeq(GuidIds)) =
             updateBoardAndBlocks(c, WithTemplates(c, Converted(c, p).templates), Converted(c, p).cards)
<1> DEFINE old == c.board.cardProperties[IndexOf(c, p)]
           guids == SetToSeq(GuidIds)
           type == "multiSelect"
           cards == CardsOf(c)
           holders == {id \in cards : /\ p \in DOMAIN c.blocks[id].f.properties
                                     /\ c.blocks[id].f.properties[p] # <<>>}
           texts == OptionsForTexts(c, holders, p, guids)
           Option(id) == texts[CHOOSE i \in DOMAIN texts : texts[i].value = First(c, id, p)].id
           options == IF type = old.type THEN old.options
                      ELSE IF type \notin SelectTypes THEN <<>>
                      ELSE IF old.type \notin SelectTypes \cup PersonTypes THEN texts
                      ELSE IF cards = {} THEN <<>>
                      ELSE old.options
           Value(id) == IF old.type \in PersonTypes
                        THEN IF type \in PersonTypes THEN <<First(c, id, p)>> ELSE <<>>
                        ELSE IF type \notin SelectTypes THEN <<>>
                        ELSE IF old.type \in SelectTypes
                        THEN Filtered(<<First(c, id, p)>>, Ids(old.options))
                        ELSE <<Option(id)>>
           templates == Changing(c, p, LAMBDA t : [t EXCEPT !.type = type, !.name = "n", !.options = options])
           new == [id \in holders |-> [c.blocks[id].f EXCEPT !.properties =
                     IF Value(id) = <<>> THEN Without(@, {p}) ELSE Over(@, Only(p, Value(id)))]]
<1>1. /\ old.type = "text" /\ type # old.type /\ type \in SelectTypes
      /\ old.type \notin SelectTypes /\ old.type \notin PersonTypes
  BY DEF SelectTypes, PersonTypes
<1>2. holders # {}
  BY DEF Converted
<1>3. changePropertyTypeAndName(c, p, type, "n", guids) = updateBoardAndBlocks(c, WithTemplates(c, templates), new)
  BY <1>1, <1>2 DEF changePropertyTypeAndName
<1>4. options = texts
  BY <1>1
<1>5. templates = Converted(c, p).templates
  <2> DEFINE With(os) == [i \in DOMAIN Copied(c) |->
                            IF Copied(c)[i].id = p
                            THEN [Copied(c)[i] EXCEPT !.type = type, !.name = "n", !.options = os]
                            ELSE Copied(c)[i]]
  <2>1. templates = With(options)
    BY DEF Changing
  <2>2. Converted(c, p).templates = With(texts)
    BY DEF Converted
  <2> QED BY <1>4, <2>1, <2>2
<1>6. \A id : Value(id) = <<Option(id)>> /\ Value(id) # <<>>
  BY <1>1
<1>7. new = Converted(c, p).cards
  <2> DEFINE A(id) == [c.blocks[id].f EXCEPT !.properties =
                         IF Value(id) = <<>> THEN Without(@, {p}) ELSE Over(@, Only(p, Value(id)))]
             B(id) == [c.blocks[id].f EXCEPT !.properties = Over(@, Only(p, <<Option(id)>>))]
  <2>1. new = [id \in holders |-> A(id)]
    OBVIOUS
  <2>2. Converted(c, p).cards = [id \in holders |-> B(id)]
    BY DEF Converted
  <2>3. \A id : A(id) = B(id)
    <3> HIDE DEF Value, Option
    <3> QED BY <1>6
  <2> HIDE DEF A, B, new, holders
  <2> QED BY <2>1, <2>2, <2>3
<1> QED BY <1>3, <1>5, <1>7

\* A board with one property of each id, the values of its cards, and an id
\* left for the text of every card.
Convertible(c, E) ==
    /\ Templates(c) \in Seq(E) /\ OneOfEach(c)
    /\ \A t \in ToSet(Templates(c)) : {"type", "name", "options", "flags"} \subseteq DOMAIN t
    /\ \A id \in CardsOf(c) : "properties" \in DOMAIN c.blocks[id].f
    /\ IsFiniteSet(CardsOf(c)) /\ Cardinality(CardsOf(c)) <= Cardinality(GuidIds)

\* The templates a conversion sends.
LEMMA ConvertedList ==
    ASSUME NEW c, NEW E, NEW p, Shaped(c), Convertible(c, E)
    PROVE  LET s == Templates(c)
               to == Converted(c, p).templates
           IN  /\ DOMAIN to = DOMAIN s
               /\ IdList(to) = IdList(s)
               /\ \E G : to \in Seq(G) /\ s \in Seq(G)
               /\ \A i \in DOMAIN to : to[i].id = p =>
                    to[i].type = "multiSelect" /\ to[i].options = Converted(c, p).texts
<1> DEFINE s == Templates(c)
           n == Len(s)
           texts == Converted(c, p).texts
           New(t) == [t EXCEPT !.type = "multiSelect", !.name = "n", !.options = texts]
           x == Copied(c)
           to == Converted(c, p).templates
           G == E \cup {to[i] : i \in DOMAIN s}
<1>1. to = [i \in DOMAIN x |-> IF x[i].id = p THEN New(x[i]) ELSE x[i]]
  BY DEF Converted
<1>2. x = [j \in DOMAIN s |-> [s[j] EXCEPT !.flags = [k \in OptionalKeys |-> Flag(s[j], k)]]]
  BY DEF Copied, createBoard, Shaped, Templates
<1>3. n \in Nat /\ DOMAIN s = 1 .. n /\ s \in Seq(E)
  BY LenProperties DEF Convertible
<1>4. \A t : New(t).id = t.id
  OBVIOUS
<1>5. \A t : {"type", "options"} \subseteq DOMAIN t => New(t).type = "multiSelect" /\ New(t).options = texts
  OBVIOUS
<1>6. ASSUME NEW i \in DOMAIN s
      PROVE  /\ x[i].id = s[i].id /\ DOMAIN x[i] = DOMAIN s[i]
             /\ {"type", "options"} \subseteq DOMAIN s[i]
  <2>1. x[i] = [s[i] EXCEPT !.flags = [k \in OptionalKeys |-> Flag(s[i], k)]]
    BY <1>2
  <2>2. s[i] \in ToSet(s)
    BY DEF ToSet
  <2> QED BY <2>1, <2>2 DEF Convertible
<1>7. DOMAIN x = DOMAIN s
  BY <1>2
<1> HIDE DEF x, New, texts
<1>8. DOMAIN to = DOMAIN s
  BY <1>1, <1>7
<1>9. \A i \in DOMAIN s : to[i] = IF x[i].id = p THEN New(x[i]) ELSE x[i]
  BY <1>1, <1>7
<1>10. to = [i \in 1 .. n |-> to[i]]
  BY <1>1, <1>3, <1>7
<1> HIDE DEF to
<1>11. \A i \in DOMAIN s : to[i].id = s[i].id
  BY <1>4, <1>6, <1>9
<1>12. IdList(to) = IdList(s)
  BY <1>8, <1>11 DEF IdList
<1>13. to \in Seq(G) /\ s \in Seq(G)
  <2>1. \A i \in 1 .. n : to[i] \in G
    BY <1>3
  <2>2. E \subseteq G
    OBVIOUS
  <2> HIDE DEF G
  <2> QED BY <1>3, <1>10, <2>1, <2>2, Listed, WiderSeq
<1>14. ASSUME NEW i \in DOMAIN to, to[i].id = p
       PROVE  to[i].type = "multiSelect" /\ to[i].options = texts
  <2>1. to[i] = New(x[i]) /\ {"type", "options"} \subseteq DOMAIN x[i]
    BY <1>6, <1>8, <1>9, <1>11, <1>14
  <2> QED BY <1>5, <2>1
<1> QED BY <1>8, <1>12, <1>13, <1>14 DEF to, texts

\* The server then has the template that was sent.
LEMMA TemplateConverted ==
    ASSUME NEW c, NEW E, NEW p \in Ids(Templates(c)), Shaped(c), Convertible(c, E),
           Template(Templates(c), p).type # "multiSelect", NEW board,
           board = PatchBoard(createPatchesFromBoards(WithTemplates(c, Converted(c, p).templates), c.board)[1], c.board)
    PROVE  LET t == Template(board.cardProperties, p)
           IN  t.type = "multiSelect" /\ t.options = Converted(c, p).texts
<1> DEFINE s == Templates(c)
           to == Converted(c, p).templates
           texts == Converted(c, p).texts
           patch == CardPropertiesPatch(to, s)
           diff == Differing(to, s)
           sent == Sent(diff)
           r == PatchCardProperties(patch, s)
<1>1. /\ DOMAIN to = DOMAIN s /\ IdList(to) = IdList(s)
      /\ \A i \in DOMAIN to : to[i].id = p => to[i].type = "multiSelect" /\ to[i].options = texts
  BY ConvertedList
<1>2. PICK G : to \in Seq(G) /\ s \in Seq(G)
  BY ConvertedList
<1> HIDE DEF to, texts
<1>3. Ids(to) = Ids(s)
  BY <1>1, SameIdLists
<1>4. \A t \in ToSet(to) : t.id = p => t.type = "multiSelect" /\ t.options = texts
  BY <1>1 DEF ToSet
<1>5. patch.updated = diff
  BY <1>1 DEF CardPropertiesPatch
<1>6. diff \in Seq(G) /\ ToSet(diff) \subseteq ToSet(to) /\ \E t \in ToSet(diff) : t.id = p
  <2> DEFINE S == {t \in ToSet(to) : t.id \notin Ids(s) \/ ~isPropertyEqual(t, Template(s, t.id))}
  <2>1. diff = Filtered(to, S)
    BY DEF Differing
  <2>2. PICK t \in ToSet(to) : t.id = p
    BY <1>3, IdsAre
  <2>3. ~isPropertyEqual(t, Template(s, p))
    BY <1>4, <2>2 DEF isPropertyEqual
  <2>4. t \in S
    BY <2>2, <2>3
  <2> HIDE DEF S, diff
  <2>5. diff \in Seq(G) /\ ToSet(diff) = ToSet(to) \cap S
    BY <1>2, <2>1, FilteredSet
  <2> QED BY <2>2, <2>4, <2>5
<1> HIDE DEF diff
<1>7. /\ \A x : x \in ToSet(sent) <=> \E t \in ToSet(diff) : x = Stored(t)
      /\ Ids(sent) = Ids(diff)
  BY <1>6, SentList
<1>8. /\ Ids(r) = Ids(s)
      /\ \A x \in ToSet(r) : x \in ToSet(sent) \/ (x \in ToSet(s) /\ x.id \notin Ids(sent))
  BY <1>1, <1>2, SameIdsPatched DEF diff
<1> HIDE DEF r, sent
<1>9. p \in Ids(sent)
  BY <1>6, <1>7, IdsAre
<1>10. ASSUME NEW x \in ToSet(r), x.id = p PROVE x.type = "multiSelect" /\ x.options = texts
  <2>1. x \in ToSet(sent)
    BY <1>8, <1>9, <1>10
  <2>2. PICK t \in ToSet(diff) : x = Stored(t)
    BY <1>7, <2>1
  <2>3. x.id = t.id /\ x.type = t.type /\ x.options = t.options
    BY <2>2, StoredIs
  <2> QED BY <1>4, <1>6, <1>10, <2>3
<1>11. \E x \in ToSet(r) : x.id = p
  BY <1>8, IdsAre
<1>12. Template(r, p).type = "multiSelect" /\ Template(r, p).options = texts
  <2>1. Template(r, p) \in ToSet(r) /\ Template(r, p).id = p
    BY <1>11 DEF Template
  <2> QED BY <1>10, <2>1
<1>13. board.cardProperties = r
  <2> DEFINE new == WithTemplates(c, to)
             b == createPatchesFromBoards(new, c.board)[1]
  <2>1. new.cardProperties = to
    BY DEF WithTemplates, createBoard, Shaped
  <2>2. b.cardProperties = patch
    BY <2>1 DEF createPatchesFromBoards, createCardPropertiesPatches, BoardPatch, Templates
  <2>3. board = PatchBoard(b, c.board)
    BY DEF to
  <2> HIDE DEF b, new
  <2>4. diff # <<>>
    BY <1>6, NothingEmpty
  <2>5. board.cardProperties = PatchCardProperties(b.cardProperties, c.board.cardProperties)
    BY <1>5, <2>2, <2>3, <2>4 DEF PatchBoard
  <2> QED BY <2>2, <2>5 DEF r, Templates
<1> QED BY <1>12, <1>13 DEF texts

LEMMA ConversionShows ==
    ASSUME NEW c, NEW E, Shaped(c), Convertible(c, E), IsFiniteSet(GuidIds),
           NEW id \in CardsOf(c), NEW p \in Texts(c, id), NEW d,
           d = RedoOf(changePropertyTypeAndName(c, p, "multiSelect", "n", SetToSeq(GuidIds)), c)
    PROVE  Shown(d, id, p) = Shown(c, id, p)
<1> DEFINE s == Templates(c)
           new == Converted(c, p)
           holders == new.holders
           texts == new.texts
           cards == new.cards
           f == c.blocks[id].f
           old == f.properties
           text == First(c, id, p)
           option == texts[CHOOSE i \in DOMAIN texts : texts[i].value = text].id
           board == WithTemplates(c, new.templates)
<1>1. /\ p \in DOMAIN old /\ old[p] # <<>> /\ p \in Ids(s)
      /\ Template(s, p).type = "text"
  BY DEF Texts
<1>2. c.board.cardProperties[IndexOf(c, p)].type = "text"
  <2>1. \E i \in DOMAIN s : s[i].id = p
    BY <1>1 DEF Ids
  <2>2. IndexOf(c, p) \in DOMAIN s /\ s[IndexOf(c, p)].id = p
    BY <2>1 DEF IndexOf, Templates
  <2>3. s[IndexOf(c, p)] \in ToSet(s)
    BY <2>2 DEF ToSet
  <2>4. Template(s, p) \in ToSet(s) /\ Template(s, p).id = p
    BY <2>2, <2>3 DEF Template
  <2>5. Template(s, p) = s[IndexOf(c, p)]
    BY <2>2, <2>3, <2>4 DEF Convertible, OneOfEach
  <2> QED BY <1>1, <2>5 DEF Templates
<1> DEFINE Option(i) == texts[CHOOSE j \in DOMAIN texts : texts[j].value = First(c, i, p)].id
           Card(i) == [c.blocks[i].f EXCEPT !.properties = Over(@, Only(p, <<Option(i)>>))]
<1>a. holders = {i \in CardsOf(c) : /\ p \in DOMAIN c.blocks[i].f.properties
                                    /\ c.blocks[i].f.properties[p] # <<>>}
  BY DEF Converted
<1>b. texts = OptionsForTexts(c, holders, p, SetToSeq(GuidIds))
  BY DEF Converted
<1>c. cards = [i \in holders |-> Card(i)]
  <2> DEFINE held == {i \in CardsOf(c) : /\ p \in DOMAIN c.blocks[i].f.properties
                                       /\ c.blocks[i].f.properties[p] # <<>>}
             made == OptionsForTexts(c, held, p, SetToSeq(GuidIds))
             With(ts, i) == [c.blocks[i].f EXCEPT !.properties =
               Over(@, Only(p, <<ts[CHOOSE j \in DOMAIN ts : ts[j].value = First(c, i, p)].id>>))]
  <2>1. cards = [i \in held |-> With(made, i)]
    BY DEF Converted
  <2>2. held = holders /\ made = texts
    BY <1>a, <1>b
  <2>3. \A i : With(texts, i) = Card(i)
    OBVIOUS
  <2> HIDE DEF With, Card, held, made, holders, texts, cards
  <2> QED BY <2>1, <2>2, <2>3
<1>d. \A i : IsMap(Card(i))
  BY DEF IsMap
<1>e. Card(id) = [f EXCEPT !.properties = Over(@, Only(p, <<option>>))]
  OBVIOUS
<1>3. /\ DOMAIN cards = holders /\ \A i \in holders : IsMap(cards[i])
      /\ id \in holders =>
           cards[id] = [f EXCEPT !.properties = Over(@, Only(p, <<option>>))]
  <2> HIDE DEF cards, holders, Card, texts, option
  <2> QED BY <1>c, <1>d, <1>e
<1>4. id \in holders /\ holders \subseteq CardsOf(c)
  BY <1>1, <1>a
<1>5. changePropertyTypeAndName(c, p, "multiSelect", "n", SetToSeq(GuidIds)) = updateBoardAndBlocks(c, board, cards)
  <2>1. new.holders # {}
    BY <1>4
  <2> QED BY <1>2, <2>1, ConversionIs
<1> HIDE DEF cards, board, holders, texts, Card, Option
<1>6. /\ d.board = PatchBoard(createPatchesFromBoards(board, c.board)[1], c.board)
      /\ Becomes(c, d, cards)
  <2>1. \A i \in DOMAIN cards \cap Living(c) : IsMap(cards[i])
    BY <1>3
  <2>2. d = RedoOf(updateBoardAndBlocks(c, board, cards), c)
    BY <1>5
  <2> QED BY <2>1, <2>2, BoardAndBlocksDone
<1>7. Template(Templates(d), p).type = "multiSelect" /\ Template(Templates(d), p).options = texts
  <2>1. d.board = PatchBoard(createPatchesFromBoards(WithTemplates(c, Converted(c, p).templates), c.board)[1], c.board)
    BY <1>6 DEF board
  <2>2. p \in Ids(Templates(c)) /\ Template(Templates(c), p).type # "multiSelect"
    BY <1>1
  <2>3. /\ Template(d.board.cardProperties, p).type = "multiSelect"
        /\ Template(d.board.cardProperties, p).options = Converted(c, p).texts
    BY <2>1, <2>2, TemplateConverted
  <2> QED BY <2>3 DEF Templates, texts
<1>8. First(d, id, p) = option
  <2>1. id \in Living(c) /\ id \in DOMAIN c.blocks
    BY DEF CardsOf, Alive, Living
  <2>2. d.blocks[id].f = cards[id]
    BY <1>3, <1>4, <1>6, <2>1 DEF Becomes
  <2>3. "properties" \in DOMAIN f
    BY DEF Convertible
  <2> HIDE DEF option, f
  <2>4. cards[id].properties = Over(f.properties, Only(p, <<option>>))
    BY <1>3, <1>4, <2>3
  <2>5. Over(f.properties, Only(p, <<option>>))[p] = <<option>>
    BY DEF Over, Only
  <2> QED BY <2>2, <2>4, <2>5 DEF First
<1>9. /\ \A i \in holders : \E j \in DOMAIN texts : texts[j].value = First(c, i, p)
      /\ \A i, j \in DOMAIN texts : texts[i].id = texts[j].id => i = j
  <2>1. IsFiniteSet(CardsOf(c)) /\ Cardinality(CardsOf(c)) <= Cardinality(GuidIds)
    BY DEF Convertible
  <2> DEFINE made == OptionsForTexts(c, holders, p, SetToSeq(GuidIds))
  <2>2. /\ \A i \in holders : \E j \in DOMAIN made : made[j].value = First(c, i, p)
        /\ \A i, j \in DOMAIN made : made[i].id = made[j].id => i = j
    BY <1>4, <2>1, OptionsMade
  <2> QED BY <1>b, <2>2
<1>10. \E j \in DOMAIN texts : texts[j].value = text /\ texts[j].id = option
  <2>1. \E j \in DOMAIN texts : texts[j].value = text
    BY <1>4, <1>9
  <2> QED BY <2>1
<1> HIDE DEF option, text
<1>11. {o.value : o \in {o \in ToSet(texts) : o.id = option}} = {text}
  <2>1. ASSUME NEW o \in ToSet(texts), o.id = option PROVE o.value = text
    <3>1. PICK i \in DOMAIN texts : o = texts[i]
      BY DEF ToSet
    <3> QED BY <1>9, <1>10, <2>1, <3>1
  <2>2. \E o \in ToSet(texts) : o.id = option
    BY <1>10 DEF ToSet
  <2> QED BY <2>1, <2>2
<1>12. Shown(d, id, p) = {text}
  <2>1. "multiSelect" \in SelectTypes
    BY DEF SelectTypes
  <2> QED BY <1>7, <1>8, <1>11, <2>1 DEF Shown
<1>13. Shown(c, id, p) = {text}
  <2>1. "text" \notin SelectTypes
    BY DEF SelectTypes
  <2> QED BY <1>1, <2>1 DEF Shown, text
<1> QED BY <1>12, <1>13

\* Turning a text into a select changes nothing of what the cards show, on any
\* board and with any number of cards and texts, as long as the client has an
\* id for each (mutator.ts:1040).
THEOREM ConversionTextsHold ==
    ASSUME Closed, MutatorSession, NEW E, IsFiniteSet(GuidIds), \A c \in Contents : Convertible(c, E)
    PROVE  Spec => []ConversionKeepsTexts
<1>1. TypeOK => ConversionKeepsTexts
  <2> SUFFICES ASSUME TypeOK, NEW id \in CardsOf(content), NEW p \in Texts(content, id)
               PROVE  Shown(RedoOf(changePropertyTypeAndName(content, p, "multiSelect", "n", SetToSeq(GuidIds)), content), id, p)
                        = Shown(content, id, p)
    BY DEF ConversionKeepsTexts
  <2>1. content \in Contents /\ Shaped(content)
    BY DEF TypeOK, MutatorSession
  <2>2. Convertible(content, E)
    BY <2>1
  <2> QED BY <2>1, <2>2, ConversionShows
<1> QED BY <1>1, TypeCorrect, PTL

\* An effect on members, follows and the life of blocks makes no card, and
\* changes no form.
LEMMA OthersDone ==
    ASSUME NEW c, NEW k, Shaped(c), k.redo.board = <<>>, k.redo.patches = <<>>, k.redo.insert = <<>>,
           \A id \in DOMAIN k.redo.alive : ~k.redo.alive[id]
    PROVE  LET d == RedoOf(k, c)
           IN  /\ d.board = c.board /\ DOMAIN d.blocks = DOMAIN c.blocks
               /\ \A id \in DOMAIN c.blocks : d.blocks[id].f = c.blocks[id].f
               /\ CardsOf(d) \subseteq CardsOf(c)
<1> DEFINE e == k.redo
           d == Apply(e, c)
<1>1. /\ d.board = NowBoard(e, c) /\ DOMAIN d.blocks = DOMAIN c.blocks
      /\ \A id \in DOMAIN c.blocks : d.blocks[id] = After(e, id, c.blocks[id])
  BY ApplyPlain
<1> HIDE DEF d, e
<1>2. ASSUME NEW id \in DOMAIN c.blocks
      PROVE  /\ d.blocks[id].f = c.blocks[id].f /\ d.blocks[id].type = c.blocks[id].type
             /\ d.blocks[id].alive => c.blocks[id].alive
  <2> DEFINE b == c.blocks[id]
  <2>1. b = [type |-> b.type, alive |-> b.alive, f |-> b.f]
    BY DEF Shaped
  <2>2. DOMAIN e.patches = {}
    BY NothingThere DEF e
  <2>3. d.blocks[id] = IF id \in DOMAIN e.alive THEN [b EXCEPT !.alive = e.alive[id]] ELSE b
    BY <1>1, <2>2 DEF After
  <2> HIDE DEF b
  <2>4. CASE id \in DOMAIN e.alive
    <3>1. d.blocks[id] = [type |-> b.type, alive |-> e.alive[id], f |-> b.f] /\ ~e.alive[id]
      BY <2>1, <2>3, <2>4 DEF e
    <3> QED BY <3>1 DEF b
  <2>5. CASE id \notin DOMAIN e.alive
    BY <2>3, <2>5 DEF b
  <2> QED BY <2>4, <2>5
<1>3. d.board = c.board
  BY <1>1 DEF NowBoard, e
<1>4. CardsOf(d) \subseteq CardsOf(c)
  BY <1>1, <1>2 DEF CardsOf, Alive
<1> QED BY <1>1, <1>2, <1>3, <1>4 DEF RedoOf, d, e

\* Members, followers, and the life of a card or another board.
THEOREM OthersLeave ==
    ASSUME NEW c, NEW Props, Shaped(c), Formed(c, Props), NEW k,
           \/ \E user, new, old : k = SetMember(user, new, old)
           \/ \E id, new : k = SetFollow(id, new)
           \/ \E id : id # ViewId /\ k = deleteBlock(id)
    PROVE  LeavesValues(k, c) /\ Adds(k, c)
<1> DEFINE d == RedoOf(k, c)
<1>1. /\ k.redo.board = <<>> /\ k.redo.patches = <<>> /\ k.redo.insert = <<>>
      /\ \A id \in DOMAIN k.redo.alive : ~k.redo.alive[id]
  <2>1. ASSUME NEW user, NEW new, NEW old, k = SetMember(user, new, old)
        PROVE  /\ k.redo.board = <<>> /\ k.redo.patches = <<>> /\ k.redo.insert = <<>>
               /\ k.redo.alive = <<>>
    BY <2>1 DEF SetMember, Command, NoEffect
  <2>2. ASSUME NEW id, NEW new, k = SetFollow(id, new)
        PROVE  /\ k.redo.board = <<>> /\ k.redo.patches = <<>> /\ k.redo.insert = <<>>
               /\ k.redo.alive = <<>>
    BY <2>2 DEF SetFollow, Command, NoEffect
  <2>3. ASSUME NEW id, k = deleteBlock(id)
        PROVE  /\ k.redo.board = <<>> /\ k.redo.patches = <<>> /\ k.redo.insert = <<>>
               /\ k.redo.alive = Only(id, FALSE)
    BY <2>3 DEF deleteBlock, Command, NoEffect
  <2>4. \A id : \A i \in DOMAIN Only(id, FALSE) : ~Only(id, FALSE)[i]
    BY DEF Only
  <2> QED BY <2>1, <2>2, <2>3, <2>4, NothingThere
<1>2. /\ d.board = c.board /\ DOMAIN d.blocks = DOMAIN c.blocks
      /\ \A id \in DOMAIN c.blocks : d.blocks[id].f = c.blocks[id].f
      /\ CardsOf(d) \subseteq CardsOf(c)
  BY <1>1, OthersDone
<1> HIDE DEF d
<1>3. Templates(d) = Templates(c) /\ CardsOf(c) \subseteq DOMAIN c.blocks /\ ViewId \in DOMAIN c.blocks
  BY <1>2 DEF Templates, CardsOf, Alive, Formed, Living
<1>4. View(d) = View(c)
  BY <1>2, <1>3 DEF View
<1>5. ASSUME NEW v \in Used(d) PROVE v \in Used(c)
  <2>1. ASSUME NEW id \in CardsOf(d), v \in DOMAIN d.blocks[id].f.properties PROVE v \in Used(c)
    <3>1. id \in CardsOf(c) /\ v \in DOMAIN c.blocks[id].f.properties
      BY <1>2, <1>3, <2>1
    <3> QED BY <3>1, UsedIs
  <2> QED BY <1>4, <2>1, UsedIs
<1>6. LeavesValues(k, c)
  BY <1>2, <1>3 DEF LeavesValues, d
<1>7. Adds(k, c)
  BY <1>3, <1>5 DEF Adds, d
<1> QED BY <1>6, <1>7

\* Every command on a field of a block, or on fields of the view, leaves the
\* values of the cards alone, as long as it is not about those; the same goes
\* for the references, and for commands on the board's own fields.
THEOREM FieldsLeave ==
    ASSUME NEW c, NEW Values, NEW Props, Shaped(c), ValuesListed(c, Values), Formed(c, Props)
    PROVE  /\ \A new, old : \A id \in DOMAIN c.blocks : "properties" \notin DOMAIN new =>
                LeavesValues(PatchFields(id, new, old), c)
           /\ \A new, old : \A id \in DOMAIN c.blocks :
                DOMAIN new \cap (ListKeys \cup {"groupById", "properties"}) = {} =>
                  Adds(PatchFields(id, new, old), c)
           /\ \A key, value : LeavesValues(PatchBoardData(c, key, value), c) /\ Adds(PatchBoardData(c, key, value), c)
<1>1. ASSUME NEW new, NEW old, NEW id \in DOMAIN c.blocks, "properties" \notin DOMAIN new
      PROVE  LeavesValues(PatchFields(id, new, old), c)
  <2> DEFINE d == RedoOf(PatchFields(id, new, old), c)
             now == Over(c.blocks[id].f, new)
             one == Only(id, now)
  <2>1. d.board = c.board /\ Becomes(c, d, one)
    BY FieldsDone
  <2>2. DOMAIN one = {id} /\ one[id] = now
    BY OnlyIs
  <2>3. "properties" \in DOMAIN c.blocks[id].f => now["properties"] = c.blocks[id].f["properties"]
    BY <1>1 DEF Over
  <2> HIDE DEF d, now, one
  <2>4. CardsOf(d) = CardsOf(c) /\ CardsOf(c) \subseteq Living(c) /\ Living(c) \subseteq DOMAIN c.blocks
    BY <2>1, CardsStay DEF Living
  <2>5. ASSUME NEW i \in CardsOf(c) PROVE d.blocks[i].f.properties = c.blocks[i].f.properties
    <3>1. CASE i = id
      <4>1. d.blocks[i].f = now
        BY <2>1, <2>2, <2>4, <3>1 DEF Becomes
      <4>2. "properties" \in DOMAIN c.blocks[i].f
        BY DEF ValuesListed
      <4> QED BY <2>3, <3>1, <4>1, <4>2
    <3>2. CASE i # id
      BY <2>1, <2>2, <2>4, <3>2 DEF Becomes
    <3> QED BY <3>1, <3>2
  <2> QED BY <2>1, <2>4, <2>5 DEF LeavesValues, Templates, d
<1>2. ASSUME NEW new, NEW old, NEW id \in DOMAIN c.blocks,
             DOMAIN new \cap (ListKeys \cup {"groupById", "properties"}) = {}
      PROVE  Adds(PatchFields(id, new, old), c)
  <2> DEFINE k == PatchFields(id, new, old)
             f == c.blocks[id].f
             now == Over(f, new)
  <2>1. RedoOf(k, c).board = c.board /\ Becomes(c, RedoOf(k, c), Only(id, now))
    BY FieldsDone
  <2>2. \A key \in DOMAIN f \ DOMAIN new : now[key] = f[key]
    BY DEF Over
  <2> HIDE DEF k, now, f
  <2>3. ASSUME id = ViewId
        PROVE  /\ \A key \in ListKeys : ToSet(now[key]) \subseteq Used(c) \cup Ids(Templates(c))
               /\ now["groupById"] \in Used(c) \cup Ids(Templates(c)) \cup {""}
    <3>1. f = View(c)
      BY <2>3 DEF View, f
    <3>2. \A key \in ListKeys \cup {"groupById"} : now[key] = View(c)[key]
      BY <1>2, <2>2, <3>1 DEF Formed
    <3>3. \A key \in ListKeys : ToSet(View(c)[key]) \subseteq Used(c)
      BY UsedIs
    <3>4. View(c)["groupById"] \in Used(c) \cup {""}
      BY UsedIs
    <3> QED BY <3>2, <3>3, <3>4
  <2>4. ASSUME id \in CardsOf(c)
        PROVE  DOMAIN now.properties \subseteq Used(c) \cup Ids(Templates(c))
    <3>1. now["properties"] = f["properties"]
      BY <1>2, <2>2, <2>4 DEF Formed, f
    <3>2. DOMAIN f.properties \subseteq Used(c)
      BY <2>4, UsedIs DEF f
    <3> QED BY <3>1, <3>2
  <2>5. Adds(k, c)
    BY <2>1, <2>3, <2>4, BlockAdds
  <2> QED BY <2>5 DEF k
<1>3. ASSUME NEW key, NEW value
      PROVE  LeavesValues(PatchBoardData(c, key, value), c) /\ Adds(PatchBoardData(c, key, value), c)
  <2> DEFINE Patch(v) == [data |-> Only(key, v), updatedProperties |-> <<>>, deletedProperties |-> {},
                          cardProperties |-> [indexed |-> FALSE, updated |-> <<>>, deleted |-> {}]]
             pb == <<Patch(value)>>
             qb == <<Patch(c.board.data[key])>>
             u == BoardAndPatches(qb, <<>>)
             none == <<>>
             k == Command(BoardAndPatches(pb, none), u)
             d == RedoOf(k, c)
  <2>1. PatchBoardData(c, key, value) = k
    <3>1. PatchBoardData(c, key, value) = Command([NoEffect EXCEPT !.board = pb], [NoEffect EXCEPT !.board = qb])
      BY DEF PatchBoardData
    <3> HIDE DEF pb, qb
    <3> QED BY <3>1, EffectForms
  <2>2. PatchBoard(pb[1], c.board).cardProperties = c.board.cardProperties
    BY DEF PatchBoard
  <2>3. pb # <<>>
    OBVIOUS
  <2>4. DOMAIN none = {}
    BY NothingThere
  <2> HIDE DEF pb, u, none
  <2>5. d.board = NowBoard(BoardAndPatches(pb, none), c) /\ Becomes(c, d, none)
    BY <2>4, PatchesDone
  <2>6. NowBoard(BoardAndPatches(pb, none), c) = PatchBoard(pb[1], c.board)
    BY <2>3 DEF NowBoard, BoardAndPatches
  <2> HIDE DEF d, k
  <2>7. Templates(d) = Templates(c)
    BY <2>2, <2>5, <2>6 DEF Templates
  <2>8. CardsOf(d) = CardsOf(c) /\ CardsOf(c) \subseteq Living(c) /\ Living(c) \subseteq DOMAIN c.blocks
    BY <2>5, CardsStay DEF Living
  <2>9. \A id \in CardsOf(c) : d.blocks[id].f.properties = c.blocks[id].f.properties
    BY <2>4, <2>5, <2>8 DEF Becomes
  <2>10. LeavesValues(k, c)
    BY <2>7, <2>8, <2>9 DEF LeavesValues, d
  <2>11. Used(d) \subseteq Used(c)
    <3> DEFINE S == Used(c)
    <3>1. Used(c) \subseteq S
      OBVIOUS
    <3> HIDE DEF S
    <3>2. Used(d) \subseteq S
      BY <2>4, <2>5, <3>1, UsedAfter
    <3> QED BY <3>2 DEF S
  <2>12. Adds(k, c)
    BY <2>7, <2>11 DEF Adds, d
  <2> QED BY <2>1, <2>10, <2>12
<1> QED BY <1>1, <1>2, <1>3

=============================================================================
