----------------------------- MODULE UndoManager -----------------------------
(***************************************************************************)
(* undomanager.ts and the undo groups of mutator.ts: the stack of commands *)
(* behind every change a user of the web client makes.                     *)
(*                                                                         *)
(* What a command does is left to the operators below; Mutator.tla has     *)
(* them for the real commands.  A command is a request to the server: it   *)
(* is sent, reaches the server, and its answer comes back later, and       *)
(* nothing keeps the user from starting another command, or from pressing  *)
(* undo, in the meantime.  The steps of the event loop are the actions: an *)
(* answer and the synchronous code that follows it are one step.           *)
(* content is what the server stores; the client computes a command from   *)
(* it at the time the user acts (how a client lags behind is the subject   *)
(* of ClientSync.tla).  index counts from 0 here, not from -1.             *)
(***************************************************************************)
EXTENDS Integers, FiniteSets, Sequences

CONSTANTS Contents,        \* what the server may store
          Commands,
          Initial,         \* the contents a session starts with
          Offered(_),      \* the commands the user may give on a content
          Redo(_, _),      \* the content after a command
          Recorded(_, _),  \* the command with the value its redo returned
          Undo(_, _),
          Visible(_),      \* what a user can see of a content
          Repeatable(_),   \* a second redo makes what the first one made
          Room(_),         \* bound: the content has room for more
          MaxCommands,     \* bound: commands given in a session
          MaxOpen,         \* bound: commands in flight at a time
          MaxGroups,       \* bound: undo groups opened in a session
          Failures         \* which calls may fail: "perform", "run"

ASSUME UndoAssumption ==
    /\ MaxCommands \in Nat /\ MaxOpen \in Nat /\ MaxGroups \in Nat
    /\ Failures \subseteq {"perform", "run"}

VARIABLES content,
          commands,     \* the stack: [cmd, group, id]
          index,        \* how many of them are done
          isExecuting,
          run,          \* the undo or redo under way, and where its call is
          performing,   \* the commands whose answer is awaited
          group,        \* undoGroupId
          opened,       \* undo groups opened so far
          given,        \* commands given so far, also the source of their ids
          \* What the properties compare with:
          shots,        \* shots[i + 1]: what was visible after i commands
          inEffect,     \* ids of the commands whose redo was the last to reach
          alone         \* no two calls were ever in flight together

stack == <<commands, index, shots>>
vars == <<content, commands, index, isExecuting, run, performing, group, opened,
          given, shots, inEffect, alone>>

NoGroup == 0
NoRun == [dir |-> "none", at |-> "none"]
Runs == {NoRun} \cup [dir : {"undo", "redo"}, at : {"sent", "reached", "failed"}]

Entries == [cmd : Commands, group : 0 .. MaxGroups, id : 1 .. MaxCommands]
Sights == {Visible(c) : c \in Contents}
Calls == [cmd : Commands, group : 0 .. MaxGroups, id : 1 .. MaxCommands,
          at : {"sent", "reached"}]

\* Nothing the user started is still under way.
Idle == performing = {} /\ run = NoRun

TypeOK ==
    /\ content \in Contents
    /\ commands \in Seq(Entries)
    /\ index \in 0 .. Len(commands)
    /\ isExecuting \in BOOLEAN
    /\ run \in Runs
    /\ performing \in SUBSET Calls
    /\ group \in 0 .. MaxGroups
    /\ opened \in 0 .. MaxGroups
    /\ given \in 0 .. MaxCommands
    /\ shots \in Seq(Sights)
    /\ Len(shots) = Len(commands) + 1
    /\ inEffect \subseteq 1 .. MaxCommands
    /\ alone \in BOOLEAN

Init ==
    /\ content \in Initial
    /\ commands = <<>>
    /\ index = 0
    /\ isExecuting = FALSE
    /\ run = NoRun
    /\ performing = {}
    /\ group = NoGroup
    /\ opened = 0
    /\ given = 0
    /\ shots = <<Visible(content)>>
    /\ inEffect = {}
    /\ alone = TRUE

-----------------------------------------------------------------------------
(* Undo groups: performAsUndoGroup.  A group that is opened inside another *)
(* is refused, and its commands belong to the outer one.                   *)

BeginGroup ==
    /\ group = NoGroup
    /\ opened < MaxGroups
    /\ opened' = opened + 1
    /\ group' = opened + 1
    /\ alone' = (alone /\ Idle)
    /\ UNCHANGED <<content, commands, index, isExecuting, run, performing, given, shots, inEffect>>

\* The group ends when its callback has awaited its commands.
EndGroup ==
    /\ group # NoGroup
    /\ \A p \in performing : p.group # group
    /\ group' = NoGroup
    /\ UNCHANGED <<content, commands, index, isExecuting, run, performing, opened, given,
                   shots, inEffect, alone>>

-----------------------------------------------------------------------------
(* perform and registerUndo.                                               *)

\* A command the user gives: k is one of those offered.
Perform(k) ==
    /\ given < MaxCommands
    /\ Cardinality(performing) < MaxOpen
    /\ Room(content)
    /\ given' = given + 1
    /\ performing' = performing \cup {[cmd |-> k, group |-> group, id |-> given + 1, at |-> "sent"]}
    /\ alone' = (alone /\ Idle)
    /\ UNCHANGED <<content, commands, index, isExecuting, run, group, opened, shots, inEffect>>

\* The redo of the command reaches the server; its answer is on its way.
PerformReaches(p) ==
    /\ p.at = "sent"
    /\ content' = Redo(p.cmd, content)
    /\ performing' = (performing \ {p}) \cup
                       {[p EXCEPT !.cmd = Recorded(p.cmd, content), !.at = "reached"]}
    /\ inEffect' = inEffect \cup {p.id}
    /\ UNCHANGED <<commands, index, isExecuting, run, group, opened, given, shots, alone>>

\* Mutant of Registered: what was undone stays above the new command.
RegisteredOnTop(p) ==
    /\ commands' = Append(commands, [cmd |-> p.cmd, group |-> p.group, id |-> p.id])
    /\ index' = Len(commands')
    /\ shots' = Append(shots, Visible(content))

\* registerUndo: the commands that were undone are dropped, the new one is
\* pushed.
Registered(p) ==
    /\ commands' = Append(SubSeq(commands, 1, index),
                          [cmd |-> p.cmd, group |-> p.group, id |-> p.id])
    /\ index' = index + 1
    /\ shots' = Append(SubSeq(shots, 1, index + 1), Visible(content))

\* The answer: nothing is registered while an undo or a redo is under way.
PerformEnds(p) ==
    /\ p.at = "reached"
    /\ performing' = performing \ {p}
    /\ IF isExecuting THEN UNCHANGED stack ELSE Registered(p)
    /\ UNCHANGED <<content, isExecuting, run, group, opened, given, inEffect, alone>>

\* The call throws, before it reached the server or after: nothing is
\* registered.
PerformFails(p) ==
    /\ "perform" \in Failures
    /\ performing' = performing \ {p}
    /\ alone' = (alone /\ p.at = "sent")
    /\ UNCHANGED <<content, commands, index, isExecuting, run, group, opened, given,
                   shots, inEffect>>

-----------------------------------------------------------------------------
(* undo and redo, from the hot keys.                                       *)

\* The command an undo or a redo is about.
Target(dir) == IF dir = "undo" THEN index ELSE index + 1

\* execute: the call goes out with isExecuting set.
Execute(dir) == /\ isExecuting' = TRUE
                /\ run' = [dir |-> dir, at |-> "sent"]

Press(dir) ==
    /\ ~isExecuting
    /\ Target(dir) \in DOMAIN commands
    /\ dir = "redo" => Room(content)
    /\ Execute(dir)
    /\ alone' = (alone /\ Idle /\ group = NoGroup)
    /\ UNCHANGED <<content, commands, index, performing, group, opened, given, shots, inEffect>>

RunReaches ==
    /\ run.at = "sent"
    /\ run' = [run EXCEPT !.at = "reached"]
    /\ LET i == Target(run.dir)
           e == commands[i]
       IN  IF run.dir = "undo"
           THEN /\ content' = Undo(e.cmd, content)
                /\ inEffect' = inEffect \ {e.id}
                /\ UNCHANGED <<commands, alone>>
           ELSE /\ content' = Redo(e.cmd, content)
                /\ inEffect' = inEffect \cup {e.id}
                /\ commands' = [commands EXCEPT ![i].cmd = Recorded(@, content)]
                /\ alone' = (alone /\ Repeatable(e.cmd))
    /\ UNCHANGED <<index, isExecuting, performing, group, opened, given, shots>>

\* Mutant of SameGroup: the loop stops after one command.
NeverSameGroup(i, g) == FALSE

\* The condition of the loops over a group: the next command is of it too.
SameGroup(i, g) == /\ g # NoGroup
                   /\ i \in DOMAIN commands
                   /\ commands[i].group = g

\* The answer: index moves, and the loop goes on or the run is over.
RunEnds ==
    /\ run.at = "reached"
    /\ LET i == Target(run.dir)
           next == IF run.dir = "undo" THEN i - 1 ELSE i + 1
       IN  /\ index' = IF run.dir = "undo" THEN i - 1 ELSE i
           /\ IF SameGroup(next, commands[i].group)
              THEN Execute(run.dir)
              ELSE isExecuting' = FALSE /\ run' = NoRun
    /\ UNCHANGED <<content, commands, performing, group, opened, given, shots, inEffect, alone>>

\* The call of execute throws: isExecuting stays set, for good.
RunFails ==
    /\ "run" \in Failures
    /\ run.at \in {"sent", "reached"}
    /\ run' = [run EXCEPT !.at = "failed"]
    /\ UNCHANGED <<content, commands, index, isExecuting, performing, group, opened, given,
                   shots, inEffect, alone>>

-----------------------------------------------------------------------------

Next ==
    \/ BeginGroup
    \/ EndGroup
    \/ /\ given < MaxCommands /\ Cardinality(performing) < MaxOpen
       /\ \E k \in Offered(content) : Perform(k)
    \/ \E p \in performing : PerformReaches(p) \/ PerformEnds(p) \/ PerformFails(p)
    \/ Press("undo")
    \/ Press("redo")
    \/ RunReaches
    \/ RunEnds
    \/ RunFails

Spec == Init /\ [][Next]_vars

-----------------------------------------------------------------------------
(* Properties.                                                             *)

\* Undo and redo take the user back to what was there: after any number of
\* commands, undos and redos, one call at a time, what is visible is what was
\* visible when as many commands had been done (undomanager.ts:118, 148).
BackWhereItWas ==
    alone /\ Idle => Visible(content) = shots[index + 1]

\* However calls overlap and fail, the stack knows what is in force: a command
\* below the index is in effect, one above it is not.  The one that an undo or
\* a redo is at work on is between the two (undomanager.ts:79, 130, 160).
StackTellsEffect ==
    \A i \in DOMAIN commands :
        \/ run # NoRun /\ i = Target(run.dir)
        \/ commands[i].id \in inEffect <=> i <= index

\* Undo and redo leave no group half done: of the commands of a group all are
\* below the index or none is (undomanager.ts:128, 158; mutator.ts:96).
GroupsWhole ==
    alone /\ Idle /\ group = NoGroup =>
        \A i, j \in DOMAIN commands :
            commands[i].group = commands[j].group /\ commands[i].group # NoGroup
                => (i <= index <=> j <= index)

=============================================================================
