----------------------------- MODULE MCCardViews -----------------------------
(* Boards of three cards: flat, with a sub-card, with a chain, and with a   *)
(* card whose parent was deleted; and the views they are opened in.         *)
EXTENDS CardViews

Card(parent, depth, title, at, status, who) ==
    [parent |-> parent, depth |-> depth, title |-> title, created |-> at, creator |-> "ann",
     props |-> [status |-> status, who |-> who]]

Board(cards) ==
    [stored |-> <<"b", "a", "c">>, cards |-> cards,
     types |-> [status |-> "select", who |-> "person"],
     options |-> [status |-> <<"todo", "done">>, who |-> <<>>]]

Flat == Board([a |-> Card("", 0, 2, 1, {"todo"}, {"ann"}),
               b |-> Card("", 0, 1, 2, {"todo"}, {}),
               c |-> Card("", 0, 0, 3, {}, {"ann"})])
Nested == Board([a |-> Card("", 0, 2, 1, {"todo"}, {"ann"}),
                 b |-> Card("a", 1, 1, 2, {"done"}, {}),
                 c |-> Card("", 0, 0, 3, {"done"}, {"ann"})])
Siblings == Board([a |-> Card("", 0, 1, 1, {"done"}, {}),
                   b |-> Card("a", 1, 0, 2, {}, {}),
                   c |-> Card("a", 1, 0, 3, {}, {"ann"})])
Orphan == Board([a |-> Card("gone", 1, 1, 1, {"todo"}, {}),
                 b |-> Card("a", 2, 2, 2, {"todo"}, {"ann"}),
                 c |-> Card("", 0, 3, 3, {"old"}, {})])

Clause(property, condition, values) == [property |-> property, condition |-> condition, values |-> values]
Both(filters) == [op |-> "and", filters |-> filters]
Either(filters) == [op |-> "or", filters |-> filters]

View(type, groupById, order, filter, sort) ==
    [viewType |-> type, groupById |-> groupById, cardOrder |-> order, filter |-> filter, sortOptions |-> sort,
     visibleOptionIds |-> <<>>, hiddenOptionIds |-> <<>>]

Full == <<"c", "a", "b">>
ByStatus == <<[property |-> "status", reversed |-> TRUE]>>
ByTitle == <<[property |-> "title", reversed |-> FALSE]>>
Mine == Both(<<Clause("who", "includes", <<"me">>)>>)
FreeAndTodo == Both(<<Clause("who", "isEmpty", <<>>), Clause("status", "includes", <<"todo">>)>>)
DoneOrMine == Either(<<Clause("status", "includes", <<"done">>), Mine>>)
NotDone == Both(<<Clause("status", "notIncludes", <<"done">>)>>)
HasStatus == Both(<<Clause("status", "isNotEmpty", <<>>)>>)

Start(b, v) == [board |-> b, view |-> v]

MCStarts ==
    { Start(b, View("table", "", Full, NoFilter, <<>>)) : b \in {Nested, Siblings, Orphan} } \cup
    { Start(b, View("table", "status", Full, NoFilter, <<>>)) : b \in {Flat, Orphan} } \cup
    { Start(b, View("board", "status", Full, NoFilter, <<>>)) : b \in {Flat, Siblings} } \cup
    { Start(Siblings, View("table", "", <<>>, NoFilter, <<>>)),
      Start(Nested, View("table", "", <<"b">>, DoneOrMine, ByStatus)),
      Start(Flat, View("table", "", Full, FreeAndTodo, <<>>)),
      Start(Nested, View("table", "who", Full, DoneOrMine, <<>>)),
      Start(Flat, View("board", "who", <<"a">>, NotDone, <<>>)),
      Start(Orphan, View("board", "status", <<>>, Mine, ByTitle)),
      Start(Flat, View("gallery", "", <<"b">>, NoFilter, <<>>)),
      Start(Orphan, View("gallery", "", Full, HasStatus, <<>>)) }

MCNewCards == <<"n", "m">>
MCTemplateProps == [status |-> {"done"}, who |-> {}]
MCNameRank(o) == CASE o = "todo" -> 1 [] o = "done" -> 2 [] o = "old" -> 0 [] OTHER -> 3
MCListEnd(c) == "end of " \o c
=============================================================================
