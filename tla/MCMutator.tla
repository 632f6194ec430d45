------------------------------ MODULE MCMutator ------------------------------
(***************************************************************************)
(* TLC instance: the undo manager at work on the real commands.  A session *)
(* starts on a small board: a table or a kanban, with a select, a text, or *)
(* organisation properties, one or two cards, one more member.             *)
(***************************************************************************)
EXTENDS Sessions, TLC

CONSTANTS Boards,        \* which of the boards below
          MissingFlags   \* a flag is also set on a template that lacks its key

Option(id) == NewOption(id, id)

T(id, type, options) ==
    [id |-> id, name |-> id, type |-> type, options |-> options,
     flags |-> IF MissingFlags THEN <<>> ELSE [k \in OptionalKeys |-> "off"]]

ViewOf(type, columns, groupBy, options) ==
    [title |-> "view", viewType |-> type, groupById |-> groupBy, dateDisplayPropertyId |-> "",
     sortOptions |-> columns, visiblePropertyIds |-> columns, filter |-> columns,
     visibleOptionIds |-> options, hiddenOptionIds |-> <<>>, collapsedOptionIds |-> <<>>,
     kanbanCalculations |-> <<>>, columnCalculations |-> <<>>, cardOrder |-> <<>>,
     defaultTemplateId |-> "", accessMode |-> "everyone"]

CardOf(properties) ==
    [type |-> "card", alive |-> TRUE,
     f |-> [title |-> "card", icon |-> "", contentOrder |-> <<>>, properties |-> properties,
            parentCardId |-> ""]]

Content(id, templates, settings, view, cards) ==
    [board |-> [data |-> [id |-> id, title |-> "board", icon |-> "", description |-> "", showDescription |-> FALSE],
                properties |-> settings, cardProperties |-> templates],
     blocks |-> (ViewId :> [type |-> "view", alive |-> TRUE, f |-> view]) @@ cards,
     members |-> "me" :> "admin",
     follows |-> {}]

Kanban ==
    Content("kanban", <<T("p1", "select", <<Option("o1"), Option("o2")>>), T("p2", "text", <<>>)>>, <<>>,
            ViewOf("board", <<"p1">>, "p1", <<"o1", "o2">>),
            "b1" :> CardOf("p1" :> <<"o1">> @@ "p2" :> <<"x">>))

Table ==
    Content("table", <<T("p1", "text", <<>>), [T("p2", "select", <<Option("o1")>>) EXCEPT !.name = "okr"]>>,
            "orgColors" :> ("d1" :> "red"),
            ViewOf("table", <<"p2", "p1">>, "", <<>>),
            "b1" :> CardOf("p1" :> <<"x">> @@ "p2" :> <<"o1">>) @@ "b2" :> CardOf("p1" :> <<"y">>))

Organisation ==
    Content("organisation", <<T("p1", "orgDivision", <<>>), T("p2", "orgDepartment", <<>>)>>, <<>>,
            ViewOf("table", <<"p1", "p2">>, "p1", <<>>),
            "b1" :> CardOf("p1" :> <<"div1">> @@ "p2" :> <<"dep1">>))

\* A board for what is not about its properties: a card and its sub-card.
Cards ==
    Content("cards", <<T("p1", "card", <<>>)>>, "orgColors" :> ("d1" :> "red"),
            ViewOf("gallery", <<"p1">>, "", <<>>),
            "b1" :> CardOf(<<>>) @@ "b2" :> [CardOf("p1" :> <<"x">>) EXCEPT !.f.parentCardId = "b1"])

\* The same boards, given other commands.
As(id, c) == [c EXCEPT !.board.data.id = id]

Departments == "dep1" :> "div1" @@ "dep2" :> "div2"

Start ==
    {c \in {Kanban, Table, Organisation, Cards, As("settings", Cards), As("view", Table)} :
       c.board.data.id \in Boards}

\* Bound: a session goes on while there are ids for what is under way.
RoomIn(c) == Cardinality(BlockIds \ DOMAIN c.blocks) > 5

Places(n) == {1, n}

OnCards(c) ==
    UNION {
      {deleteBlock(id), duplicateCard(c, id, <<>>), createSubCard(c, id, CardOf(<<>>)),
       changeBlockTitle(c, id, "t"), changeCardContentOrder(c, id, <<"t1">>)}
      \cup {linkCardAsSubCard(c, id, other) :
              other \in {o \in CardsOf(c) \ {id} : c.blocks[id].f.parentCardId = ""
                                                   /\ c.blocks[o].f.parentCardId # id}}
      \cup (IF c.blocks[id].f.parentCardId = "" THEN {} ELSE {unlinkSubCard(c, id)})
      : id \in {"b1", "b2"} \cap CardsOf(c)}
    \cup {insertBlock(CardOf(<<>>)),
          createBoardsAndBlocks(<<[CardOf(<<>>) EXCEPT !.type = "board"],
                                  [CardOf(<<>>) EXCEPT !.type = "otherView"]>>)}
    \cup UNION {{duplicateBoard(c, id), deleteBoard(id)} : id \in Alive(c, "board")}

OnBoard(c) ==
    {changeBoardTitle(c, "t"), changeBoardDescription(c, "t"), showBoardDescription(c, TRUE),
     setCardPropertiesAdminOnly(c, TRUE),
     changeOrgUnitColor(c, "d2", "blue"), clearOrgUnitColor(c, "d1"),
     duplicatePropertyTemplate(c, "p1"), changePropertyOrgScoped(c, "p1", "on"),
     updatePropertyTemplateDefaultBoardId(c, "p1", "b")}
    \cup {createBoardMember(u, "editor") : u \in {"you"} \ DOMAIN c.members}
    \cup UNION {{updateBoardMember(c, u, "viewer"), deleteBoardMember(c, u)} : u \in DOMAIN c.members}
    \cup {IF "b1" \in c.follows THEN unfollowBlock("b1") ELSE followBlock("b1")}

OnTemplates(c) ==
    {insertPropertyTemplate(c, at) : at \in Places(Len(Templates(c)) + 1)}
    \cup {IF "okrBoard" \in DOMAIN c.board.properties THEN disableOkrBoard(c)
          ELSE enableOkrBoard(c, <<"g1", "g2", "g3", "g4">>)}
    \cup {changePropertyTemplateOrder(c, Templates(c)[i].id, 1) : i \in {Len(Templates(c))} \ {0}}
    \cup UNION {
      {deleteProperty(c, t.id)}
      \cup {changePropertyTypeAndName(c, t.id, type, "n", <<"g1", "g2">>) :
              type \in IF t.type \in SelectTypes THEN {"multiSelect", "person"} ELSE {"select"}}
      \cup (IF MissingFlags \/ (t.id = "p1" /\ DOMAIN t.flags = OptionalKeys)
            THEN {changePropertyRequired(c, t.id, "on")} ELSE {})
      : t \in ToSet(Templates(c))}

OnOptions(c) ==
    UNION {
      {insertPropertyOption(c, t.id)}
      \cup UNION {{deletePropertyOption(c, t.id, o), changePropertyOptionOrder(c, t.id, o, 1)}
                  : o \in {"o2"} \cap Ids(t.options)}
      \cup UNION {{changePropertyOptionValue(c, t.id, o, "t"), changePropertyOptionColor(c, t.id, o, "red")}
                  : o \in {"o1"} \cap Ids(t.options)}
      : t \in {t \in ToSet(Templates(c)) : t.type \in SelectTypes}}

OnValues(c) ==
    UNION {
      {changePropertyValue(c, id, t.id, <<>>)}
      \cup {changePropertyValue(c, id, t.id, <<v>>) :
              v \in IF t.type = "orgDivision" THEN {"div1", "div2"}
                    ELSE IF t.type = "orgDepartment" THEN allowedDepartments(
                           selectedUnitIds(c, c.blocks[id].f.properties, "orgDivision"))
                    ELSE IF t.type \in SelectTypes THEN Ids(t.options) ELSE {"x"}}
      : <<id, t>> \in CardsOf(c) \X ToSet(Templates(c))}

OnColumns(c) ==
    LET visible == View(c).visibleOptionIds
        hidden == View(c).hiddenOptionIds
    IN  {changeViewGroupById(c, t.id) : t \in ToSet(Templates(c))}
        \cup {changeViewVisibleOptionIds(c, Moved(visible, i, 1)) : i \in {2} \cap DOMAIN visible}
        \cup {changeViewHiddenOptionIds(c, Moved(hidden, i, 1)) : i \in {2} \cap DOMAIN hidden}
        \cup {hideViewColumn(c, visible[i]) : i \in DOMAIN visible}
        \cup {unhideViewColumn(c, hidden[i]) : i \in DOMAIN hidden}
        \cup (IF visible = <<>> THEN {} ELSE {hideViewColumns(c, visible)})
        \cup (IF hidden = <<>> THEN {} ELSE {unhideViewColumns(c, hidden)})

OnView(c) ==
    {changeViewAccessMode(c, "private"), changeViewDateDisplayPropertyId(c, "p1"),
     changeViewVisibleProperties(c, <<>>), changeViewKanbanCalculations(c, <<"k">>),
     changeViewColumnCalculations(c, <<"k">>), changeViewCardOrder(c, <<"b1">>),
     setDefaultTemplate(c, "b1"), clearDefaultTemplate(c),
     changeViewSortOptions(c, <<"p2">>), changeViewFilter(c, <<"p2">>),
     changeBlockIcon(c, "b1", "i"), changeBoardIcon(c, "i")}
    \cup {changeViewVisiblePropertiesOrder(c, p, 1) : p \in ToSet(View(c).visiblePropertyIds)}

\* The commands of a session are those its board is about.
MutatorOffered(c) ==
    CASE c.board.data.id = "kanban" -> OnColumns(c) \cup OnOptions(c) \cup {deleteProperty(c, t) : t \in {"p1"} \cap Ids(Templates(c))}
      [] c.board.data.id = "table" -> OnTemplates(c)
      [] c.board.data.id = "organisation" -> OnValues(c)
      [] c.board.data.id = "cards" -> OnCards(c)
      [] c.board.data.id = "settings" -> OnBoard(c)
      [] c.board.data.id = "view" -> OnView(c)

=============================================================================
