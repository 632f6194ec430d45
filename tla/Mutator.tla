------------------------------- MODULE Mutator -------------------------------
(***************************************************************************)
(* mutator.ts: the commands behind every change a user makes in the web    *)
(* client, as they are handed to the undo manager.                         *)
(*                                                                         *)
(* An operator named after a method of Mutator takes what the server       *)
(* stores and the arguments of the method, and is the command              *)
(*   [redo, undo : effects, made : ids the server gave to what redo made]. *)
(* An effect is what the calls of the redo (or undo) closure tell the      *)
(* server to do.  What the store of the client does is ClientSync.tla's.   *)
(*                                                                         *)
(* A content is                                                            *)
(*   [board   : the open board (see BoardPatches.tla),                     *)
(*    blocks  : ids to [type, alive, f], other boards among them,          *)
(*    members : user ids to roles,                                         *)
(*    follows : the cards the user follows].                               *)
(* A property value of a card is the sequence of its values, of length one *)
(* when the type of the property holds a single value.                     *)
(***************************************************************************)
EXTENDS BoardPatches

CONSTANTS BlockIds,      \* ids the server may give to a block
          GuidIds,       \* ids the client may give to a property or an option
          DivisionOf,    \* the organisation master: department -> division
          ViewId

NoEffect == [board   |-> <<>>,    \* a board patch, or none
             patches |-> <<>>,    \* block id -> block patch
             insert  |-> <<>>,    \* blocks to insert
             alive   |-> <<>>,    \* block id -> FALSE to delete, TRUE to undelete
             members |-> <<>>,    \* user id -> role, or "none"
             follows |-> <<>>]    \* card id -> BOOLEAN

Command(redo, undo) == [redo |-> redo, undo |-> undo, made |-> <<>>]

-----------------------------------------------------------------------------
(* What the server does with an effect.                                    *)

\* Every inserted block gets a new id, whatever id it came with.
NewIds(new, blocks) ==
    CHOOSE ids \in [DOMAIN new -> BlockIds \ DOMAIN blocks] :
      \A i, j \in DOMAIN new : ids[i] = ids[j] => i = j

InsertAll(new, blocks) ==
    LET ids == NewIds(new, blocks)
    IN  Over(blocks, [id \in ToSet(ids) |-> new[CHOOSE i \in DOMAIN ids : ids[i] = id]])

\* A deleted block is patched by nobody.
PatchBlocks(patches, blocks) ==
    [id \in DOMAIN blocks |->
       IF id \in DOMAIN patches /\ blocks[id].alive
       THEN [blocks[id] EXCEPT !.f = PatchBlock(patches[id], @)]
       ELSE blocks[id]]

Apply(e, c) ==
    LET patched == PatchBlocks(e.patches, c.blocks)
        lived == [id \in DOMAIN patched |->
                    IF id \in DOMAIN e.alive THEN [patched[id] EXCEPT !.alive = e.alive[id]]
                                             ELSE patched[id]]
        users == Over(c.members, e.members)
    IN  [board   |-> IF e.board = <<>> THEN c.board ELSE PatchBoard(e.board[1], c.board),
         blocks  |-> InsertAll(e.insert, lived),
         members |-> [u \in {u \in DOMAIN users : users[u] # "none"} |-> users[u]],
         follows |-> {b \in c.follows : b \notin DOMAIN e.follows \/ e.follows[b]}
                     \cup {b \in DOMAIN e.follows : e.follows[b]}]

RedoOf(k, c) == Apply(k.redo, c)

\* The redo closure of an insert returns the blocks it made.
RecordedOf(k, c) ==
    IF k.redo.insert = <<>> THEN k
    ELSE [k EXCEPT !.made = NewIds(k.redo.insert, c.blocks)]

\* The undo closure of an insert deletes what the redo returned.
UndoOf(k, c) ==
    LET made == [id \in ToSet(k.made) |-> FALSE]
    IN  Apply([k.undo EXCEPT !.alive = Over(@, made)], c)

RepeatableBy(k) == k.redo.insert = <<>>

\* What users see: the blocks that are not deleted.
VisibleIn(c) ==
    [c EXCEPT !.blocks = [id \in {id \in DOMAIN @ : @[id].alive} |-> @[id]]]

-----------------------------------------------------------------------------
(* Shapes of commands.                                                     *)

\* A patch of some fields to given values, undone by the old values.
PatchFields(id, new, old) ==
    Command([NoEffect EXCEPT !.patches = Only(id, [updatedFields |-> new, deletedFields |-> {}])],
            [NoEffect EXCEPT !.patches = Only(id, [updatedFields |-> old, deletedFields |-> {}])])

PatchField(c, id, key, value) ==
    PatchFields(id, Only(key, value), Only(key, c.blocks[id].f[key]))

PatchBoardData(c, key, value) ==
    LET Patch(v) == [data |-> Only(key, v), updatedProperties |-> <<>>, deletedProperties |-> {},
                     cardProperties |-> [indexed |-> FALSE, updated |-> <<>>, deleted |-> {}]]
    IN  Command([NoEffect EXCEPT !.board = <<Patch(value)>>],
                [NoEffect EXCEPT !.board = <<Patch(c.board.data[key])>>])

\* createCard and createBoardView copy every array and map of the block.
CopiedKeys == {"properties", "contentOrder", "sortOptions", "visiblePropertyIds",
               "visibleOptionIds", "hiddenOptionIds", "filter", "cardOrder"}

BlockPatches(c, new) ==
    [id \in DOMAIN new |-> createPatchesFromBlocks(new[id], c.blocks[id].f, CopiedKeys)]

updateBlock(c, id, new) ==
    LET p == createPatchesFromBlocks(new, c.blocks[id].f, CopiedKeys)
    IN  Command([NoEffect EXCEPT !.patches = Only(id, p[1])],
                [NoEffect EXCEPT !.patches = Only(id, p[2])])

updateBoard(c, board) ==
    LET p == createPatchesFromBoards(board, c.board)
    IN  Command([NoEffect EXCEPT !.board = <<p[1]>>],
                [NoEffect EXCEPT !.board = <<p[2]>>])

\* createPatchesFromBoardsAndBlocks and the two calls of patchBoardsAndBlocks.
updateBoardAndBlocks(c, board, new) ==
    LET p == createPatchesFromBoards(board, c.board)
        q == BlockPatches(c, new)
    IN  Command([NoEffect EXCEPT !.board = <<p[1]>>, !.patches = [id \in DOMAIN new |-> q[id][1]]],
                [NoEffect EXCEPT !.board = <<p[2]>>, !.patches = [id \in DOMAIN new |-> q[id][2]]])

insertBlocks(new) == Command([NoEffect EXCEPT !.insert = new], NoEffect)

deleteBlock(id) ==
    Command([NoEffect EXCEPT !.alive = Only(id, FALSE)], [NoEffect EXCEPT !.alive = Only(id, TRUE)])

updateBoardCardProperties(c, templates) ==
    LET p == createCardPropertiesPatches(templates, c.board.cardProperties)
        Patch(q) == [data |-> <<>>, updatedProperties |-> <<>>, deletedProperties |-> {},
                     cardProperties |-> q]
    IN  Command([NoEffect EXCEPT !.board = <<Patch(p[1])>>],
                [NoEffect EXCEPT !.board = <<Patch(p[2])>>])

-----------------------------------------------------------------------------
(* Titles, icons, descriptions, templates, contents.                       *)

changeBlockTitle(c, id, title) == PatchField(c, id, "title", title)
changeBoardTitle(c, title) == PatchBoardData(c, "title", title)
setDefaultTemplate(c, id) == PatchField(c, ViewId, "defaultTemplateId", id)
clearDefaultTemplate(c) == PatchField(c, ViewId, "defaultTemplateId", "")
changeBoardIcon(c, icon) == PatchBoardData(c, "icon", icon)
changeBlockIcon(c, id, icon) == PatchField(c, id, "icon", icon)
changeBoardDescription(c, text) == PatchBoardData(c, "description", text)
showBoardDescription(c, show) == PatchBoardData(c, "showDescription", show)
changeCardContentOrder(c, id, order) == PatchField(c, id, "contentOrder", order)

insertBlock(block) == insertBlocks(<<block>>)
createBoardsAndBlocks(bab) == insertBlocks(bab)
deleteBoard(id) == deleteBlock(id)

Alive(c, type) == {id \in DOMAIN c.blocks : c.blocks[id].alive /\ c.blocks[id].type = type}
CardsOf(c) == Alive(c, "card")
View(c) == c.blocks[ViewId].f

\* The server copies the card; a patch then sets what the copy is called and
\* the properties the caller overrides.
duplicateCard(c, id, overrides) ==
    insertBlocks(<<[type |-> "card", alive |-> TRUE,
                    f |-> [c.blocks[id].f EXCEPT !.title = "copy", !.properties = Over(@, overrides)]]>>)

duplicateBoard(c, id) == insertBlocks(<<c.blocks[id]>>)

createSubCard(c, parent, block) ==
    insertBlocks(<<[block EXCEPT !.f.parentCardId = parent]>>)

linkCardAsSubCard(c, id, parent) ==
    PatchFields(id, Only("parentCardId", parent), Only("parentCardId", ""))
unlinkSubCard(c, id) ==
    PatchFields(id, Only("parentCardId", ""), Only("parentCardId", c.blocks[id].f.parentCardId))

-----------------------------------------------------------------------------
(* Members and followers.                                                  *)

SetMember(user, new, old) ==
    Command([NoEffect EXCEPT !.members = Only(user, new)], [NoEffect EXCEPT !.members = Only(user, old)])

createBoardMember(user, role) == SetMember(user, role, "none")
updateBoardMember(c, user, role) == SetMember(user, role, c.members[user])
deleteBoardMember(c, user) == SetMember(user, "none", c.members[user])

SetFollow(id, new) ==
    Command([NoEffect EXCEPT !.follows = Only(id, new)], [NoEffect EXCEPT !.follows = Only(id, ~new)])

followBlock(id) == SetFollow(id, TRUE)
unfollowBlock(id) == SetFollow(id, FALSE)

-----------------------------------------------------------------------------
(* Property templates of the board.                                        *)

NewTemplate(id, type, options) ==
    [id |-> id, name |-> "new", type |-> type, options |-> options, flags |-> <<>>]

NewOption(id, value) == [id |-> id, value |-> value, color |-> "default"]

\* A copy of the board with its templates replaced.
WithTemplates(c, templates) == [createBoard(c.board) EXCEPT !.cardProperties = templates]

Copied(c) == createBoard(c.board).cardProperties

IndexOf(c, p) == CHOOSE i \in DOMAIN c.board.cardProperties : c.board.cardProperties[i].id = p

\* The copied templates with the one of id p changed.
Changing(c, p, New(_)) ==
    [i \in DOMAIN Copied(c) |-> IF Copied(c)[i].id = p THEN New(Copied(c)[i]) ELSE Copied(c)[i]]

Guid(c) ==
    CHOOSE id \in GuidIds :
      /\ id \notin Ids(c.board.cardProperties)
      /\ \A t \in ToSet(c.board.cardProperties) : id \notin Ids(t.options)

\* In a table the new property is also a column of the view; as the first
\* property it becomes the last column.
insertPropertyTemplate(c, at) ==
    LET template == NewTemplate(Guid(c), "text", <<>>)
        board == WithTemplates(c, InsertAt(Copied(c), at, template))
        columns == View(c).visiblePropertyIds
        column == IF at > 1 /\ at <= Len(columns) THEN at ELSE Len(columns) + 1
    IN  IF View(c).viewType = "table"
        THEN updateBoardAndBlocks(c, board, Only(ViewId,
               [View(c) EXCEPT !.visiblePropertyIds = InsertAt(@, column, template.id)]))
        ELSE updateBoard(c, board)

duplicatePropertyTemplate(c, p) ==
    LET source == Copied(c)[IndexOf(c, p)]
        template == [NewTemplate(Guid(c), source.type, source.options) EXCEPT
                       !.flags = Only("required", Flag(source, "required"))]
        board == WithTemplates(c, InsertAt(Copied(c), IndexOf(c, p) + 1, template))
    IN  IF View(c).viewType = "table"
        THEN updateBoardAndBlocks(c, board, Only(ViewId,
               [View(c) EXCEPT !.visiblePropertyIds = Append(@, template.id)]))
        ELSE updateBoard(c, board)

\* newValue.splice(dest, 0, newValue.splice(src, 1)[0])
Moved(seq, src, dest) == InsertAt(RemoveAt(seq, src), dest, seq[src])

changePropertyTemplateOrder(c, p, dest) ==
    updateBoard(c, WithTemplates(c, Moved(Copied(c), IndexOf(c, p), dest)))

updatePropertyTemplateDefaultBoardId(c, p, id) ==
    updateBoard(c, WithTemplates(c, Changing(c, p, LAMBDA t :
      [t EXCEPT !.options = IF @ = <<>> THEN <<NewOption(id, id)>>
                            ELSE [@ EXCEPT ![1] = NewOption(id, id)]])))

SetFlag(c, p, flag, value) ==
    updateBoard(c, WithTemplates(c, Changing(c, p, LAMBDA t : [t EXCEPT !.flags[flag] = value])))

changePropertyRequired(c, p, value) == SetFlag(c, p, "required", value)
changePropertyOrgScoped(c, p, value) == SetFlag(c, p, "orgScoped", value)

Removing(seq, p) == Filtered(seq, ToSet(seq) \ {p})

\* The copied templates without that of id p.
TemplatesBut(c, p) == Filtered(Copied(c), {t \in ToSet(Copied(c)) : t.id # p})

\* Mutant of deleteProperty: the view may still be grouped by the property.
deletePropertyFromBoard(c, p) ==
    updateBoardAndBlocks(c, WithTemplates(c, TemplatesBut(c, p)),
      [id \in {id \in CardsOf(c) : p \in DOMAIN c.blocks[id].f.properties} |->
         [c.blocks[id].f EXCEPT !.properties = Without(@, {p})]])

\* The property goes from the board, from the view, and from every card.
deleteProperty(c, p) ==
    LET uses == \/ p \in ToSet(View(c).visiblePropertyIds) \cup ToSet(View(c).sortOptions)
                         \cup ToSet(View(c).filter)
                \/ View(c).groupById = p
        holders == {id \in CardsOf(c) : p \in DOMAIN c.blocks[id].f.properties}
    IN  updateBoardAndBlocks(c,
          WithTemplates(c, TemplatesBut(c, p)),
          [id \in holders \cup (IF uses THEN {ViewId} ELSE {}) |->
             IF id = ViewId
             THEN [View(c) EXCEPT !.visiblePropertyIds = Removing(@, p),
                                  !.sortOptions = Removing(@, p),
                                  !.filter = Removing(@, p),
                                  !.groupById = IF @ = p THEN "" ELSE @]
             ELSE [c.blocks[id].f EXCEPT !.properties = Without(@, {p})]])

-----------------------------------------------------------------------------
(* Options of a property.                                                  *)

\* cloneDeep(oldCardProperties) with the options of p changed.
WithOptions(c, p, New(_)) ==
    updateBoardCardProperties(c,
      [i \in DOMAIN c.board.cardProperties |->
         IF c.board.cardProperties[i].id = p
         THEN [c.board.cardProperties[i] EXCEPT !.options = New(@)]
         ELSE c.board.cardProperties[i]])

OptionIndex(options, o) == CHOOSE i \in DOMAIN options : options[i].id = o

insertPropertyOption(c, p) ==
    WithOptions(c, p, LAMBDA os : Append(os, NewOption(Guid(c), "new")))

deletePropertyOption(c, p, o) ==
    WithOptions(c, p, LAMBDA os : Filtered(os, {x \in ToSet(os) : x.id # o}))

changePropertyOptionOrder(c, p, o, dest) ==
    WithOptions(c, p, LAMBDA os : Moved(os, OptionIndex(os, o), dest))

changePropertyOptionValue(c, p, o, value) ==
    WithOptions(c, p, LAMBDA os : [os EXCEPT ![OptionIndex(os, o)].value = value])

changePropertyOptionColor(c, p, o, color) ==
    WithOptions(c, p, LAMBDA os : [os EXCEPT ![OptionIndex(os, o)].color = color])

-----------------------------------------------------------------------------
(* Settings of the board: the OKR ladder, the lock, organisation colours.  *)

OkrLevels == <<"objective", "keyResult", "task">>

SetProperty(c, key, value) ==
    updateBoard(c, [createBoard(c.board) EXCEPT !.properties = Over(@, Only(key, value))])

\* The select named for the purpose is reused, its first options are renamed
\* in place, and missing ones are added.
enableOkrBoard(c, guids) ==
    LET mine == {t \in ToSet(Copied(c)) : t.name = "okr" /\ t.type = "select"}
        old == IF mine = {} THEN [NewTemplate(guids[4], "select", <<>>) EXCEPT !.name = "okr"]
               ELSE CHOOSE t \in mine : TRUE
        Level(i) == IF i \in DOMAIN old.options THEN [old.options[i] EXCEPT !.value = OkrLevels[i]]
                    ELSE NewOption(guids[i], OkrLevels[i])
        count == IF Len(old.options) > 3 THEN Len(old.options) ELSE 3
        template == [old EXCEPT !.options =
                       [i \in 1 .. count |-> IF i <= 3 THEN Level(i) ELSE old.options[i]]]
        templates == IF mine = {} THEN Append(Copied(c), template)
                     ELSE Changing(c, template.id, LAMBDA t : template)
    IN  updateBoard(c, [WithTemplates(c, templates) EXCEPT !.properties =
          Over(@, Only("okrBoard", <<template.id, [i \in 1 .. 3 |-> template.options[i].id]>>))])

disableOkrBoard(c) ==
    updateBoard(c, [createBoard(c.board) EXCEPT !.properties = Without(@, {"okrBoard"})])

setCardPropertiesAdminOnly(c, on) == SetProperty(c, "adminOnlyCardProperties", on)

Colors(c) == IF "orgColors" \in DOMAIN c.board.properties THEN c.board.properties["orgColors"] ELSE <<>>

changeOrgUnitColor(c, unit, color) == SetProperty(c, "orgColors", Over(Colors(c), Only(unit, color)))
clearOrgUnitColor(c, unit) == SetProperty(c, "orgColors", Without(Colors(c), {unit}))

-----------------------------------------------------------------------------
(* Values of the cards.                                                    *)

OfType(c, type) == {t.id : t \in {t \in ToSet(c.board.cardProperties) : t.type = type}}

\* selectedUnitIds: what the card names in all its properties of a type.
selectedUnitIds(c, properties, type) ==
    UNION {ToSet(properties[p]) : p \in OfType(c, type) \cap DOMAIN properties}

\* Without a division everything is allowed.
allowedDepartments(divisions) ==
    {d \in DOMAIN DivisionOf : divisions = {} \/ DivisionOf[d] \in divisions}

\* When the division of a card changes, the departments outside it are
\* dropped, unless the card is left without division or the organisation is
\* not known.
dropOutOfRangeDepartments(c, properties, changed) ==
    LET divisions == selectedUnitIds(c, properties, "orgDivision")
        Allowed(values) == Filtered(values, allowedDepartments(divisions))
    IN  IF changed \in OfType(c, "orgDivision") /\ divisions # {} /\ DOMAIN DivisionOf # {}
        THEN [p \in DOMAIN properties |->
                IF p \in OfType(c, "orgDepartment") THEN Allowed(properties[p]) ELSE properties[p]]
        ELSE properties

\* Mutant of changePropertyValue: the departments stay as they are.
changeValueAlone(c, id, p, value) ==
    updateBlock(c, id, [c.blocks[id].f EXCEPT !.properties = Over(@, Only(p, value))])

\* An empty value takes the property off the card.
changePropertyValue(c, id, p, value) ==
    LET old == c.blocks[id].f.properties
        new == IF value = <<>> THEN Without(old, {p}) ELSE Over(old, Only(p, value))
    IN  updateBlock(c, id, [c.blocks[id].f EXCEPT !.properties = dropOutOfRangeDepartments(c, new, p)])

SelectTypes == {"select", "multiSelect"}
PersonTypes == {"person", "multiPerson"}

\* A conversion keeps the first value only.
First(c, id, p) == c.blocks[id].f.properties[p][1]

\* The options a conversion to a select needs: one for each text on a card.
OptionsForTexts(c, holders, p, guids) ==
    LET texts == SetToSeq({First(c, id, p) : id \in holders})
    IN  [i \in DOMAIN texts |-> NewOption(guids[i], texts[i])]

\* Mutant of changePropertyTypeAndName: the texts become option ids as they are.
changeTypeKeepsTexts(c, p, type, name, guids) ==
    updateBoard(c, WithTemplates(c, Changing(c, p, LAMBDA t :
      [t EXCEPT !.type = type, !.name = name, !.options = <<>>])))

\* Between two selects the options stay (if there is a card to convert), from
\* a select or person to anything else the values go, from anything else to a
\* select each text becomes an option, and to a person the values go.
changePropertyTypeAndName(c, p, type, name, guids) ==
    LET old == c.board.cardProperties[IndexOf(c, p)]
        cards == CardsOf(c)
        holders == {id \in cards : /\ p \in DOMAIN c.blocks[id].f.properties
                                  /\ c.blocks[id].f.properties[p] # <<>>}
        texts == OptionsForTexts(c, holders, p, guids)
        convert == old.type \in SelectTypes \cup PersonTypes \/ type \in SelectTypes \cup PersonTypes
        options == IF type = old.type THEN old.options
                   ELSE IF type \notin SelectTypes THEN <<>>
                   ELSE IF old.type \notin SelectTypes \cup PersonTypes THEN texts
                   ELSE IF cards = {} THEN <<>>
                   ELSE old.options
        Value(id) == IF old.type \in PersonTypes
                     THEN IF type \in PersonTypes THEN <<First(c, id, p)>> ELSE <<>>
                     ELSE IF type \notin SelectTypes THEN <<>>
                     ELSE IF old.type \in SelectTypes
                     THEN Filtered(<<First(c, id, p)>>, Ids(old.options))
                     ELSE <<texts[CHOOSE i \in DOMAIN texts : texts[i].value = First(c, id, p)].id>>
        board == WithTemplates(c, Changing(c, p, LAMBDA t :
                   [t EXCEPT !.type = type, !.name = name, !.options = options]))
    IN  IF type # old.type /\ convert /\ holders # {}
        THEN updateBoardAndBlocks(c, board,
               [id \in holders |-> [c.blocks[id].f EXCEPT !.properties =
                  IF Value(id) = <<>> THEN Without(@, {p}) ELSE Over(@, Only(p, Value(id)))]])
        ELSE updateBoard(c, board)

-----------------------------------------------------------------------------
(* Views.                                                                  *)

ChangeView(c, key, value) == PatchField(c, ViewId, key, value)

changeViewSortOptions(c, options) == ChangeView(c, "sortOptions", options)
changeViewAccessMode(c, mode) == ChangeView(c, "accessMode", mode)
changeViewFilter(c, filter) == ChangeView(c, "filter", filter)
changeViewDateDisplayPropertyId(c, p) == ChangeView(c, "dateDisplayPropertyId", p)
changeViewVisibleProperties(c, columns) == ChangeView(c, "visiblePropertyIds", columns)
changeViewVisibleOptionIds(c, options) == ChangeView(c, "visibleOptionIds", options)
changeViewHiddenOptionIds(c, options) == ChangeView(c, "hiddenOptionIds", options)
changeViewKanbanCalculations(c, calculations) == ChangeView(c, "kanbanCalculations", calculations)
changeViewColumnCalculations(c, calculations) == ChangeView(c, "columnCalculations", calculations)
changeViewCardOrder(c, order) == ChangeView(c, "cardOrder", order)

changeViewVisiblePropertiesOrder(c, p, dest) ==
    LET columns == View(c).visiblePropertyIds
    IN  ChangeView(c, "visiblePropertyIds",
                   Moved(columns, CHOOSE i \in DOMAIN columns : columns[i] = p, dest))

GroupKeys == {"groupById", "visibleOptionIds", "hiddenOptionIds", "collapsedOptionIds",
              "kanbanCalculations"}

\* Mutant of changeViewGroupById: the undo restores the grouping alone.
groupByForgetsColumns(c, p) ==
    PatchFields(ViewId, [k \in GroupKeys |-> IF k = "groupById" THEN p ELSE <<>>],
                [k \in {"groupById"} |-> View(c)[k]])

\* Grouping by another property resets what was said about the columns.
changeViewGroupById(c, p) ==
    PatchFields(ViewId, [k \in GroupKeys |-> IF k = "groupById" THEN p ELSE <<>>],
                [k \in GroupKeys |-> View(c)[k]])

ColumnKeys == {"visibleOptionIds", "hiddenOptionIds"}

SetColumns(c, visible, hidden) ==
    PatchFields(ViewId, [k \in ColumnKeys |-> IF k = "visibleOptionIds" THEN visible ELSE hidden],
                [k \in ColumnKeys |-> View(c)[k]])

\* The ids that are not among the options.
Hiding(ids, options) == Filtered(ids, ToSet(ids) \ ToSet(options))

\* Nothing happens when all of them are hidden; otherwise all are appended.
hideViewColumns(c, options) ==
    SetColumns(c, Hiding(View(c).visibleOptionIds, options),
               View(c).hiddenOptionIds \o options)

unhideViewColumns(c, options) ==
    SetColumns(c, Hiding(View(c).visibleOptionIds, options) \o options,
               Hiding(View(c).hiddenOptionIds, options))

hideViewColumn(c, option) == hideViewColumns(c, <<option>>)
unhideViewColumn(c, option) == unhideViewColumns(c, <<option>>)

=============================================================================
