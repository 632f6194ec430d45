------------------------------ MODULE CardViews ------------------------------
(***************************************************************************)
(* One user works in a view of a board: adds cards and sub-cards, drags    *)
(* cards in the table, the kanban or the gallery, drags, hides and shows   *)
(* groups.  Meanwhile other people change the cards of the board.          *)
(* centerPanel.tsx, table.tsx, kanban.tsx, gallery.tsx and the drop of the *)
(* table (tableDropTarget.ts, applyTableDrop.ts).                          *)
(*                                                                         *)
(* A drop reads the store once, when the card is let go, and then awaits   *)
(* one request after the other: the group value, the two changes of the    *)
(* hierarchy, the order.  Each request is a step; the store follows the    *)
(* server at once (ClientSync.tla is about the time between).              *)
(***************************************************************************)
EXTENDS CardLists, TLC

CONSTANTS Starts,      \* [board, view] to start from
          NewCards,    \* cards that may be made, in this order
          TemplateProps, \* the properties of the card template
          MeID,        \* the user of the view
          MaxMoves,    \* bound on what the user does
          MaxOthers    \* bound on what the others do

VARIABLES board, view,
          closed,      \* cards whose sub-cards are folded away
          selected,    \* the cards selected, in order
          drag,        \* <<>> or the item that is dragged in the table
          drop,        \* <<>> or the drop that awaits its requests
          pending,     \* <<>> or the drop that awaits the user's consent
          adding,      \* <<>> or the card whose place awaits its request
          quiet,       \* nothing else happened since the change under way began
          landed,      \* the quiet change that has just come to its end
          made,        \* how many cards were made
          moves, others

vars == <<board, view, closed, selected, drag, drop, pending, adding, quiet, landed, made, moves, others>>
mine == <<view, closed, selected, drag, pending>>
count == <<made, moves, others>>

Nothing == [kind |-> "none"]

-----------------------------------------------------------------------------
Cards == DOMAIN board.cards
Drawn == Rows(board, view, closed, MeID)
Groups == Lists(board, view, MeID)
CardsOf(rows) == SelectSeq([i \in DOMAIN rows |-> rows[i].card], LAMBDA c : c \in Cards)
DrawnCards == ToSet(CardsOf(Drawn))
OnColumns == UNION {ToSet(g.cards) : g \in ToSet(Groups.visible)}
isManualSort == view.sortOptions = <<>>
Grouped == view.groupById # NoProperty

RECURSIVE Below(_, _)
Below(b, c) ==
    LET subs == {d \in DOMAIN b.cards : b.cards[d].parent = c}
    IN  {c} \cup UNION {Below(b, d) : d \in subs}

\* The card and all below it at another depth.
Shifted(b, c, parent, depth) ==
    LET delta == depth - b.cards[c].depth
    IN  [b EXCEPT !.cards = [d \in DOMAIN @ |->
           IF d = c THEN [@[d] EXCEPT !.parent = parent, !.depth = depth]
           ELSE IF d \in Below(b, c) THEN [@[d] EXCEPT !.depth = @ + delta]
           ELSE @[d]]]

LinkAllowed(b, c, p) ==
    /\ {c, p} \subseteq DOMAIN b.cards
    /\ b.cards[c].depth = 0
    /\ b.cards[p].depth + 1 + subtreeHeight(b, c) <= MaxCardDepth
    /\ p \notin Below(b, c)

Linked(b, c, p) == Shifted(b, c, p, b.cards[p].depth + 1)
Unlinked(b, c) == IF b.cards[c].parent = NoCard THEN b ELSE Shifted(b, c, NoCard, 0)

Inserted(b, c, parent, props) ==
    [b EXCEPT !.stored = Append(@, c),
              !.cards = (c :> [parent |-> parent, title |-> 0, created |-> Cardinality(DOMAIN @) + 1,
                               depth |-> IF parent = NoCard THEN 0 ELSE @[parent].depth + 1,
                               creator |-> MeID, props |-> props]) @@ @]

Deleted(b, gone) ==
    [b EXCEPT !.stored = SelectSeq(@, LAMBDA c : c \notin gone),
              !.cards = [c \in DOMAIN @ \ gone |-> @[c]]]

SetValues(b, S, p, value) ==
    [b EXCEPT !.cards = [c \in DOMAIN @ |-> IF c \in S THEN [@[c] EXCEPT !.props[p] = value] ELSE @[c]]]

-----------------------------------------------------------------------------
Init ==
    /\ \E s \in Starts : board = s.board /\ view = s.view
    /\ closed = {} /\ selected = <<>>
    /\ drag = <<>> /\ drop = <<>> /\ pending = <<>> /\ adding = <<>>
    /\ quiet = TRUE /\ landed = Nothing
    /\ made = 0 /\ moves = 0 /\ others = 0

Makes == made < Len(NewCards) /\ made' = made + 1
Counts == moves < MaxMoves /\ moves' = moves + 1 /\ UNCHANGED others
Move == Counts /\ UNCHANGED made

\* A user who drags does nothing else, and the dialog of a drop is modal.
Free == drag = <<>> /\ pending = <<>>

\* A change begins: alone, or while another one is still under way.
Begin == quiet' = (drop = <<>> /\ adding = <<>>) /\ landed' = Nothing
Disturb == quiet' = FALSE /\ landed' = Nothing
End(landing) == landed' = (IF quiet THEN landing ELSE Nothing) /\ UNCHANGED quiet

-----------------------------------------------------------------------------
(* Cards are added.                                                        *)

\* The value of the group, of the types that hold one value or several.
GroupValue(key) == IF Grouped /\ view.viewType \in {"board", "table"} THEN key ELSE {}

\* Values of the filter, and over them that of the group.
NewProps(base, key) ==
    LET met == propertiesThatMeetFilterGroup(board, view.filter)
        filled == IF GroupValue(key) = {} THEN met ELSE [met EXCEPT ![view.groupById] = key]
    IN  [p \in DOMAIN filled |-> IF filled[p] = {} THEN base[p] ELSE filled[p]]

Add(key, base, kind) ==
    /\ Counts /\ Makes /\ Free /\ adding = <<>>
    /\ LET c == NewCards[made + 1]
       IN  /\ board' = Inserted(board, c, NoCard, NewProps(base, key))
           /\ adding' = <<[order |-> Append(view.cardOrder, c),
                           landing |-> [kind |-> kind, card |-> c, key |-> GroupValue(key)]]>>
    /\ Begin
    /\ UNCHANGED <<mine, drop>>

addCard(key) == Add(key, [p \in DOMAIN board.types |-> {}], "card")
addCardFromTemplate(key) == Add(key, TemplateProps, "template")

\* The second request of both: the order of the click, and the new card.
AppendToOrder ==
    /\ adding # <<>>
    /\ view' = [view EXCEPT !.cardOrder = adding[1].order]
    /\ adding' = <<>>
    /\ End(adding[1].landing)
    /\ UNCHANGED <<board, closed, selected, drag, drop, pending, count>>

addSubCard(p) ==
    /\ Counts /\ Makes /\ Free
    /\ view.viewType = "table"
    /\ p \in DrawnCards
    /\ board.cards[p].depth < MaxCardDepth
    /\ board' = Inserted(board, NewCards[made + 1], p, [q \in DOMAIN board.types |-> {}])
    /\ Disturb
    /\ UNCHANGED <<mine, drop, adding>>

-----------------------------------------------------------------------------
(* The table: a card is dragged with all below it.                         *)

\* Shift and a click on a card, with the command key from the card selected
\* last up to this one.
cardClicked(c) ==
    /\ Move /\ Free
    /\ c \in (IF view.viewType = "table" THEN DrawnCards ELSE OnColumns)
    /\ \/ selected' = IF Contains(selected, c) THEN Without(selected, <<c>>) ELSE Append(selected, c)
       \/ /\ selected # <<>>
          /\ LET ordered == ViewCards(board, view, MeID)
                 src == IndexIn(ordered, Last(selected))
                 dest == IndexIn(ordered, c)
             IN  selected' = Distinct(selected \o (IF src < dest THEN Slice(ordered, src, dest + 1)
                                                   ELSE Slice(ordered, dest, src + 1)))
    /\ UNCHANGED <<board, view, closed, drag, drop, pending, adding, quiet, landed>>

handleToggle(c) ==
    /\ Move /\ Free /\ view.viewType = "table" /\ c \in DrawnCards
    /\ getCurrentBoardSubCardsByParent(board, view, c) # <<>>
    /\ closed' = (closed \ {c}) \cup ({c} \ closed)
    /\ landed' = Nothing
    /\ UNCHANGED <<board, view, selected, drag, drop, pending, adding, quiet>>

startDrag(c) ==
    /\ Move /\ Free /\ drop = <<>>
    /\ view.viewType = "table" /\ c \in DrawnCards
    /\ drag' = <<[card |-> c, subtreeIds |-> collectSubtree(board, view, c),
                  subtreeHeight |-> subtreeHeight(board, c),
                  sourceParentId |-> board.cards[c].parent, selectedCardIds |-> selected]>>
    /\ Begin
    /\ UNCHANGED <<board, view, closed, selected, drop, pending, adding>>

\* The boundary before row "at" + 1, among the rows drawn at that moment.
computeDropIntent(rows, at, item) ==
    LET Moving(i) == Contains(item.subtreeIds, rows[i].card)
        first == {i \in DOMAIN rows : Moving(i) /\ \A j \in 1 .. i - 1 : ~Moving(j)}
        inside == \E f \in first : at >= f /\ \A i \in f .. at + 1 : i \in DOMAIN rows /\ Moving(i)
        above == {i \in 1 .. at : ~Moving(i) /\ \A j \in i + 1 .. at : Moving(j)}
        below == {i \in at + 1 .. Len(rows) : ~Moving(i) /\ \A j \in at + 1 .. i - 1 : Moving(j)}
        target == IF below # {} THEN below ELSE above
    IN  IF inside THEN {}
        ELSE {[at |-> at, parentCardId |-> rows[i].parent] :
                i \in {i \in target : rows[i].depth <= MaxCardDepth - item.subtreeHeight}}

\* The selected cards come along when the card keeps its parent.
movingIdsForReorder(item) ==
    FoldLeft(LAMBDA r, c : IF Contains(r, c) THEN r ELSE Distinct(r \o collectSubtree(board, view, c)),
             item.subtreeIds, item.selectedCardIds)

\* A boundary as a place before or after a card.
anchorFor(rows, at, moving) ==
    LET Usable(i) == ~Contains(moving, rows[i].card) /\ ~rows[i].isListEnd
        below == {i \in at + 1 .. Len(rows) : Usable(i)}
        above == {i \in 1 .. at : Usable(i)}
    IN  IF below # {}
        THEN <<[row |-> rows[CHOOSE i \in below : \A j \in below : i <= j], place |-> "before"]>>
        ELSE IF above # {}
        THEN <<[row |-> rows[CHOOSE i \in above : \A j \in above : j <= i], place |-> "after"]>>
        ELSE <<>>

\* What the drop promises: the card stands before this one, a sibling.  A
\* line above the add row of a list, or in the group without a value,
\* promises nothing.
Under(rows, at, moving, parent, newValue) ==
    LET below == {i \in at + 1 .. Len(rows) : ~Contains(moving, rows[i].card)}
        i == CHOOSE i \in below : \A j \in below : i <= j
    IN  IF below = {} \/ rows[i].isListEnd \/ rows[i].parent # parent THEN NoCard
        ELSE IF Grouped /\ parent = NoCard /\ newValue = {} THEN NoCard
        ELSE rows[i].card

\* The cards of the view in their order, sub-cards after their card.
Ordered == IF view.viewType = "table" THEN flattenWithSubCards(board, view, ViewCards(board, view, MeID))
           ELSE ViewCards(board, view, MeID)
Unmoved(moving) == SelectSeq(Ordered, LAMBDA c : ~Contains(moving, c))

\* Without a list of all cards the order of the rest is made up by the drop.
Rest(moving) == IF isManualSort /\ Cards \subseteq ToSet(view.cardOrder) THEN <<Unmoved(moving)>> ELSE <<>>

\* The first request of the drop leaves at once, the others wait their turn.
applyTableDrop(intent, item, rows) ==
    LET isReorder == intent.parentCardId = item.sourceParentId
        moving == IF isReorder THEN movingIdsForReorder(item) ELSE item.subtreeIds
        anchor == anchorFor(rows, intent.at, moving)
        p == intent.parentCardId
        newValue == IF ~Grouped \/ anchor = <<>> THEN {}
                    ELSE IF p = NoCard THEN anchor[1].row.groupValue
                    ELSE IF p \in Cards THEN board.cards[p].props[view.groupById]
                    ELSE {}
        hierarchy == IF isReorder THEN <<>>
                     ELSE (IF item.sourceParentId = NoCard THEN <<>> ELSE <<"unlink">>)
                          \o (IF p = NoCard THEN <<>> ELSE <<"link">>)
        order == moveInCardOrder(view.cardOrder, board.stored, moving, anchor[1].row.card, anchor[1].place)
    IN  IF anchor = <<>> THEN UNCHANGED <<board, drop>>
        ELSE /\ board' = IF newValue = {} THEN board
                         ELSE SetValues(board, {item.card} \cap Cards, view.groupById, newValue)
             /\ drop' = <<[steps |-> Append(hierarchy, "order"), card |-> item.card, parent |-> p, order |-> order,
                           landing |-> [kind |-> "row", card |-> item.card, moved |-> moving,
                                        mark |-> Under(rows, intent.at, moving, p, newValue),
                                        rest |-> Rest(moving)]]>>

\* The card is let go.  In a sorted table the user is asked first.
onTableDrop(at) ==
    /\ drag # <<>>
    /\ drag' = <<>> /\ landed' = Nothing
    /\ \E intent \in computeDropIntent(Drawn, at, drag[1]) :
         IF isManualSort
         THEN applyTableDrop(intent, drag[1], Drawn) /\ UNCHANGED pending
         ELSE /\ pending' = <<[intent |-> intent, item |-> drag[1], rows |-> Drawn]>>
              /\ UNCHANGED <<board, drop>>
    /\ UNCHANGED <<view, closed, selected, adding, quiet, count>>

\* No place to drop, or Escape: nothing happens.
endDrag ==
    /\ drag # <<>>
    /\ drag' = <<>>
    /\ UNCHANGED <<board, view, closed, selected, drop, pending, adding, quiet, landed, count>>

onConfirm ==
    /\ pending # <<>>
    /\ pending' = <<>> /\ landed' = Nothing
    /\ view' = [view EXCEPT !.sortOptions = <<>>]
    /\ applyTableDrop(pending[1].intent, pending[1].item, pending[1].rows)
    /\ UNCHANGED <<closed, selected, drag, adding, quiet, count>>

onClose ==
    /\ pending # <<>>
    /\ pending' = <<>>
    /\ UNCHANGED <<board, view, closed, selected, drag, drop, adding, quiet, landed, count>>

Onward(d) == drop' = <<[d EXCEPT !.steps = Tail(@)]>> /\ UNCHANGED <<view, quiet, landed>>

\* The next request of the drop.  The server refuses an unlink without an
\* error; a refused link ends the drop.
DropStep ==
    /\ drop # <<>>
    /\ LET d == drop[1]
           Step(kind) == Head(d.steps) = kind
       IN \/ /\ Step("unlink")
             /\ board' = IF d.card \in Cards THEN Unlinked(board, d.card) ELSE board
             /\ Onward(d)
          \/ /\ Step("link") /\ LinkAllowed(board, d.card, d.parent)
             /\ board' = Linked(board, d.card, d.parent)
             /\ Onward(d)
          \/ /\ Step("link") /\ ~LinkAllowed(board, d.card, d.parent)
             /\ drop' = <<>>
             /\ UNCHANGED <<board, view, quiet, landed>>
          \/ /\ Step("order")
             /\ view' = [view EXCEPT !.cardOrder = d.order]
             /\ drop' = <<>> /\ End(d.landing) /\ UNCHANGED board
    /\ UNCHANGED <<closed, selected, drag, pending, adding, count>>

-----------------------------------------------------------------------------
(* The kanban and the gallery.                                             *)

SingleValued == board.types[view.groupById] # "multiSelect"

\* A view that is not sorted by hand is drawn as before.
OrderDrop(src, dst, dragged, order) ==
    /\ Move /\ Free /\ drop = <<>>
    /\ drop' = <<[steps |-> <<"order">>, card |-> src, parent |-> NoCard, order |-> order,
                  landing |-> [kind |-> "beside", card |-> src, moved |-> dragged,
                               mark |-> IF isManualSort THEN dst ELSE NoCard, rest |-> Rest(dragged)]]>>
    /\ Begin
    /\ UNCHANGED <<view, closed, selected, drag, pending, adding>>

\* A card, and all selected ones, onto a card of a kanban: its list of drawn
\* cards becomes the order.
onDropToCard(src, dst) ==
    LET shown == ViewCards(board, view, MeID)
        p == view.groupById
        value == board.cards[dst].props[p]
        dragged == Distinct(Append(selected, src))
        down == IndexIn(shown, src) <= IndexIn(shown, dst)
        kept == Without(shown, dragged)
        same == board.cards[src].props[p] = value /\ (SingleValued \/ value = {})
        at == IndexIn(kept, dst) + (IF same /\ down THEN 1 ELSE 0)
    IN  /\ view.viewType = "board" /\ {src, dst} \subseteq OnColumns /\ src # dst
        /\ board' = SetValues(board, ToSet(dragged) \cap ToSet(shown), p, value)
        /\ OrderDrop(src, dst, dragged, Splice(kept, at, dragged))

orderAfterMoveToColumn(dragged, key) ==
    LET column == SelectSeq(Groups.visible, LAMBDA g : g.key = key)
        kept == Without(view.cardOrder, dragged)
    IN  IF column = <<>> \/ column[1].cards = <<>> THEN view.cardOrder
        ELSE Splice(kept, IndexIn(kept, Last(column[1].cards)) + 1, dragged)

\* Onto the free space of a column, hidden columns too: all requests at once.
onDropToColumn(src, key) ==
    LET shown == ViewCards(board, view, MeID)
        dragged == Distinct(Append(selected, src))
    IN  /\ Move /\ Free /\ drop = <<>>
        /\ view.viewType = "board" /\ src \in OnColumns
        /\ key \in {g.key : g \in ToSet(Groups.visible \o Groups.hidden)}
        /\ board' = SetValues(board, ToSet(dragged) \cap ToSet(shown), view.groupById, key)
        /\ view' = [view EXCEPT !.cardOrder = orderAfterMoveToColumn(dragged, key)]
        /\ Disturb
        /\ UNCHANGED <<closed, selected, drag, drop, pending, adding>>

galleryOnDropToCard(src, dst) ==
    LET shown == ViewCards(board, view, MeID)
        dragged == Distinct(Append(selected, src))
        order == Distinct(view.cardOrder \o shown)
        down == IndexIn(order, src) <= IndexIn(order, dst)
        kept == Without(order, dragged)
    IN  /\ view.viewType = "gallery" /\ isManualSort /\ {src, dst} \subseteq ToSet(shown)
        /\ OrderDrop(src, dst, dragged, Splice(kept, IndexIn(kept, dst) + (IF down THEN 1 ELSE 0), dragged))
        /\ UNCHANGED board

-----------------------------------------------------------------------------
(* Groups are dragged, hidden and shown.                                   *)

KeysOf(groups) == [i \in DOMAIN groups |-> groups[i].key]
VisibleKeys == KeysOf(Groups.visible)

SetGroups(visible, hidden) ==
    /\ Move /\ Free /\ Grouped
    /\ view' = [view EXCEPT !.visibleOptionIds = visible, !.hiddenOptionIds = hidden]
    /\ Disturb
    /\ UNCHANGED <<board, closed, selected, drag, drop, pending, adding>>

\* A column header onto another one, in the kanban and in the table.
dropHeader(src, dst) ==
    /\ {src, dst} \subseteq ToSet(VisibleKeys)
    /\ \/ /\ view.viewType = "board"
          /\ SetGroups(dragAndDropRearrange(VisibleKeys, src, dst), view.hiddenOptionIds)
       \/ /\ view.viewType = "table"
          /\ SetGroups(Splice(Without(VisibleKeys, <<src>>), IndexIn(VisibleKeys, dst), <<src>>),
                       view.hiddenOptionIds)

hideViewColumn(key) ==
    /\ Contains(VisibleKeys, key) /\ ~Contains(view.hiddenOptionIds, key)
    /\ SetGroups(Without(view.visibleOptionIds, <<key>>), Append(view.hiddenOptionIds, key))

unhideViewColumn(key) ==
    /\ Contains(view.hiddenOptionIds, key) /\ ~Contains(view.visibleOptionIds, key)
    /\ SetGroups(Append(view.visibleOptionIds, key), Without(view.hiddenOptionIds, <<key>>))

-----------------------------------------------------------------------------
(* Other people.                                                           *)

Other(b) ==
    /\ others < MaxOthers /\ others' = others + 1
    /\ board' = b
    /\ Disturb
    /\ UNCHANGED <<mine, drop, adding, moves>>

OtherDeletes(c) == Other(Deleted(board, Below(board, c))) /\ UNCHANGED made
OtherAdds ==
    Makes /\ Other(Inserted(board, NewCards[made + 1], NoCard, [p \in DOMAIN board.types |-> {}]))
OtherLinks(c, p) == LinkAllowed(board, c, p) /\ Other(Linked(board, c, p)) /\ UNCHANGED made
OtherUnlinks(c) == board.cards[c].parent # NoCard /\ Other(Unlinked(board, c)) /\ UNCHANGED made
OtherDeletesOption(p, o) ==
    Contains(board.options[p], o) /\ Other([board EXCEPT !.options[p] = Without(@, <<o>>)]) /\ UNCHANGED made

Keys == {g.key : g \in ToSet(Groups.visible)}
AllKeys == Keys \cup {g.key : g \in ToSet(Groups.hidden)}

AddSomething == \E key \in Keys : addCard(key) \/ addCardFromTemplate(key)
TableMove == \E c \in DrawnCards : addSubCard(c) \/ handleToggle(c) \/ startDrag(c)
TableDrop == \E at \in 0 .. Len(Drawn) : onTableDrop(at)
CardMove ==
    \/ \E c \in Cards : cardClicked(c)
    \/ \E src, dst \in OnColumns : onDropToCard(src, dst) \/ galleryOnDropToCard(src, dst)
    \/ \E src \in OnColumns : \E key \in AllKeys : onDropToColumn(src, key)
GroupMove ==
    \/ \E src, dst \in Keys : dropHeader(src, dst)
    \/ \E key \in Keys : hideViewColumn(key)
    \/ \E key \in ToSet(view.hiddenOptionIds) : unhideViewColumn(key)
OtherMove ==
    \/ \E c \in Cards : OtherDeletes(c) \/ OtherUnlinks(c)
    \/ \E c, p \in Cards : OtherLinks(c, p)
    \/ OtherAdds
    \/ \E p \in DOMAIN board.options : \E o \in ToSet(board.options[p]) : OtherDeletesOption(p, o)

Next ==
    \/ moves < MaxMoves /\ Free /\ (AddSomething \/ CardMove \/ GroupMove)
    \/ moves < MaxMoves /\ Free /\ view.viewType = "table" /\ TableMove
    \/ AppendToOrder
    \/ drag # <<>> /\ TableDrop
    \/ endDrag \/ onConfirm \/ onClose \/ DropStep
    \/ others < MaxOthers /\ OtherMove

Spec == Init /\ [][Next]_vars

-----------------------------------------------------------------------------
(* Properties.                                                             *)

\* The card of the list a card is drawn in: itself in a kanban, elsewhere
\* the topmost one above it that still exists.
RECURSIVE RootOf(_)
RootOf(c) ==
    IF view.viewType = "board" \/ board.cards[c].parent \notin Cards THEN c
    ELSE RootOf(board.cards[c].parent)

\* With nothing folded away and nothing hidden every card is drawn once and
\* nothing else is: a card of a table whose parent was deleted stands at the
\* top, one whose option was deleted among those without a value, and a
\* sub-card follows its root through the filter (store/cards.ts, boardUtils.ts).
CardsOnce ==
    LET groups == Groups.visible \o Groups.hidden
        all == FlattenSeq([i \in DOMAIN groups |-> groups[i].cards])
        shown == IF view.viewType = "table" THEN CardsOf(TableRows(board, view, {}, all)) ELSE all
        filter == resolveMe(view.filter, MeID)
        Meets(c) == isFilterGroupMet(board, RootOf(c), filter)
    IN  /\ IsInjective(shown)
        /\ ToSet(shown) = {c \in Cards : Meets(c) /\ (view.viewType = "gallery" => RootOf(c) = c)}

\* However drops, new cards and the changes of others overlap, the order of a
\* view never lists a card twice (cardOrderMove.ts, kanban.tsx, gallery.tsx).
OrderListsOnce == IsInjective(view.cardOrder)

\* A drop on a table that met no other change puts the card where the line was
\* drawn: among the cards of the list under the line, before the first of them that
\* does not move along, with the selected ones and all sub-cards between
\* (tableDropTarget.ts, applyTableDrop.ts, cardOrderMove.ts).
LandsInRow ==
    landed.kind = "row" /\ landed.mark # NoCard /\ landed.card \in DrawnCards =>
      LET t == SelectSeq(CardsOf(Drawn), LAMBDA c : c = landed.card \/ ~Contains(landed.moved, c))
          i == IndexIn(t, landed.card) + 1
      IN  /\ board.cards[landed.card].parent = board.cards[landed.mark].parent
          /\ i < Len(t) /\ t[i + 1] = landed.mark

\* A drop of cards onto a card of a kanban or a gallery, that met no other
\* change, leaves the dragged cards next to it and in its column.
LandsBeside ==
    landed.kind = "beside" /\ landed.mark # NoCard /\ ~Contains(landed.moved, landed.mark) =>
      \E g \in ToSet(Groups.visible) :
        /\ {landed.card, landed.mark} \subseteq ToSet(g.cards)
        /\ LET t == SelectSeq(g.cards, LAMBDA c : c \in {landed.card, landed.mark} \/ ~Contains(landed.moved, c))
               i == IndexIn(t, landed.card)
               j == IndexIn(t, landed.mark)
           IN  i - j \in {-1, 1}

\* A drop that met no other change lands where it was drawn, in every view.
DropLands == LandsInRow /\ LandsBeside

\* In a view whose order lists every card a drop that met no other change
\* leaves the cards that were not dragged in the order they were drawn in.
OthersKeepPlace ==
    landed.kind \in {"row", "beside"} /\ landed.rest # <<>> =>
      LET rest == landed.rest[1]
          now == Unmoved(landed.moved)
      IN  SelectSeq(now, LAMBDA c : Contains(rest, c)) = SelectSeq(rest, LAMBDA c : Contains(now, c))

\* The filters a new card can be made to meet: clauses on different
\* properties, none of them the one the view is grouped by.
Fillable(filter) ==
    LET fs == filter.filters
        Open(f) == /\ ~IsGroup(f) /\ f.property # view.groupById
                   /\ \/ f.condition \in {"includes", "notIncludes"} /\ ~Contains(f.values, Me)
                      \/ f.condition \in {"isEmpty", "isNotSet"}
                      \/ f.condition = "isNotEmpty" /\ board.options[f.property] # <<>>
    IN  /\ \A i \in DOMAIN fs : Open(fs[i]) /\ board.types[fs[i].property] \in {"select", "person"}
        /\ \A i, j \in DOMAIN fs : i # j => fs[i].property # fs[j].property

\* A card made in a filtered view is not hidden by its filter, and stands in
\* the column whose button made it, at its end if the order lists all cards
\* (centerPanel.tsx, cardFilter.ts).
NewCardIsShown ==
    landed.kind = "card" /\ Fillable(view.filter) =>
      \E g \in ToSet(Groups.visible) :
        /\ g.key = landed.key /\ Contains(g.cards, landed.card)
        /\ isManualSort /\ Cards \subseteq ToSet(view.cardOrder) => Last(g.cards) = landed.card
=============================================================================
