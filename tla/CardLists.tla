------------------------------ MODULE CardLists ------------------------------
(***************************************************************************)
(* What a view of a board draws: the selectors of store/cards.ts, the      *)
(* filter of cardFilter.ts, the groups of boardUtils.ts, the rows of the   *)
(* table and the order lists that drops write.                             *)
(*                                                                         *)
(* A board is [stored : the cards in the order the store holds them,       *)
(*             cards  : card -> [parent, depth, title, created, creator,   *)
(*                               props : property -> set of value ids],    *)
(*             types, options : property -> type, sequence of options].    *)
(* A property value is a set of ids: empty for none, a singleton for the   *)
(* types that hold one value.  The key of a group is such a set as well    *)
(* (the code joins the sorted ids with commas), and {} is its ''.          *)
(* Titles are ranks, 0 for an untitled card.                               *)
(***************************************************************************)
EXTENDS Integers, Sequences, FiniteSets, SequencesExt

CONSTANTS NoCard,        \* the parentCardId of a top level card, ''
          NoProperty,    \* a view without grouping
          MaxCardDepth,
          NameRank(_),   \* the order of the names of options and users
          ListEnd(_)     \* the id of the add row that closes a card's sub-cards

ASSUME MaxDepthAssumption == MaxCardDepth \in Nat \ {0}

Seen(s, t) == SelectSeq(t, LAMBDA x : ~Contains(s, x))
Without(s, gone) == SelectSeq(s, LAMBDA x : ~Contains(gone, x))
IndexIn(s, x) == IF Contains(s, x) THEN (CHOOSE i \in DOMAIN s : s[i] = x) - 1 ELSE -1

\* Array.from(new Set(s))
Distinct(s) == FoldLeft(LAMBDA r, x : IF Contains(r, x) THEN r ELSE Append(r, x), <<>>, s)

\* s.splice(at, 0, ...new), at a position counted from 0, or from the end.
Splice(s, at, new) ==
    LET i == IF at < 0 THEN (IF Len(s) + at > 0 THEN Len(s) + at ELSE 0)
             ELSE IF at > Len(s) THEN Len(s) ELSE at
    IN  SubSeq(s, 1, i) \o new \o SubSeq(s, i + 1, Len(s))

\* s.slice(from, to), positions counted from the end when negative.
Slice(s, from, to) ==
    LET At(i) == IF i < 0 THEN (IF Len(s) + i > 0 THEN Len(s) + i ELSE 0) ELSE IF i > Len(s) THEN Len(s) ELSE i
    IN  SubSeq(s, At(from) + 1, At(to))

-----------------------------------------------------------------------------
(* Array.prototype.sort on short arrays: the run that is already there is  *)
(* kept, the rest is inserted by binary search.  A comparator that orders  *)
(* the elements totally gives the stable sort; of any other, this is what  *)
(* the engine does with it.                                                *)

SortedRun(s, Cmp(_, _)) ==
    LET Falls == Cmp(s[2], s[1]) < 0
        n == CHOOSE n \in 2 .. Len(s) :
               /\ \A i \in 2 .. n : (Cmp(s[i], s[i - 1]) < 0) = Falls
               /\ n = Len(s) \/ (Cmp(s[n + 1], s[n]) < 0) # Falls
        run == SubSeq(s, 1, n)
    IN  IF Falls THEN Reverse(run) ELSE run

Insertion(s, x, Cmp(_, _)) ==
    LET at[l \in 0 .. Len(s), r \in 0 .. Len(s)] ==
          LET mid == (l + r) \div 2
          IN  IF l >= r THEN l
              ELSE IF Cmp(x, s[mid + 1]) < 0 THEN at[l, mid] ELSE at[mid + 1, r]
    IN  Splice(s, at[0, Len(s)], <<x>>)

SortBy(s, Cmp(_, _)) ==
    IF Len(s) < 2 THEN s
    ELSE LET run == SortedRun(s, Cmp)
         IN  FoldLeft(LAMBDA r, x : Insertion(r, x, Cmp), run, SubSeq(s, Len(run) + 1, Len(s)))

-----------------------------------------------------------------------------
(* Filters: [op, filters], where a filter is a group again or a clause     *)
(* [property, condition, values : a sequence of ids].                      *)

NoFilter == [op |-> "and", filters |-> <<>>]
IsGroup(f) == "op" \in DOMAIN f

Me == "me"

RECURSIVE resolveMe(_, _)
resolveMe(group, meID) ==
    [group EXCEPT !.filters = [i \in DOMAIN @ |->
       IF IsGroup(@[i]) THEN resolveMe(@[i], meID)
       ELSE [@[i] EXCEPT !.values = [j \in DOMAIN @ |-> IF @[j] = Me THEN meID ELSE @[j]]]]]

ValueFor(b, c, p) ==
    IF b.types[p] = "createdBy" THEN {b.cards[c].creator} ELSE b.cards[c].props[p]

isClauseMet(b, c, f) ==
    LET value == ValueFor(b, c, f.property)
        hit == ToSet(f.values) \cap value # {}
    IN  CASE f.condition = "includes"    -> f.values = <<>> \/ hit
          [] f.condition = "notIncludes" -> f.values = <<>> \/ ~hit
          [] f.condition \in {"isEmpty", "isNotSet"} -> value = {}
          [] f.condition \in {"isNotEmpty", "isSet"} -> value # {}

RECURSIVE isFilterGroupMet(_, _, _)
isFilterGroupMet(b, c, group) ==
    LET Met(f) == IF IsGroup(f) THEN isFilterGroupMet(b, c, f) ELSE isClauseMet(b, c, f)
        all == ToSet(group.filters)
    IN  \/ all = {}
        \/ group.op = "or" /\ \E f \in all : Met(f)
        \/ group.op = "and" /\ \A f \in all : Met(f)

\* What a clause lets a new card have: its values, of one property.
propertyThatMeetsFilterClause(b, f) ==
    IF b.types[f.property] = "createdBy" THEN {}
    ELSE IF f.condition = "includes" /\ f.values # <<>> THEN {f.values[1]}
    ELSE IF f.condition = "isNotEmpty" /\ b.types[f.property] = "select" /\ b.options[f.property] # <<>>
         THEN {b.options[f.property][1]}
    ELSE {}

\* Variant: the first clause decides alone, whatever the operation.
firstClauseOnly(b, group) ==
    LET clauses == SelectSeq(group.filters, LAMBDA f : ~IsGroup(f))
    IN  [p \in DOMAIN b.types |-> IF clauses # <<>> /\ clauses[1].property = p
                                  THEN propertyThatMeetsFilterClause(b, clauses[1]) ELSE {}]

propertiesThatMeetFilterGroup(b, group) ==
    LET clauses == SelectSeq(group.filters, LAMBDA f : ~IsGroup(f))
        used == IF group.op = "or" /\ clauses # <<>> THEN <<clauses[1]>> ELSE clauses
        Set(props, f) == LET v == propertyThatMeetsFilterClause(b, f)
                         IN  IF v = {} THEN props ELSE [props EXCEPT ![f.property] = v]
    IN  FoldLeft(Set, [p \in DOMAIN b.types |-> {}], used)

-----------------------------------------------------------------------------
(* Orders.                                                                 *)

titleOrCreatedOrder(b, x, y) ==
    LET s == b.cards[x].title
        t == b.cards[y].title
    IN  IF s # 0 /\ t # 0 THEN s - t
        ELSE IF s # 0 THEN -1
        ELSE IF t # 0 THEN 1
        ELSE b.cards[x].created - b.cards[y].created

manualOrder(b, v, x, y) ==
    LET i == IndexIn(v.cardOrder, x)
        j == IndexIn(v.cardOrder, y)
    IN  IF i < 0 /\ j < 0 THEN titleOrCreatedOrder(b, x, y)
        ELSE IF i < 0 THEN 1
        ELSE i - j

\* The comparison of one sort option on a property that holds names.
sortOrder(b, option, x, y) ==
    LET sign == IF option.reversed THEN -1 ELSE 1
        Rank(c) == NameRank(CHOOSE o \in b.cards[c].props[option.property] : TRUE)
        none == {c \in {x, y} : b.cards[c].props[option.property] = {}}
        byName == Rank(x) - Rank(y)
    IN  IF option.property = "title" THEN sign * titleOrCreatedOrder(b, x, y)
        ELSE IF none = {y} THEN -1
        ELSE IF none = {x} THEN 1
        ELSE IF none # {} THEN titleOrCreatedOrder(b, x, y)
        ELSE sign * (IF byName = 0 THEN titleOrCreatedOrder(b, x, y) ELSE byName)

sortCards(b, v, s) ==
    IF v.sortOptions = <<>> THEN SortBy(s, LAMBDA x, y : manualOrder(b, v, x, y))
    ELSE FoldLeft(LAMBDA r, o : SortBy(r, LAMBDA x, y : sortOrder(b, o, x, y)), s, v.sortOptions)

\* Variant: only cards without a parent are top level cards.
onlyWithoutParent(b) == SelectSeq(b.stored, LAMBDA c : b.cards[c].parent = NoCard)

\* A card whose parent is gone counts as a top level card.
getCurrentBoardParentCards(b) == SelectSeq(b.stored, LAMBDA c : b.cards[c].parent \notin DOMAIN b.cards)

getCurrentBoardSubCardsByParent(b, v, p) ==
    LET subs == SelectSeq(b.stored, LAMBDA c : b.cards[c].parent = p)
        Rank(c) == IF Contains(v.cardOrder, c) THEN IndexIn(v.cardOrder, c) ELSE Len(v.cardOrder)
    IN  SortBy(subs, LAMBDA x, y : Rank(x) - Rank(y))

\* The cards of the open view: a kanban draws sub-cards as cards of their own.
ViewCards(b, v, meID) ==
    LET all == IF v.viewType = "board" THEN b.stored ELSE getCurrentBoardParentCards(b)
        filter == resolveMe(v.filter, meID)
    IN  sortCards(b, v, SelectSeq(all, LAMBDA c : isFilterGroupMet(b, c, filter)))

-----------------------------------------------------------------------------
(* Groups: [key, cards], the visible ones and the hidden ones.             *)

getGroupOptionIDForCard(b, p, c) == ValueFor(b, c, p)

groupCardsByOptions(b, p, s, keys) ==
    LET options == {{o} : o \in ToSet(b.options[p])}
        known == SelectSeq(keys, LAMBDA k : k = {} \/ k \in options)
        In(c, k) == IF k = {} THEN b.cards[c].props[p] \notin options ELSE b.cards[c].props[p] = k
    IN  [i \in DOMAIN known |-> [key |-> known[i], cards |-> SelectSeq(s, LAMBDA c : In(c, known[i]))]]

getOptionGroups(b, v, s) ==
    LET keys == [i \in DOMAIN b.options[v.groupById] |-> {b.options[v.groupById][i]}]
        listed == v.visibleOptionIds \o Seen(v.visibleOptionIds \o v.hiddenOptionIds, keys)
        visible == IF Contains(listed, {}) \/ Contains(v.hiddenOptionIds, {}) THEN listed
                   ELSE <<{}>> \o listed
    IN  [visible |-> groupCardsByOptions(b, v.groupById, s, visible),
         hidden  |-> groupCardsByOptions(b, v.groupById, s, v.hiddenOptionIds)]

orderGroupKeys(found, visible, hidden) ==
    LET first == SelectSeq(visible, LAMBDA k : Contains(found, k) /\ ~Contains(hidden, k))
    IN  [visible |-> first \o Seen(first \o hidden, found),
         hidden  |-> SelectSeq(hidden, LAMBDA k : Contains(found, k))]

\* People, multiple people, multiple options and linked cards: a group for
\* every value that a card has.
getValueGroups(b, v, s) ==
    LET Key(c) == getGroupOptionIDForCard(b, v.groupById, c)
        found == Distinct([i \in DOMAIN s |-> Key(s[i])])
        keys == orderGroupKeys(found, v.visibleOptionIds, v.hiddenOptionIds)
        Groups(ks) == [i \in DOMAIN ks |-> [key |-> ks[i], cards |-> SelectSeq(s, LAMBDA c : Key(c) = ks[i])]]
    IN  [visible |-> Groups(keys.visible), hidden |-> Groups(keys.hidden)]

getVisibleAndHiddenGroups(b, v, s) ==
    IF b.types[v.groupById] = "select" THEN getOptionGroups(b, v, s) ELSE getValueGroups(b, v, s)

-----------------------------------------------------------------------------
(* The rows of the table.  "closed" are the cards whose sub-cards the user *)
(* has folded away; an open list ends with an add row.                     *)

CardRow(b, v, c) ==
    [card |-> c, depth |-> b.cards[c].depth, parent |-> b.cards[c].parent, isListEnd |-> FALSE,
     groupValue |-> IF v.groupById = NoProperty THEN {} ELSE b.cards[c].props[v.groupById]]

EndRow(b, c) ==
    [card |-> ListEnd(c), depth |-> b.cards[c].depth + 1, parent |-> c, isListEnd |-> TRUE, groupValue |-> {}]

RECURSIVE TableRows(_, _, _, _)
TableRows(b, v, closed, s) ==
    LET Below(c) ==
          LET subs == getCurrentBoardSubCardsByParent(b, v, c)
          IN  IF subs = <<>> \/ c \in closed THEN <<>>
              ELSE TableRows(b, v, closed, subs)
                   \o (IF b.cards[c].depth < MaxCardDepth THEN <<EndRow(b, c)>> ELSE <<>>)
    IN  FlattenSeq([i \in DOMAIN s |-> <<CardRow(b, v, s[i])>> \o Below(s[i])])

\* A gallery, and a table without grouping, is one list.
Lists(b, v, meID) ==
    LET s == ViewCards(b, v, meID)
    IN  IF v.groupById = NoProperty \/ v.viewType = "gallery" THEN [visible |-> <<[key |-> {}, cards |-> s]>>, hidden |-> <<>>]
        ELSE getVisibleAndHiddenGroups(b, v, s)

Rows(b, v, closed, meID) ==
    LET groups == Lists(b, v, meID).visible
    IN  FlattenSeq([i \in DOMAIN groups |-> TableRows(b, v, closed, groups[i].cards)])

\* The cards with their sub-cards, as the export writes them.
RECURSIVE VisitCard(_, _, _, _)
VisitCard(b, v, flattened, c) ==
    IF Contains(flattened, c) THEN flattened
    ELSE FoldLeft(LAMBDA r, d : VisitCard(b, v, r, d), Append(flattened, c),
                  getCurrentBoardSubCardsByParent(b, v, c))

flattenWithSubCards(b, v, s) == FoldLeft(LAMBDA r, c : VisitCard(b, v, r, c), <<>>, s)

RECURSIVE collectSubtree(_, _, _)
collectSubtree(b, v, c) ==
    LET subs == getCurrentBoardSubCardsByParent(b, v, c)
    IN  <<c>> \o FlattenSeq([i \in DOMAIN subs |-> collectSubtree(b, v, subs[i])])

RECURSIVE subtreeHeight(_, _)
subtreeHeight(b, c) ==
    LET subs == {d \in DOMAIN b.cards : b.cards[d].parent = c}
        heights == {subtreeHeight(b, d) + 1 : d \in subs}
    IN  IF subs = {} THEN 0 ELSE CHOOSE h \in heights : \A i \in heights : h >= i

-----------------------------------------------------------------------------
(* Order lists.                                                            *)

\* Variants: the moved cards stay where they were as well; the place is
\* measured before they are taken out; the list starts from the store.
insertWithoutRemoving(order, all, moving, dest, place) ==
    LET seeded == Distinct(order \o all)
    IN  Splice(seeded, IndexIn(seeded, dest) + (IF place = "after" THEN 1 ELSE 0), moving)

measureBeforeRemoving(order, all, moving, dest, place) ==
    LET seeded == Distinct(order \o all)
    IN  Splice(Without(seeded, moving), IndexIn(seeded, dest) + (IF place = "after" THEN 1 ELSE 0), moving)

seedFromStore(order, all, moving, dest, place) ==
    LET without == Without(Distinct(all \o order), moving)
    IN  Splice(without, IndexIn(without, dest) + (IF place = "after" THEN 1 ELSE 0), moving)

moveInCardOrder(order, all, moving, dest, place) ==
    LET seeded == Distinct(order \o all)
        after == IF place = "guess" THEN IndexIn(seeded, moving[1]) <= IndexIn(seeded, dest)
                 ELSE place = "after"
        without == Without(seeded, moving)
        at == IndexIn(without, dest)
    IN  IF at = -1 THEN seeded
        ELSE Splice(without, IF after THEN at + 1 ELSE at, moving)

\* A column dragged onto another one, before it or after it.
dragAndDropRearrange(order, src, dst) ==
    LET i == IndexIn(order, src)
        j == IndexIn(order, dst)
        without == SubSeq(order, 1, i) \o SubSeq(order, i + 2, Len(order))
        to == IF j > i THEN j - 1 ELSE j
    IN  Splice(without, IF i > j THEN to ELSE to + 1, <<src>>)

=============================================================================
