------------------------------ MODULE Sessions ------------------------------
(***************************************************************************)
(* What the commands of mutator.ts keep true of a board and its cards when *)
(* they are given to the undo manager, undone and done again.              *)
(***************************************************************************)
EXTENDS UndoManager, Mutator

Templates(c) == c.board.cardProperties

ListKeys == {"visiblePropertyIds", "sortOptions", "filter"}

\* The properties the view and the cards refer to.
Used(c) ==
    (UNION {ToSet(View(c)[key]) : key \in ListKeys})
    \cup ({View(c).groupById} \ {""})
    \cup (UNION {DOMAIN c.blocks[id].f.properties : id \in CardsOf(c)})

AllThere(c) == Used(c) \subseteq Ids(Templates(c))

\* A property the view or a card refers to is one of the board, also after
\* properties were added and deleted, undone and redone one call at a time (mutator.ts:597).
PropertiesExist == alone => AllThere(content)

\* What is shown of the value of a property.
Shown(c, id, p) ==
    LET t == Template(Templates(c), p)
        value == First(c, id, p)
    IN  IF t.type \in SelectTypes THEN {o.value : o \in {o \in ToSet(t.options) : o.id = value}}
        ELSE {value}

\* What a card says as a text.
Texts(c, id) ==
    {p \in DOMAIN c.blocks[id].f.properties \cap Ids(Templates(c)) :
       Template(Templates(c), p).type = "text" /\ c.blocks[id].f.properties[p] # <<>>}

\* Turning a text into a select changes what is stored and nothing of what
\* is shown, whatever came before and is still under way (mutator.ts:1040).
ConversionKeepsTexts ==
    \A id \in CardsOf(content) : \A p \in Texts(content, id) :
      LET converted == RedoOf(changePropertyTypeAndName(content, p, "multiSelect", "n", SetToSeq(GuidIds)),
                              content)
      IN  Shown(converted, id, p) = Shown(content, id, p)

\* The departments among some values are of the divisions among them.
InRange(c, properties) ==
    selectedUnitIds(c, properties, "orgDepartment")
      \subseteq allowedDepartments(selectedUnitIds(c, properties, "orgDivision"))

AllInRange(c) == \A id \in CardsOf(c) : InRange(c, c.blocks[id].f.properties)

\* A card names only departments of its own divisions, as long as it names a
\* division (mutator.ts:917): also after a change of the division, its undo
\* and its redo.
DepartmentsInRange == alone => AllInRange(content)

=============================================================================
