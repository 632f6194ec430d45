---------------------------- MODULE BoardPatches ----------------------------
(***************************************************************************)
(* The patches of the web client: how blocks/block.ts and blocks/board.ts  *)
(* derive, from the old and the new form of a block or board, the patch of *)
(* a change and the patch that undoes it, and what the server makes of a   *)
(* patch (BlockPatch.Patch and BoardPatch.Patch).                          *)
(*                                                                         *)
(* A block is a function from its keys (title and fields alike) to values. *)
(* A board is                                                              *)
(*   [data           : its own keys (title, icon ...),                     *)
(*    properties     : a function from some keys to values,                *)
(*    cardProperties : a sequence of templates].                           *)
(* A template is [id, name, type, options, flags]; flags is a function on  *)
(* the optional keys it has.  JSON carries no key that is undefined.       *)
(***************************************************************************)
EXTENDS Lists

Undefined == "undefined"

OptionalKeys == {"required", "orgScoped"}

Ids(templates) == {templates[i].id : i \in DOMAIN templates}

IdList(templates) == [i \in DOMAIN templates |-> templates[i].id]

Template(templates, id) == CHOOSE t \in ToSet(templates) : t.id = id

Without(f, keys) == [k \in DOMAIN f \ keys |-> f[k]]

Only(key, value) == [k \in {key} |-> value]

\* f with the keys of g, where both have a key the value of g.
Over(f, g) == [k \in DOMAIN f \cup DOMAIN g |-> IF k \in DOMAIN g THEN g[k] ELSE f[k]]

-----------------------------------------------------------------------------
(* Blocks.                                                                 *)

\* The keys in which two forms of a block differ.  Arrays and maps that the
\* new form holds as copies are never identical to the old ones, whatever
\* they hold.
Changed(new, old, copied) ==
    {k \in DOMAIN new \cap DOMAIN old : k \in copied \/ new[k] # old[k]}

BlockPatch(to, from, copied) ==
    [updatedFields |-> [k \in (DOMAIN to \ DOMAIN from) \cup Changed(to, from, copied) |-> to[k]],
     deletedFields |-> DOMAIN from \ DOMAIN to]

\* The patch of a change and the patch that undoes it.
createPatchesFromBlocks(new, old, copied) ==
    <<BlockPatch(new, old, copied), BlockPatch(old, new, copied)>>

\* BlockPatch.Patch on the server.
PatchBlock(patch, block) ==
    Without(Over(block, patch.updatedFields), patch.deletedFields)

-----------------------------------------------------------------------------
(* Card property templates.                                                *)

Flag(t, k) == IF k \in DOMAIN t.flags THEN t.flags[k] ELSE Undefined

\* Every key of the first one is compared, options included; a key that only
\* the second one has is not.
isPropertyEqual(a, b) ==
    /\ a.id = b.id /\ a.name = b.name /\ a.type = b.type
    /\ a.options = b.options
    /\ \A k \in DOMAIN a.flags : a.flags[k] = Flag(b, k)

\* The templates of a that b has not, or has in another form.
Differing(a, b) ==
    Filtered(a, {t \in ToSet(a) : t.id \notin Ids(b) \/ ~isPropertyEqual(t, Template(b, t.id))})

\* The patch that leads from one list of templates to another.  When the list
\* of ids differs, all templates are sent with their index.
CardPropertiesPatch(to, from) ==
    [indexed |-> IdList(to) # IdList(from),
     updated |-> IF IdList(to) # IdList(from) THEN to ELSE Differing(to, from),
     deleted |-> Ids(from) \ Ids(to)]

createCardPropertiesPatches(new, old) ==
    <<CardPropertiesPatch(new, old), CardPropertiesPatch(old, new)>>

\* What the server stores of a template it is sent: JSON drops the keys that
\* are undefined.
Stored(t) == [t EXCEPT !.flags =
                Without(@, {k \in DOMAIN @ : @[k] = Undefined})]

\* BoardPatch.Patch on the server: deleted templates go, updated ones replace
\* those of the same id or come last.  As soon as one template has an index,
\* the list is made of the templates with an index, and of no other.
PatchCardProperties(patch, templates) ==
    LET sent == [i \in DOMAIN patch.updated |-> Stored(patch.updated[i])]
        Now(t) == IF t.id \in Ids(sent) THEN Template(sent, t.id) ELSE t
        kept == Filtered(templates, {t \in ToSet(templates) : t.id \notin patch.deleted})
        added == Filtered(sent, {t \in ToSet(sent) : t.id \notin Ids(kept)})
    IN  IF patch.indexed /\ sent # <<>>
        THEN sent
        ELSE [i \in DOMAIN kept |-> Now(kept[i])] \o added

-----------------------------------------------------------------------------
(* Boards.                                                                 *)

\* The deep copy createBoard makes: a template has every optional key.
createBoard(board) ==
    [board EXCEPT !.cardProperties =
       [i \in DOMAIN @ |-> [@[i] EXCEPT !.flags = [k \in OptionalKeys |-> Flag(board.cardProperties[i], k)]]]]

BoardPatch(to, from, cardPropertiesPatch) ==
    [data |-> [k \in {k \in DOMAIN to.data : to.data[k] # from.data[k]} |-> to.data[k]],
     cardProperties |-> cardPropertiesPatch,
     updatedProperties |->
       [k \in {k \in DOMAIN to.properties :
                 k \notin DOMAIN from.properties \/ from.properties[k] # to.properties[k]}
          |-> to.properties[k]],
     deletedProperties |-> DOMAIN from.properties \ DOMAIN to.properties]

createPatchesFromBoards(new, old) ==
    LET patches == createCardPropertiesPatches(new.cardProperties, old.cardProperties)
    IN  <<BoardPatch(new, old, patches[1]), BoardPatch(old, new, patches[2])>>

PatchBoard(patch, board) ==
    [data |-> Over(board.data, patch.data),
     properties |-> Without(Over(board.properties, patch.updatedProperties), patch.deletedProperties),
     cardProperties |->
       IF patch.cardProperties.updated = <<>> /\ patch.cardProperties.deleted = {}
       THEN board.cardProperties
       ELSE PatchCardProperties(patch.cardProperties, board.cardProperties)]

=============================================================================
