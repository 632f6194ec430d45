------------------------------ MODULE CardEditor ------------------------------
(***************************************************************************)
(* The document of a card: useBlockSuiteEditor.ts with the effects of      *)
(* BlockSuiteEditor.tsx that build the editor, the calls of                *)
(* blockSuiteApi.ts, and the ids of the uploaded files that                *)
(* focalboardBlobSource.ts saves with a document.                          *)
(*                                                                         *)
(* A document is the set of the edits in it, with the images whose file    *)
(* ids it carries: those that the client knew, in this document or not.    *)
(* An editor is one mounted instance of the component; its timers and      *)
(* calls outlive it.  The snapshot of an edit is taken in the step of the  *)
(* edit.                                                                   *)
(***************************************************************************)
EXTENDS Integers, FiniteSets

CONSTANTS Editors,     \* bound: the editors opened, 1 .. n in this order
          Clients,     \* bound: 1 .. n, named in the order they open the card
          MaxEdits,    \* bound: edits in all editors
          MaxPastes,   \* bound: edits that paste an image
          MaxFails,    \* bound: calls that fail
          MaxTurns     \* bound: times an editor becomes readonly or writable

ASSUME EditorAssumption ==
    /\ Editors \subseteq Nat /\ Clients \subseteq Nat /\ 1 \in Clients
    /\ MaxEdits \in Nat /\ MaxPastes \in Nat /\ MaxFails \in Nat /\ MaxTurns \in Nat

VARIABLES stored,      \* what the server has: {} or {document}
          editors,
          files,       \* globalKeyToFileIdMap of each client, as a set of images
          uploading,   \* images on their way to the server, of each client
          by,          \* by[e]: the editor of edit e
          pastes, fails, turns,
          lost         \* what the code is known to give up, and where

vars == <<stored, editors, files, uploading, by, pastes, fails, turns, lost>>

Edits == 1 .. MaxEdits

\* An editor is "unused", waits for "info" or "content", is "open" or "failed".
\* loaded and content are the edits in what it was given and in what it shows.
\* timer, pending, handed hold snapshots, that is sets of edits: the one of
\* saveTimeoutRef, of pendingSnapshotRef, and those handed to the timer of
\* 100 ms.  saving is the document on its way to the server, and whether it is
\* there; newest is the last one that was.  cleanup: the effect that loads has
\* still to be cleaned up.
Unused(c) ==
    [client |-> c, at |-> "unused", mounted |-> FALSE, cleanup |-> FALSE, readonly |-> FALSE,
     loaded |-> {}, content |-> {}, timer |-> {}, pending |-> {}, handed |-> {}, saving |-> {},
     newest |-> {}]

Empty == [edits |-> {}, files |-> {}]

Init ==
    /\ stored = {}
    /\ editors = [i \in Editors |-> Unused(1)]
    /\ files = [c \in Clients |-> {}]
    /\ uploading = [c \in Clients |-> {}]
    /\ by = <<>>
    /\ pastes = 0
    /\ fails = 0
    /\ turns = 0
    /\ lost = Empty

-----------------------------------------------------------------------------
(* What is given up.                                                       *)

StoredEdits == UNION {d.edits : d \in stored}
StoredFiles == UNION {d.files : d \in stored}

Saved(r) == UNION {s.doc.edits : s \in r.saving}
SavedFiles(r) == UNION {s.doc.files : s \in r.saving}

\* What is still to be prepared for a save: a snapshot that waits for a save
\* that failed is handed over by the next one, if there is a next one.
Waiting(r) == UNION (r.timer \cup r.handed \cup IF r.saving = {} THEN {} ELSE r.pending)

GiveUp(edits, fileIds) ==
    lost' = [edits |-> lost.edits \cup edits, files |-> lost.files \cup fileIds]

\* Snapshots are dropped: what nothing else carries is gone until the next
\* edit.  r is what is left of the editor.
Drop(snapshots, r) ==
    GiveUp(UNION snapshots \ (StoredEdits \cup Saved(r) \cup Waiting(r)),
           UNION snapshots \ (StoredFiles \cup SavedFiles(r) \cup Waiting(r)))

-----------------------------------------------------------------------------
(* Loading.                                                                *)

\* The dialog is keyed by its card: every time it is opened, its editor is new.
Open(i, c) ==
    /\ editors[i].at = "unused" /\ c <= i
    /\ \A j \in Editors : j < i => editors[j].at # "unused"
    /\ \A j \in Editors : ~(editors[j].mounted /\ editors[j].client = c)
    /\ editors' = [editors EXCEPT ![i] =
                     [Unused(c) EXCEPT !.at = "info", !.mounted = TRUE, !.cleanup = TRUE]]
    /\ UNCHANGED <<stored, files, uploading, by, pastes, fails, turns, lost>>

\* getDocInfo: no document is an empty one.
InfoAnswers(i) ==
    /\ editors[i].at = "info"
    /\ editors' = [editors EXCEPT ![i].at = IF stored = {} THEN "open" ELSE "content"]
    /\ UNCHANGED <<stored, files, uploading, by, pastes, fails, turns, lost>>

\* getDocContent, and restoreSnapshotBlobMappings.
ContentAnswers(i) ==
    /\ editors[i].at = "content"
    /\ editors' = [editors EXCEPT ![i].at = "open", ![i].loaded = StoredEdits, ![i].content = StoredEdits]
    /\ files' = [files EXCEPT ![editors[i].client] = @ \cup StoredFiles]
    /\ UNCHANGED <<stored, uploading, by, pastes, fails, turns, lost>>

LoadFails(i) ==
    /\ editors[i].at \in {"info", "content"}
    /\ fails < MaxFails
    /\ fails' = fails + 1
    /\ editors' = [editors EXCEPT ![i].at = "failed"]
    /\ UNCHANGED <<stored, files, uploading, by, pastes, turns, lost>>

-----------------------------------------------------------------------------
(* Editing.                                                                *)

\* handleDocUpdate and scheduleSave: the timer starts anew with each edit.
\* The images of a paste are uploaded meanwhile (hydrateClipboardBlobPayload).
Edit(i, paste) ==
    LET r == editors[i]
        e == Cardinality(DOMAIN by) + 1
    IN  /\ r.at = "open" /\ r.mounted /\ ~r.readonly
        /\ e \in Edits
        /\ by' = [f \in 1 .. e |-> IF f = e THEN i ELSE by[f]]
        /\ editors' = [editors EXCEPT ![i].content = @ \cup {e}, ![i].timer = {r.content \cup {e}}]
        /\ paste => pastes < MaxPastes
        /\ pastes' = IF paste THEN pastes + 1 ELSE pastes
        /\ uploading' = IF paste THEN [uploading EXCEPT ![r.client] = @ \cup {e}] ELSE uploading
        /\ UNCHANGED <<stored, files, fails, turns, lost>>

\* The upload is answered, and the file id registered.  Nothing is saved for
\* it: it waits for a snapshot that is yet to be prepared.
UploadEnds(c, e) ==
    /\ e \in uploading[c]
    /\ uploading' = [uploading EXCEPT ![c] = @ \ {e}]
    /\ files' = [files EXCEPT ![c] = @ \cup {e}]
    /\ IF \E i \in Editors : editors[i].client = c /\ e \in Waiting(editors[i])
       THEN UNCHANGED lost
       ELSE GiveUp({}, {e})
    /\ UNCHANGED <<stored, editors, by, pastes, fails, turns>>

\* Or it fails, and the image never gets a file id.
UploadFails(c, e) ==
    /\ e \in uploading[c]
    /\ fails < MaxFails
    /\ fails' = fails + 1
    /\ uploading' = [uploading EXCEPT ![c] = @ \ {e}]
    /\ UNCHANGED <<stored, editors, files, by, pastes, turns, lost>>

\* The cleanup of the effect that loads: it is run once, when the card or the
\* contents are first given anew, or when the editor closes.
Rerender(i) ==
    LET r == [editors[i] EXCEPT !.cleanup = FALSE, !.timer = {}]
    IN  /\ editors[i].mounted /\ editors[i].cleanup
        /\ editors' = [editors EXCEPT ![i] = r]
        /\ Drop(editors[i].timer, r)
        /\ UNCHANGED <<stored, files, uploading, by, pastes, fails, turns>>

Close(i) ==
    LET r == [editors[i] EXCEPT !.mounted = FALSE, !.cleanup = FALSE,
                                !.timer = IF editors[i].cleanup THEN {} ELSE @]
    IN  /\ editors[i].mounted
        /\ editors' = [editors EXCEPT ![i] = r]
        /\ IF editors[i].cleanup THEN Drop(editors[i].timer, r) ELSE UNCHANGED lost
        /\ UNCHANGED <<stored, files, uploading, by, pastes, fails, turns>>

\* The user loses the right to edit the card, or gets it back: the editor is
\* built again, from the snapshot that was loaded.
Turn(i) ==
    LET r == editors[i]
        s == [r EXCEPT !.readonly = ~@, !.cleanup = FALSE, !.content = r.loaded, !.timer = {},
                       !.pending = IF r.readonly THEN @ ELSE {}]
    IN  /\ r.at = "open" /\ r.mounted
        /\ turns < MaxTurns
        /\ turns' = turns + 1
        /\ editors' = [editors EXCEPT ![i] = s]
        /\ LET gone == (r.content \ r.loaded) \cup UNION (r.timer \cup (r.pending \ s.pending))
           IN  GiveUp(gone \ r.loaded, gone)
        /\ UNCHANGED <<stored, files, uploading, by, pastes, fails>>

-----------------------------------------------------------------------------
(* Saving.                                                                 *)

\* Mutant of saveSnapshot: what comes during a save is forgotten.
saveSnapshotBusy(r, snapshot) ==
    IF r.saving # {} THEN r
    ELSE [r EXCEPT !.saving = {[doc |-> [edits |-> snapshot, files |-> files[r.client]],
                                reached |-> FALSE]}]

\* Mutant of saveSnapshot: a document is saved without its file ids.
saveSnapshotBare(r, snapshot) ==
    IF r.saving # {} THEN [r EXCEPT !.pending = {snapshot}]
    ELSE [r EXCEPT !.saving = {[doc |-> [edits |-> snapshot, files |-> {}], reached |-> FALSE]}]

\* One save at a time: the last snapshot that comes meanwhile is kept.  The file
\* ids are added (prepareSnapshotForSave) when the save starts.
saveSnapshot(r, snapshot) ==
    IF r.saving # {} THEN [r EXCEPT !.pending = {snapshot}]
    ELSE [r EXCEPT !.saving = {[doc |-> [edits |-> snapshot, files |-> files[r.client]],
                                reached |-> FALSE]}]

TimerFires(i) ==
    /\ \E s \in editors[i].timer :
         editors' = [editors EXCEPT ![i] = saveSnapshot([@ EXCEPT !.timer = {}], s)]
    /\ UNCHANGED <<stored, files, uploading, by, pastes, fails, turns, lost>>

\* The 100 ms are over: the snapshot that waited for a save is saved, even if a
\* newer one was saved in the meantime.
HandedFires(i) ==
    \E s \in editors[i].handed :
        LET r == editors[i]
            newer == (r.newest \cup Saved(r) \cup UNION r.pending) \ s
        IN  /\ editors' = [editors EXCEPT ![i] = saveSnapshot([r EXCEPT !.handed = @ \ {s}], s)]
            /\ GiveUp(newer, newer)
            /\ UNCHANGED <<stored, files, uploading, by, pastes, fails, turns>>

\* The server takes the document as it is.  It was made of what its editor
\* loaded and did: what other editors saved since is overwritten.
SaveReaches(i) ==
    \E s \in editors[i].saving :
        /\ ~s.reached
        /\ stored' = {s.doc}
        /\ editors' = [editors EXCEPT ![i].saving = {[s EXCEPT !.reached = TRUE]},
                                      ![i].newest = s.doc.edits]
        /\ GiveUp({e \in StoredEdits \ s.doc.edits : by[e] # i},
                  IF StoredEdits = editors[i].newest THEN {} ELSE StoredFiles \ s.doc.files)
        /\ UNCHANGED <<files, uploading, by, pastes, fails, turns>>

SaveAnswers(i) ==
    \E s \in editors[i].saving :
        /\ s.reached
        /\ editors' = [editors EXCEPT ![i].saving = {}, ![i].pending = {},
                                      ![i].handed = @ \cup editors[i].pending]
        /\ UNCHANGED <<stored, files, uploading, by, pastes, fails, turns, lost>>

\* A call that fails, before or after it reached the server, leaves the
\* waiting snapshot where it is: it is not tried again.
SaveFails(i) ==
    \E s \in editors[i].saving :
        LET r == [editors[i] EXCEPT !.saving = {}]
        IN  /\ fails < MaxFails
            /\ fails' = fails + 1
            /\ editors' = [editors EXCEPT ![i] = r]
            /\ Drop({s.doc.edits} \cup r.pending, r)
            /\ UNCHANGED <<stored, files, uploading, by, pastes, turns>>

-----------------------------------------------------------------------------

Works(i) == TimerFires(i) \/ HandedFires(i) \/ SaveReaches(i) \/ SaveAnswers(i) \/ SaveFails(i)

Next ==
    \/ \E i \in Editors :
         \/ \E c \in Clients : Open(i, c)
         \/ InfoAnswers(i) \/ ContentAnswers(i) \/ LoadFails(i)
         \/ Edit(i, FALSE) \/ Edit(i, TRUE)
         \/ Rerender(i) \/ Close(i) \/ Turn(i)
         \/ Works(i)
    \/ \E c \in Clients, e \in Edits : UploadEnds(c, e) \/ UploadFails(c, e)

Spec == Init /\ [][Next]_vars
        /\ \A i \in Editors : WF_vars(Works(i))
        /\ \A c \in Clients : WF_vars(\E e \in Edits : UploadEnds(c, e) \/ UploadFails(c, e))

-----------------------------------------------------------------------------
(* Properties.                                                             *)

\* Every edit is on the server in the end and stays there, but for those that
\* the steps above give up: with a timer that is cleared, a save that fails, a
\* snapshot that waited too long, an editor that is built again, and a document
\* of another editor (useBlockSuiteEditor.ts:103, 135, 240).
EditsReachServer == <>[](DOMAIN by \ lost.edits \subseteq StoredEdits)

\* So is the file id of every image that the stored document has: without it no
\* other client can show the image (focalboardBlobSource.ts:273, 558).
ImagesHaveFiles ==
    <>[](\A e \in StoredEdits \ lost.files : (\E c \in Clients : e \in files[c]) => e \in StoredFiles)

=============================================================================
