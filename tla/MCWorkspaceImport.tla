--------------------------- MODULE MCWorkspaceImport ---------------------------
(* Small selections for model-checking WorkspaceImport. *)
EXTENDS WorkspaceImport, TLC

CONSTANTS work, part, note, folder, order

Copy(kind, id) ==
  [kind |-> kind, id |-> id, under |-> NoId, into |-> NoId, text |-> FALSE,
   icon |-> FALSE, archived |-> FALSE, renamed |-> FALSE]

\* A work item that is archived; a manual order; a note in a legacy folder, a
\* text; a note with an icon in a folder; a renamed file, and a folder below one
\* with an icon.
WorkSelection == <<[Copy("WORK", work) EXCEPT !.archived = TRUE]>>
OrderSelection == <<Copy("ORDER", order)>>
TextSelection == <<[Copy("NOTE", note) EXCEPT !.text = TRUE]>>
NoteSelection ==
  <<[Copy("NOTE", note) EXCEPT !.into = folder, !.icon = TRUE], Copy("FOLDER", folder)>>
FolderSelection ==
  <<[Copy("FILE", work) EXCEPT !.renamed = TRUE],
    [Copy("FOLDER", part) EXCEPT !.under = folder],
    [Copy("FOLDER", folder) EXCEPT !.icon = TRUE]>>
MostSelections ==
  {WorkSelection, OrderSelection, TextSelection, NoteSelection, FolderSelection}

\* A note in a legacy folder, with an icon.
LegacySelection == <<[Copy("NOTE", note) EXCEPT !.text = TRUE, !.icon = TRUE]>>
LegacySelections == {LegacySelection}

TheOrders == {order}
TabSymmetry == Permutations(Tabs)
=============================================================================
