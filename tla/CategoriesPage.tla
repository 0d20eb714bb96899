---------------------------- MODULE CategoriesPage ----------------------------
(***************************************************************************)
(* The categories page: a list that every change loads again, a sheet to   *)
(* create or edit one, a toggle per row, and a confirmed deletion.  Loads  *)
(* are numbered and only the latest one asked for is shown.  The sheet and *)
(* the dialog have no trigger, so the page places focus itself when they   *)
(* close.  A category is 0 when it does not exist, and otherwise its name  *)
(* (a positive number), negative while it is inactive; type, icon and      *)
(* order are left out.                                                     *)
(***************************************************************************)
EXTENDS Integers, FiniteSets

CONSTANTS CategoryCount, CategoryNames, UsedCategories, MaxCategoryActs, MaxCategoryFaults

ASSUME CategoryAssumption ==
    /\ CategoryCount \in Nat \ {0} /\ UsedCategories \subseteq 1..CategoryCount
    /\ CategoryNames \subseteq Nat \ {0} /\ CategoryNames # {}
    /\ {MaxCategoryActs, MaxCategoryFaults} \subseteq Nat

CategoryIDs == 1..CategoryCount
FirstName == CHOOSE n \in CategoryNames : \A m \in CategoryNames : n <= m

VARIABLES
    serverCategories,
    lastCategoryId,              \* ids are given out once (AUTOINCREMENT)
    shownCategories,
    fetchSeq, categoryLoads,     \* the latest load's number, and loads under way
    editor, editorSave,          \* the sheet and the request it made
    patches,                     \* PATCHes of is_active under way
    deleteTarget, deletion,      \* the dialog's category and its request
    deletedRef, lastDeleteId, editorAnchor,
    categoryExiting,             \* "editor" and "delete" while they animate out
    categoryFocus,               \* a row's id, or "add", "heading", "overlay" or "lost" by number
    categoryBudget, categoryNotes

categoryTable == <<serverCategories, lastCategoryId>>
categoryVars == <<categoryTable, shownCategories, fetchSeq, categoryLoads, editor, editorSave,
                  patches, deleteTarget, deletion, deletedRef, lastDeleteId, editorAnchor,
                  categoryExiting, categoryFocus, categoryBudget, categoryNotes>>

CategoryAct   == /\ categoryBudget.acts < MaxCategoryActs
                 /\ categoryBudget' = [categoryBudget EXCEPT !.acts = @ + 1]
CategoryFault == /\ categoryBudget.faults < MaxCategoryFaults
                 /\ categoryBudget' = [categoryBudget EXCEPT !.faults = @ + 1]

\* Places focus can be, besides a row's menu button.
OnAdd == 0
OnHeading == -1
OnOverlay == -2
FocusLost == -3

NoCategories == [c \in CategoryIDs |-> 0]
NoEditor == [mode |-> "none", id |-> 0, name |-> 0]
NoEditorSave == [phase |-> "none", mode |-> "none", id |-> 0, name |-> 0]
InList == {c \in CategoryIDs : shownCategories[c] # 0}

\* focusRowTrigger: the row's button if it is there.
RowTrigger(c) == IF c \in InList THEN c ELSE OnHeading

\* fetchCategories
Refetch(loads) == /\ fetchSeq' = fetchSeq + 1
                  /\ categoryLoads' = loads \cup {[seq |-> fetchSeq + 1, phase |-> "asked",
                                                   data |-> NoCategories]}

CategoriesInit ==
    /\ serverCategories = [c \in CategoryIDs |-> IF c = CategoryCount THEN 0 ELSE FirstName]
    /\ lastCategoryId = CategoryCount - 1
    /\ shownCategories = NoCategories
    /\ fetchSeq = 1 /\ categoryLoads = {[seq |-> 1, phase |-> "asked", data |-> NoCategories]}
    /\ editor = NoEditor /\ editorSave = NoEditorSave /\ patches = {}
    /\ deleteTarget = 0 /\ deletion = "none" /\ deletedRef = FALSE /\ lastDeleteId = 0
    /\ editorAnchor = 0 /\ categoryExiting = {} /\ categoryFocus = OnHeading
    /\ categoryBudget = [acts |-> 0, faults |-> 0] /\ categoryNotes = {}

overlayVars == <<editor, editorSave, deleteTarget, deletion, deletedRef, lastDeleteId, editorAnchor,
                 categoryExiting>>

ServeCategoryLoad ==
    \E l \in categoryLoads :
        /\ l.phase = "asked"
        /\ \/ /\ categoryLoads' = (categoryLoads \ {l})
                     \cup {[l EXCEPT !.phase = "ok", !.data = serverCategories]}
              /\ UNCHANGED categoryBudget
           \/ /\ CategoryFault
              /\ categoryLoads' = (categoryLoads \ {l}) \cup {[l EXCEPT !.phase = "failed"]}
        /\ UNCHANGED <<categoryTable, shownCategories, fetchSeq, overlayVars, patches,
                       categoryFocus, categoryNotes>>

\* mutant: an older load may replace a newer one
CurrentAny(l) == TRUE

Current(l) == l.seq = fetchSeq

\* An overtaken answer is dropped, a failed one empties the list; a row that is
\* no longer listed takes the focus it has along.
CategoriesLoaded ==
    \E l \in categoryLoads :
        /\ l.phase # "asked" /\ categoryLoads' = categoryLoads \ {l}
        /\ IF ~Current(l) THEN UNCHANGED <<shownCategories, categoryFocus, categoryNotes>>
           ELSE /\ shownCategories' = IF l.phase = "ok" THEN l.data ELSE NoCategories
                /\ categoryFocus' = IF categoryFocus \in CategoryIDs /\ shownCategories'[categoryFocus] = 0
                                    THEN FocusLost ELSE categoryFocus
                /\ categoryNotes' = IF l.phase = "ok" THEN categoryNotes \ {"failed"}
                                    ELSE categoryNotes \cup {"failed", "emptied"}
        /\ UNCHANGED <<categoryTable, fetchSeq, overlayVars, patches, categoryBudget>>

\* A row the server has deleted, used before the list says so.
NoteStale(c) == categoryNotes' = IF serverCategories[c] = 0 THEN categoryNotes \cup {"stale"}
                                 ELSE categoryNotes

\* The page behind an overlay takes no pointer until the overlay has left.
OverlayOpen == editor # NoEditor \/ deleteTarget # 0

OpenEditor ==
    /\ ~OverlayOpen /\ categoryExiting = {} /\ CategoryAct
    /\ \/ /\ editor' = [mode |-> "create", id |-> 0, name |-> 0] /\ editorAnchor' = OnAdd
          /\ UNCHANGED categoryNotes
       \/ \E c \in InList :
             /\ editor' = [mode |-> "edit", id |-> c,
                           name |-> IF shownCategories[c] > 0 THEN shownCategories[c]
                                    ELSE -shownCategories[c]]
             /\ editorAnchor' = c /\ NoteStale(c)
    /\ categoryFocus' = OnOverlay
    /\ UNCHANGED <<categoryTable, shownCategories, fetchSeq, categoryLoads, editorSave, patches,
                   deleteTarget, deletion, deletedRef, lastDeleteId, categoryExiting>>

TypeCategoryName ==
    /\ editor # NoEditor /\ CategoryAct
    /\ \E n \in CategoryNames \ {editor.name} : editor' = [editor EXCEPT !.name = n]
    /\ UNCHANGED <<categoryTable, shownCategories, fetchSeq, categoryLoads, editorSave, patches,
                   deleteTarget, deletion, deletedRef, lastDeleteId, editorAnchor, categoryExiting,
                   categoryFocus, categoryNotes>>

\* Cancel and Escape work while a save is under way.
CloseEditor ==
    /\ editor # NoEditor
    /\ editor' = NoEditor /\ categoryExiting' = categoryExiting \cup {"editor"}
    /\ UNCHANGED <<categoryTable, shownCategories, fetchSeq, categoryLoads, editorSave, patches,
                   deleteTarget, deletion, deletedRef, lastDeleteId, editorAnchor, categoryFocus,
                   categoryBudget, categoryNotes>>

HandleCategorySave ==
    /\ editor # NoEditor /\ editor.name # 0 /\ editorSave.phase = "none" /\ CategoryAct
    /\ editorSave' = [phase |-> "asked", mode |-> editor.mode, id |-> editor.id, name |-> editor.name]
    /\ UNCHANGED <<categoryTable, shownCategories, fetchSeq, categoryLoads, editor, patches,
                   deleteTarget, deletion, deletedRef, lastDeleteId, editorAnchor, categoryExiting,
                   categoryFocus, categoryNotes>>

ServeCategorySave ==
    /\ editorSave.phase = "asked"
    /\ LET next == lastCategoryId + 1
           at == IF editorSave.mode = "create" THEN {next} \cap CategoryIDs
                 ELSE {c \in CategoryIDs : c = editorSave.id /\ serverCategories[c] # 0}
           Stored(c) == [serverCategories EXCEPT ![c] = IF @ < 0 THEN -editorSave.name ELSE editorSave.name]
       IN  \/ \E c \in at :
                 /\ serverCategories' = Stored(c)
                 /\ lastCategoryId' = IF editorSave.mode = "create" THEN next ELSE lastCategoryId
                 /\ \/ editorSave' = [editorSave EXCEPT !.phase = "ok"]
                       /\ UNCHANGED <<categoryBudget, categoryNotes>>
                    \/ /\ CategoryFault /\ editorSave' = [editorSave EXCEPT !.phase = "failed"]
                       /\ categoryNotes' = categoryNotes \cup {"unanswered"}
           \/ /\ (at = {} /\ UNCHANGED categoryBudget) \/ CategoryFault
              /\ editorSave' = [editorSave EXCEPT !.phase = "failed"]
              /\ UNCHANGED <<categoryTable, categoryNotes>>
    /\ UNCHANGED <<shownCategories, fetchSeq, categoryLoads, editor, patches, deleteTarget, deletion,
                   deletedRef, lastDeleteId, editorAnchor, categoryExiting, categoryFocus>>

\* Success closes whichever sheet is open by now; failure keeps it.
CategorySaveAnswered ==
    /\ editorSave.phase \in {"ok", "failed"} /\ editorSave' = NoEditorSave
    /\ IF editorSave.phase = "ok"
       THEN /\ editor' = NoEditor
            /\ categoryExiting' = categoryExiting \cup (IF editor = NoEditor THEN {} ELSE {"editor"})
            /\ Refetch(categoryLoads)
       ELSE UNCHANGED <<editor, categoryExiting, fetchSeq, categoryLoads>>
    /\ UNCHANGED <<categoryTable, shownCategories, patches, deleteTarget, deletion, deletedRef,
                   lastDeleteId, editorAnchor, categoryFocus, categoryBudget, categoryNotes>>

\* onCloseAutoFocus of the sheet: unless another one took the focus already.
EditorExited ==
    /\ "editor" \in categoryExiting /\ categoryExiting' = categoryExiting \ {"editor"}
    /\ categoryFocus' = IF OverlayOpen THEN categoryFocus
                        ELSE IF editorAnchor = OnAdd THEN OnAdd ELSE RowTrigger(editorAnchor)
    /\ UNCHANGED <<categoryTable, shownCategories, fetchSeq, categoryLoads, editor, editorSave,
                   patches, deleteTarget, deletion, deletedRef, lastDeleteId, editorAnchor,
                   categoryBudget, categoryNotes>>

HandleToggleActive ==
    /\ ~OverlayOpen /\ categoryExiting = {} /\ CategoryAct
    /\ \E c \in InList :
          /\ patches' = patches \cup {[id |-> c, active |-> shownCategories[c] < 0, phase |-> "asked"]}
          /\ categoryFocus' = c /\ NoteStale(c)
    /\ UNCHANGED <<categoryTable, shownCategories, fetchSeq, categoryLoads, overlayVars>>

ServeToggle ==
    \E p \in patches :
        /\ p.phase = "asked"
        /\ LET name == IF serverCategories[p.id] < 0 THEN -serverCategories[p.id] ELSE serverCategories[p.id]
               set == [serverCategories EXCEPT ![p.id] = IF p.active THEN name ELSE -name]
               Answered(ph) == patches' = (patches \ {p}) \cup {[p EXCEPT !.phase = ph]}
           IN  \/ /\ name # 0 /\ serverCategories' = set /\ Answered("ok")
                  /\ UNCHANGED <<categoryBudget, categoryNotes>>
               \/ /\ name = 0 /\ Answered("failed")
                  /\ UNCHANGED <<serverCategories, categoryBudget, categoryNotes>>
               \/ /\ CategoryFault /\ Answered("failed") /\ serverCategories' \in {serverCategories, set}
                  /\ categoryNotes' = categoryNotes \cup {"unanswered"}
        /\ UNCHANGED <<lastCategoryId, shownCategories, fetchSeq, categoryLoads, overlayVars,
                       categoryFocus>>

ToggleAnswered ==
    \E p \in patches :
        /\ p.phase # "asked" /\ patches' = patches \ {p}
        /\ IF p.phase = "ok" THEN Refetch(categoryLoads) ELSE UNCHANGED <<fetchSeq, categoryLoads>>
        /\ UNCHANGED <<categoryTable, shownCategories, overlayVars, categoryFocus, categoryBudget,
                       categoryNotes>>

OpenDelete ==
    /\ ~OverlayOpen /\ categoryExiting = {} /\ CategoryAct
    /\ \E c \in InList : deleteTarget' = c /\ lastDeleteId' = c /\ NoteStale(c)
    /\ categoryFocus' = OnOverlay
    /\ UNCHANGED <<categoryTable, shownCategories, fetchSeq, categoryLoads, editor, editorSave,
                   patches, deletion, deletedRef, editorAnchor, categoryExiting>>

CancelDelete ==
    /\ deleteTarget # 0 /\ deletion = "none"
    /\ deleteTarget' = 0 /\ categoryExiting' = categoryExiting \cup {"delete"}
    /\ UNCHANGED <<categoryTable, shownCategories, fetchSeq, categoryLoads, editor, editorSave,
                   patches, deletion, deletedRef, lastDeleteId, editorAnchor, categoryFocus,
                   categoryBudget, categoryNotes>>

OnConfirmDelete ==
    /\ deleteTarget # 0 /\ deletion = "none" /\ deletion' = "asked" /\ CategoryAct
    /\ UNCHANGED <<categoryTable, shownCategories, fetchSeq, categoryLoads, editor, editorSave,
                   patches, deleteTarget, deletedRef, lastDeleteId, editorAnchor, categoryExiting,
                   categoryFocus, categoryNotes>>

\* A category with transactions is refused, one that is gone is not found.
ServeDelete ==
    /\ deletion = "asked"
    /\ LET gone == [serverCategories EXCEPT ![deleteTarget] = 0]
           refused == deleteTarget \in UsedCategories \/ serverCategories[deleteTarget] = 0
       IN  \/ /\ ~refused /\ serverCategories' = gone /\ deletion' = "ok"
              /\ UNCHANGED <<categoryBudget, categoryNotes>>
           \/ refused /\ deletion' = "failed" /\ UNCHANGED <<serverCategories, categoryBudget, categoryNotes>>
           \/ /\ ~refused /\ CategoryFault /\ deletion' = "failed"
              /\ serverCategories' \in {serverCategories, gone}
              /\ categoryNotes' = categoryNotes \cup {"unanswered"}
    /\ UNCHANGED <<lastCategoryId, shownCategories, fetchSeq, categoryLoads, editor, editorSave,
                   patches, deleteTarget, deletedRef, lastDeleteId, editorAnchor, categoryExiting,
                   categoryFocus>>

DeleteAnswered ==
    /\ deletion \in {"ok", "failed"} /\ deletion' = "none"
    /\ IF deletion = "ok"
       THEN /\ deletedRef' = TRUE /\ deleteTarget' = 0
            /\ categoryExiting' = categoryExiting \cup {"delete"} /\ Refetch(categoryLoads)
       ELSE UNCHANGED <<deletedRef, deleteTarget, categoryExiting, fetchSeq, categoryLoads>>
    /\ UNCHANGED <<categoryTable, shownCategories, editor, editorSave, patches, lastDeleteId,
                   editorAnchor, categoryFocus, categoryBudget, categoryNotes>>

\* mutant: focus goes back to the row, deleted or not
AfterDeleteRow == RowTrigger(lastDeleteId)

\* onCloseAutoFocus of the dialog.
AfterDelete == IF deletedRef THEN OnHeading ELSE RowTrigger(lastDeleteId)

DeleteDialogExited ==
    /\ "delete" \in categoryExiting /\ categoryExiting' = categoryExiting \ {"delete"}
    /\ deletedRef' = FALSE
    /\ categoryFocus' = IF OverlayOpen THEN categoryFocus ELSE AfterDelete
    /\ UNCHANGED <<categoryTable, shownCategories, fetchSeq, categoryLoads, editor, editorSave,
                   patches, deleteTarget, deletion, lastDeleteId, editorAnchor, categoryBudget,
                   categoryNotes>>

CategoriesNext ==
    \/ ServeCategoryLoad \/ CategoriesLoaded \/ OpenEditor \/ TypeCategoryName \/ CloseEditor
    \/ HandleCategorySave \/ ServeCategorySave \/ CategorySaveAnswered \/ EditorExited
    \/ HandleToggleActive \/ ServeToggle \/ ToggleAnswered \/ OpenDelete \/ CancelDelete
    \/ OnConfirmDelete \/ ServeDelete \/ DeleteAnswered \/ DeleteDialogExited

-----------------------------------------------------------------------------
\* The page's state (Categories.tsx:293).
CategoriesTypeOK ==
    /\ \A c \in CategoryIDs : {serverCategories[c], shownCategories[c]} \subseteq Int
    /\ lastCategoryId \in 0..CategoryCount
    /\ \A l \in categoryLoads : l.seq \in 1..fetchSeq
    /\ editor.mode \in {"none", "create", "edit"} /\ editor.name \in CategoryNames \cup {0}
    /\ editorSave.phase \in {"none", "asked", "ok", "failed"}
    /\ deletion \in {"none", "asked", "ok", "failed"} /\ deleteTarget \in CategoryIDs \cup {0}
    /\ categoryExiting \subseteq {"editor", "delete"}
    /\ categoryFocus \in CategoryIDs \cup {OnAdd, OnHeading, OnOverlay, FocusLost}

\* When nothing is under way the list is the server's, however many changes and
\* loads overlapped, unless the last load failed or an answer was lost
\* (Categories.tsx:324, fetchSeqRef).
CategoriesShownAreTrue ==
    categoryLoads = {} /\ editorSave = NoEditorSave /\ patches = {} /\ deletion = "none"
    /\ categoryNotes \cap {"failed", "unanswered"} = {}
    => shownCategories = serverCategories

\* A deletion does not take focus along with its row; only a failed load, which
\* empties the list, the loss of an answer, or the use of a row that is gone
\* already does (Categories.tsx:637).
CategoryFocusKept ==
    categoryFocus = FocusLost => categoryNotes \cap {"emptied", "unanswered", "stale"} # {}
=============================================================================
