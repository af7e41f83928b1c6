----------------------------- MODULE TableView -----------------------------
(***************************************************************************)
(* The inline edit of table-view.tsx. The edit remembers a place on the    *)
(* page and a text, not a row: what it writes goes to the row that is at   *)
(* that place when it is saved. The rows can move under it, because of a   *)
(* sort, a search, another page or table, or a refetch.                    *)
(* Columns, values and which rows match are data: a row is a model value,  *)
(* and the edit is of some column that all rows have.                      *)
(***************************************************************************)
CONSTANTS Rows, Positions, NoRow

\* A page has at least one place (pageSize).
ASSUME TableAssumption == NoRow \notin Rows /\ Positions # {}

VARIABLES
  shown,      \* the row at each place of the page, NoRow where there is none
  edit,       \* the inline edit: its place, and whether its field has the focus
  saving,     \* whether the answer to the last mutate() of updateRow is awaited
  lastWrite   \* history: the row the last save wrote to and the one meant

tableVars == <<shown, edit, saving, lastWrite>>

\* History in the edit: the row it was opened on, whether a save of it was
\* tried, and whether a refetch changed what is at its place.
Edits == [open : BOOLEAN, pos : Positions, row : Rows \cup {NoRow},
          focused : BOOLEAN, tried : BOOLEAN, moved : BOOLEAN]

Writes == [to : Rows \cup {NoRow}, for : Rows \cup {NoRow}, tried : BOOLEAN, moved : BOOLEAN]

\* displayRows: no row is shown twice.
Displays == {d \in [Positions -> Rows \cup {NoRow}] :
               \A p, q \in Positions : d[p] = d[q] /\ d[p] # NoRow => p = q}

RowsOf(d) == {d[p] : p \in Positions} \ {NoRow}

\* The cell is a textarea as long as there is a row at its place.
Visible == edit.open /\ shown[edit.pos] # NoRow
Typing == Visible /\ edit.focused

---------------------------------------------------------------------------
(* The edit. *)

\* A double click elsewhere takes the focus from the field first (Blur).
handleInlineStart(p) ==
  /\ shown[p] # NoRow /\ ~Typing
  /\ edit' = [open |-> TRUE, pos |-> p, row |-> shown[p],
              focused |-> TRUE, tried |-> FALSE, moved |-> FALSE]
  /\ UNCHANGED <<shown, saving, lastWrite>>

EditClosed == [edit EXCEPT !.open = FALSE, !.focused = FALSE]

handleInlineCancel ==
  /\ Typing
  /\ edit' = EditClosed
  /\ UNCHANGED <<shown, saving, lastWrite>>

\* The text equals what the row at the place has: nothing is sent.
Unaltered ==
  /\ edit' = EditClosed
  /\ UNCHANGED <<shown, saving, lastWrite>>

SaveSent(focused) ==
  /\ edit' = [edit EXCEPT !.focused = focused, !.tried = TRUE]
  /\ saving' = TRUE
  /\ lastWrite' = [to |-> shown[edit.pos], for |-> edit.row, tried |-> edit.tried, moved |-> edit.moved]
  /\ UNCHANGED shown

handleInlineSave(focused) == Typing /\ (Unaltered \/ SaveSent(focused))

Enter == handleInlineSave(TRUE)

\* A bug: the field loses the focus and nothing is saved.
BlurMutant == Typing /\ edit' = [edit EXCEPT !.focused = FALSE] /\ UNCHANGED <<shown, saving, lastWrite>>

\* onBlur: the field saves when it loses the focus.
Blur == handleInlineSave(FALSE)

ClickField ==
  /\ Visible /\ ~edit.focused
  /\ edit' = [edit EXCEPT !.focused = TRUE]
  /\ UNCHANGED <<shown, saving, lastWrite>>

\* The answer to the last save closes whichever edit is open by now.
Saved ==
  /\ saving /\ saving' = FALSE
  /\ edit' = EditClosed
  /\ UNCHANGED <<shown, lastWrite>>

SaveFails ==
  /\ saving /\ saving' = FALSE
  /\ UNCHANGED <<shown, edit, lastWrite>>

\* The edit dialog of a row calls the same mutation: its callbacks replace
\* those of the inline save.
handleUpdateSubmit ==
  /\ ~Typing
  /\ saving' = FALSE
  /\ UNCHANGED <<shown, edit, lastWrite>>

---------------------------------------------------------------------------
(* The rows. What the user clicks on takes the focus from the field first. *)

handleSort ==
  /\ ~Typing
  /\ \E d \in Displays : RowsOf(d) = RowsOf(shown) /\ shown' = d
  /\ UNCHANGED <<edit, saving, lastWrite>>

Search ==
  /\ ~Typing
  /\ \E d \in Displays : /\ RowsOf(d) \subseteq RowsOf(shown) \/ RowsOf(shown) \subseteq RowsOf(d)
                         /\ shown' = d
  /\ UNCHANGED <<edit, saving, lastWrite>>

\* Another page, page size or table; the inline edit is not reset.
OtherPage ==
  /\ ~Typing
  /\ shown' \in Displays
  /\ UNCHANGED <<edit, saving, lastWrite>>

\* Rows are added, removed and reordered by others, by this view's own writes
\* (the rows have no ORDER BY), and shown after an invalidation or a refetch.
Refetch ==
  /\ shown' \in Displays
  /\ edit' = [edit EXCEPT !.moved = @ \/ shown'[edit.pos] # shown[edit.pos],
                          !.focused = @ /\ shown'[edit.pos] # NoRow]
  /\ UNCHANGED <<saving, lastWrite>>

---------------------------------------------------------------------------

TableInit ==
  /\ shown \in Displays
  /\ edit = [open |-> FALSE, pos |-> CHOOSE p \in Positions : TRUE, row |-> NoRow,
             focused |-> FALSE, tried |-> FALSE, moved |-> FALSE]
  /\ saving = FALSE
  /\ lastWrite = [to |-> NoRow, for |-> NoRow, tried |-> FALSE, moved |-> FALSE]

TableNext ==
  \/ \E p \in Positions : handleInlineStart(p)
  \/ handleInlineCancel \/ Enter \/ Blur \/ ClickField
  \/ Saved \/ SaveFails \/ handleUpdateSubmit
  \/ handleSort \/ Search \/ OtherPage \/ Refetch

TableSpec == TableInit /\ [][TableNext]_tableVars

---------------------------------------------------------------------------
(* Properties. *)

TableTypeOK ==
  /\ shown \in Displays
  /\ edit \in Edits
  /\ saving \in BOOLEAN
  /\ lastWrite \in Writes

\* An inline edit writes to the row it was opened on, although it only knows
\* its place: the save on blur comes before any sort, search or paging. It may
\* hit another row only if a refetch changed the row at its place (the field
\* does not follow its row), or if an earlier save of it failed or was not yet
\* answered, after which it stays open without the focus.
WriteHitsItsRow ==
  \/ lastWrite.to = lastWrite.for
  \/ lastWrite.moved
  \/ lastWrite.tried

=============================================================================
