--------------------------- MODULE StructureView ---------------------------
(***************************************************************************)
(* The column dialog of structure-view.tsx. Editing a column is up to two  *)
(* requests in a row, a rename and a modify, without a transaction around  *)
(* them: the first may be done when the second fails, and the dialog still *)
(* has the name of before. The columns are one table's; what a column is,  *)
(* apart from its name, is one value. The requests carry what the dialog   *)
(* had when Save was pressed, whatever is typed or closed meanwhile. The   *)
(* list the dialog is opened from is up to date (see Workspace).           *)
(***************************************************************************)
EXTENDS FiniteSets

CONSTANTS ColumnNames, Ids, Definitions, NoColumn

ASSUME NoColumnIsNone == NoColumn \notin Ids \cup ColumnNames

VARIABLES
  named,       \* the column that has each name, NoColumn if no column has it
  defined,     \* the definition of each column
  form,        \* the dialog: edit
  call,        \* the request that is awaited, with the form it was sent from
  altered      \* history: the column the last modify changed, and its form

columnVars == <<named, defined, form, call, altered>>

\* id, was and disturbed are history: the column the dialog was opened on, what
\* it was, and whether others changed the columns since.
NoForm == [mode |-> "closed", originalName |-> NoColumn, name |-> NoColumn, def |-> NoColumn,
           id |-> NoColumn, was |-> NoColumn, disturbed |-> FALSE]
NoCall == [op |-> "none", form |-> NoForm]

Exists(n) == n # NoColumn /\ named[n] # NoColumn
Columns == {named[n] : n \in ColumnNames} \ {NoColumn}

---------------------------------------------------------------------------
(* The dialog. *)

openAdd ==
  /\ form = NoForm
  /\ form' = [NoForm EXCEPT !.mode = "add"]
  /\ UNCHANGED <<named, defined, call, altered>>

openEdit(n) ==
  /\ form = NoForm /\ Exists(n)
  /\ form' = [mode |-> "edit", originalName |-> n, name |-> n, def |-> defined[named[n]],
              id |-> named[n], was |-> defined[named[n]], disturbed |-> FALSE]
  /\ UNCHANGED <<named, defined, call, altered>>

\* The fields stay editable while a request is pending.
TypeName(n) ==
  /\ form # NoForm
  /\ form' = [form EXCEPT !.name = n]
  /\ UNCHANGED <<named, defined, call, altered>>

ChooseDefinition(d) ==
  /\ form # NoForm
  /\ form' = [form EXCEPT !.def = d]
  /\ UNCHANGED <<named, defined, call, altered>>

CloseColumnDialog ==
  /\ form # NoForm
  /\ form' = NoForm
  /\ UNCHANGED <<named, defined, call, altered>>

---------------------------------------------------------------------------
(* Requests. *)

\* alter.isPending disables the button, and those that drop a column.
handleSubmit ==
  /\ call = NoCall /\ form # NoForm /\ form.name # NoColumn /\ form.def # NoColumn
  /\ call' = [op |-> IF form.mode = "add" THEN "add"
                     ELSE IF form.name # form.originalName THEN "rename" ELSE "modify",
              form |-> form]
  /\ UNCHANGED <<named, defined, form, altered>>

handleDrop(n) ==
  /\ call = NoCall /\ form = NoForm /\ Exists(n)
  /\ call' = [op |-> "drop", form |-> [NoForm EXCEPT !.name = n]]
  /\ UNCHANGED <<named, defined, form, altered>>

\* What the server does with it.
Added ==
  /\ call.op = "add" /\ ~Exists(call.form.name)
  /\ \E id \in Ids \ Columns :
       /\ named' = [named EXCEPT ![call.form.name] = id]
       /\ defined' = [defined EXCEPT ![id] = call.form.def]
  /\ UNCHANGED altered

Renamed ==
  /\ call.op = "rename" /\ Exists(call.form.originalName) /\ ~Exists(call.form.name)
  /\ named' = [named EXCEPT ![call.form.originalName] = NoColumn, ![call.form.name] = named[call.form.originalName]]
  /\ UNCHANGED <<defined, altered>>

Modified ==
  /\ call.op = "modify" /\ Exists(call.form.name)
  /\ defined' = [defined EXCEPT ![named[call.form.name]] = call.form.def]
  /\ altered' = [id |-> named[call.form.name], for |-> call.form.id, disturbed |-> call.form.disturbed]
  /\ UNCHANGED named

ColumnDropped ==
  /\ call.op = "drop" /\ Exists(call.form.name)
  /\ named' = [named EXCEPT ![call.form.name] = NoColumn]
  /\ UNCHANGED <<defined, altered>>

\* setEdit(null) closes the dialog that is open when the answer comes.
SubmitDone ==
  /\ Added \/ Modified
  /\ form' = NoForm /\ call' = NoCall

\* The modify is sent when the rename has been answered.
RenameDone ==
  /\ Renamed
  /\ call' = [call EXCEPT !.op = "modify"]
  /\ UNCHANGED form

DropDone ==
  /\ ColumnDropped
  /\ call' = NoCall
  /\ UNCHANGED form

\* A bug: the modify is sent although the rename failed.
CallFailsMutant ==
  /\ call # NoCall
  /\ call' = IF call.op = "rename" THEN [call EXCEPT !.op = "modify"] ELSE NoCall
  /\ UNCHANGED <<named, defined, form, altered>>

\* The catch of handleSubmit: the dialog stays as it is.
CallFails ==
  /\ call # NoCall
  /\ call' = NoCall
  /\ UNCHANGED <<named, defined, form, altered>>

\* It was done, and an error is answered all the same.
AnswerLost ==
  /\ Added \/ Renamed \/ Modified \/ ColumnDropped
  /\ call' = NoCall
  /\ UNCHANGED form

---------------------------------------------------------------------------
(* Around the dialog. *)

\* Someone else renames, adds or drops a column.
Disturb(n, id) ==
  /\ id = NoColumn \/ \A m \in ColumnNames \ {n} : named[m] # id
  /\ named' = [named EXCEPT ![n] = id]
  /\ form' = IF form = NoForm THEN NoForm ELSE [form EXCEPT !.disturbed = TRUE]
  /\ call' = IF call = NoCall THEN NoCall ELSE [call EXCEPT !.form.disturbed = TRUE]
  /\ UNCHANGED <<defined, altered>>

---------------------------------------------------------------------------

ColumnInit ==
  /\ named \in [ColumnNames -> Ids \cup {NoColumn}]
  /\ \A m, n \in ColumnNames : named[m] = named[n] /\ named[m] # NoColumn => m = n
  /\ defined \in [Ids -> Definitions]
  /\ form = NoForm
  /\ call = NoCall
  /\ altered = [id |-> NoColumn, for |-> NoColumn, disturbed |-> FALSE]

ColumnNext ==
  \/ openAdd \/ CloseColumnDialog \/ handleSubmit
  \/ SubmitDone \/ RenameDone \/ DropDone \/ CallFails \/ AnswerLost
  \/ \E n \in ColumnNames : openEdit(n) \/ TypeName(n) \/ handleDrop(n)
  \/ \E d \in Definitions : ChooseDefinition(d)
  \/ \E n \in ColumnNames, id \in Ids \cup {NoColumn} : Disturb(n, id)

ColumnSpec == ColumnInit /\ [][ColumnNext]_columnVars

---------------------------------------------------------------------------
(* Properties. *)

Forms == [mode : {"closed", "add", "edit"}, originalName : ColumnNames \cup {NoColumn}, name : ColumnNames \cup {NoColumn},
          def : Definitions \cup {NoColumn}, id : Ids \cup {NoColumn}, was : Definitions \cup {NoColumn}, disturbed : BOOLEAN]

ColumnTypeOK ==
  /\ named \in [ColumnNames -> Ids \cup {NoColumn}]
  /\ \A m, n \in ColumnNames : named[m] = named[n] /\ Exists(m) => m = n
  /\ defined \in [Ids -> Definitions]
  /\ form \in Forms
  /\ call \in [op : {"none", "add", "rename", "modify", "drop"}, form : Forms]
  /\ altered \in [id : Ids \cup {NoColumn}, for : Ids \cup {NoColumn}, disturbed : BOOLEAN]

\* Saving the dialog changes the column it was opened on and no other, over
\* all its attempts: when the rename is refused, because another column has
\* the new name, the modify that would hit that column is not sent. Only what
\* others do to the columns meanwhile can direct it at another one.
TouchesOnlyItsColumn ==
  altered.id # altered.for => altered.disturbed

\* structure-view.tsx says "rename if name changed, then modify if anything
\* else changed": a modify is only sent for a definition that was changed.
ModifyOnlyWhenChanged ==
  call.op = "modify" => call.form.def # call.form.was

=============================================================================
