------------------------------- MODULE MCViews ------------------------------
(***************************************************************************)
(* The views of the web client and the databases tab of the manager, which *)
(* share no state, checked in one run: a behaviour is about one of them,   *)
(* chosen at the start, and the others stay as they were.                  *)
(***************************************************************************)
EXTENDS TableView, DatabaseView, StructureView, DocumentView, QueryEditor, ServiceControl

VARIABLE focus

viewVars == <<focus, tableVars, dbVars, columnVars, docVars, queryVars, serviceVars>>

Parts == {"table", "database", "column", "document", "editor", "service"}

\* Where a part rests that the behaviour is not about.
TableRests == TableInit /\ shown = [p \in Positions |-> NoRow]
DatabaseRests == DatabaseInit /\ db = (CHOOSE d \in Dbs : TRUE) /\ tables = [d \in Dbs |-> {}]
ColumnRests ==
  ColumnInit /\ named = [n \in ColumnNames |-> NoColumn] /\ defined = [i \in Ids |-> CHOOSE d \in Definitions : TRUE]
DocumentRests == DocumentInit /\ collection = (CHOOSE c \in Collections : TRUE)
ServiceRests == ServiceInit /\ installed = {}

ViewsInit ==
  /\ focus \in Parts
  /\ IF focus = "table" THEN TableInit ELSE TableRests
  /\ IF focus = "database" THEN DatabaseInit ELSE DatabaseRests
  /\ IF focus = "column" THEN ColumnInit ELSE ColumnRests
  /\ IF focus = "document" THEN DocumentInit ELSE DocumentRests
  /\ EditorInit
  /\ IF focus = "service" THEN ServiceInit ELSE ServiceRests

Moves(part) == focus = part /\ UNCHANGED focus

ViewsNext ==
  \/ /\ Moves("table") /\ TableNext
     /\ UNCHANGED <<dbVars, columnVars, docVars, queryVars, serviceVars>>
  \/ /\ Moves("database") /\ DatabaseNext
     /\ UNCHANGED <<tableVars, columnVars, docVars, queryVars, serviceVars>>
  \/ /\ Moves("column") /\ ColumnNext
     /\ UNCHANGED <<tableVars, dbVars, docVars, queryVars, serviceVars>>
  \/ /\ Moves("document") /\ DocumentNext
     /\ UNCHANGED <<tableVars, dbVars, columnVars, queryVars, serviceVars>>
  \/ /\ Moves("editor") /\ EditorNext
     /\ UNCHANGED <<tableVars, dbVars, columnVars, docVars, serviceVars>>
  \/ /\ Moves("service") /\ ServiceNext
     /\ UNCHANGED <<tableVars, dbVars, columnVars, docVars, queryVars>>

ViewsSpec == ViewsInit /\ [][ViewsNext]_viewVars

=============================================================================
