------------------------------- MODULE Views -------------------------------
(***************************************************************************)
(* What the views of the dashboard offer, as data: the tabs of             *)
(* pages/dashboard/index.tsx, the queries each view shows, and, for every  *)
(* button, form and dialog that sends a request, when it is enabled, what  *)
(* the request changes on the server and what its answer does on the page. *)
(* Workspace gives these records their meaning.  Buttons that only read (a *)
(* search, a sample, a plan, a download) are left out, and so are the pages *)
(* beside the dashboard: login, connections and the password dialog.       *)
(*                                                                         *)
(*   view      the tab                                                     *)
(*   request   the call of requests/*.request.ts                           *)
(*   on        the database types it is offered for                        *)
(*   admin     whether it is offered to admins only                        *)
(*   via       "button", or the dialog it is submitted from                *)
(*   uses      the useMutation or the flag its button watches              *)
(*   blockedBy the ones that disable the button while a request is pending *)
(*   perItem   the flag holds the item, so that only its button is disabled *)
(*   bulk      a button sends it for every ticked item, one mutate() each   *)
(*   hook      the queries an answer invalidates whatever became of the view *)
(*   local     the queries invalidated by the callback given to mutate(),  *)
(*             which is lost when the view is left or mutate called again  *)
(*   closes    where the dialog is closed: "hook", "local" or "none"       *)
(***************************************************************************)

Sql == {"mysql", "postgresql"}
DbTypes == Sql \cup {"mongodb"}
Mongo == {"mongodb"}

\* What a record says unless its operation says otherwise.
Op == [view |-> "", request |-> "", on |-> DbTypes, admin |-> TRUE, via |-> "button", uses |-> "",
       blockedBy |-> {}, perItem |-> FALSE, bulk |-> FALSE, hook |-> {}, local |-> {}, closes |-> "none"]

Dialog(name, blockedBy) == [Op EXCEPT !.via = name, !.blockedBy = blockedBy]

---------------------------------------------------------------------------
(* The tabs. *)

GlobalTabs(dbType, isAdmin) ==
  {"databases", "users", "status"}
    \cup (IF dbType \in Mongo THEN {"sharding"} ELSE {})
    \cup (IF isAdmin THEN {"accounts", "security"} ELSE {})

SqlTabs == {"table", "structure", "tables", "schema", "triggers", "routines"}
MongoTabs(isAdmin) ==
  {"documents", "structure", "tables", "indexes", "views", "gridfs"}
    \cup (IF isAdmin THEN {"aggregate", "profiler", "roles", "watch"} ELSE {})

DbTabs(dbType, isAdmin) ==
  (IF dbType \in Mongo THEN MongoTabs(isAdmin) ELSE SqlTabs)
    \cup (IF isAdmin THEN {"query", "import", "accounts", "security"} ELSE {})
    \cup {"search", "export", "users", "status"}

---------------------------------------------------------------------------
(* The queries on screen. *)

\* The sidebar; a database is selected unless every database is shown.
SidebarQueries(dbType, view) ==
  {"databases"} \cup (IF view = "databases" THEN {} ELSE {"tables"})
    \cup (IF dbType = "postgresql" /\ view # "databases" THEN {"schemas", "schema-tables"} ELSE {})

TableQueries == {"rows", "columns"}
DocumentQueries == {"mongo-stats", "mongo-find"}
StructureQueries(dbType) ==
  {"columns"} \cup (IF dbType \in Mongo THEN {"mongo-field-analysis", "mongo-validation",
                                              "mongo-timeseries-info", "mongo-coll-sharding"} ELSE {})
TablesQueries(dbType) == {"tables"} \cup (IF dbType \in Mongo THEN {"mongo-dbstats", "mongo-coll-meta"} ELSE {})
DatabasesQueries == {"databases", "databases-stats"}
IndexQueries == {"mongo-indexes", "mongo-index-stats"}
RoleQueries == {"mongo-roles-detailed"}
UserQueries == {"users"}
AccountQueries == {"app-users"}
SecurityQueries == {"security"}
ViewQueries == {"mongo-views", "tables"}
GridFSQueries == {"gridfs-buckets", "gridfs-files"}
ProfilerQueries == {"mongo-profiling", "mongo-profile-data"}
TriggerQueries == {"triggers"}
RoutineQueries == {"routines"}
StatusQueries(dbType) ==
  {"server-status"} \cup (IF dbType \in Mongo THEN {"mongo-currentop", "mongo-replset", "mongo-top", "mongo-serverlog"} ELSE {})

ViewShows(dbType, view) ==
  CASE view = "table"      -> TableQueries
    [] view = "documents"  -> DocumentQueries
    [] view = "structure"  -> StructureQueries(dbType)
    [] view = "tables"     -> TablesQueries(dbType)
    [] view = "databases"  -> DatabasesQueries
    [] view = "indexes"    -> IndexQueries
    [] view = "roles"      -> RoleQueries
    [] view = "users"      -> UserQueries
    [] view = "accounts"   -> AccountQueries
    [] view = "security"   -> SecurityQueries
    [] view = "views"      -> ViewQueries
    [] view = "gridfs"     -> GridFSQueries
    [] view = "profiler"   -> ProfilerQueries
    [] view = "triggers"   -> TriggerQueries
    [] view = "routines"   -> RoutineQueries
    [] view = "status"     -> StatusQueries(dbType)
    [] OTHER               -> {}

Shows(dbType, view) == ViewShows(dbType, view) \cup SidebarQueries(dbType, view)

\* invalidateQueries matches every key that begins with the given one.
Matches(keys) == keys \cup (IF "databases" \in keys THEN {"databases-stats"} ELSE {})

---------------------------------------------------------------------------
(* What a request changes of what the queries read. *)

Sizes == {"mongo-stats", "mongo-dbstats", "mongo-coll-meta", "databases-stats"}
RowData == {"rows", "mongo-find", "mongo-field-analysis"} \cup Sizes
TableLists == {"tables", "schema-tables", "mongo-views"} \cup Sizes
OfOneTable == {"rows", "columns", "mongo-validation", "mongo-field-analysis", "mongo-timeseries-info", "mongo-coll-sharding"}

RowRequests == {"insertRow", "updateRow", "deleteRow", "truncateTable",
                "mongoInsertMany", "mongoUpdateMany", "mongoDeleteMany"}
TableRequests == {"createTable", "dropTable", "mongoCreateView",
                  "mongoCreateCappedCollection", "mongoCreateTimeSeriesCollection"}
DatabaseRequests == {"createDatabase", "dropDatabase"}
IndexRequests == {"mongoCreateIndex", "mongoDropIndex", "mongoSetIndexHidden"}
RoleRequests == {"mongoUpdateCustomRole", "mongoDropCustomRole"}
UserRequests == {"mongoDropUser", "mongoUpdateUserRoles"}
WhitelistRequests == {"toggleWhitelist", "addIP", "removeIP", "bulkAddIPs"}

\* A script, a statement or a backup can hold anything.
ServerData ==
  RowData \cup TableLists \cup OfOneTable \cup DatabasesQueries \cup {"schemas"} \cup IndexQueries \cup RoleQueries
    \cup UserQueries \cup GridFSQueries \cup ProfilerQueries \cup TriggerQueries \cup RoutineQueries

\* MongoDB lists a database while it has a collection, and DescribeTable samples
\* documents there, so columns change with them.
OnMongo(dbType, queries) == IF dbType \in Mongo THEN queries ELSE {}

\* What the request may change, of all that is on a screen which offers it. A
\* pipeline may end in $out or $merge. ListTables shows the collections MongoDB
\* makes by itself too: system.profile (which the command to profile enters
\* itself), system.users and system.roles, the two of a bucket.
Changes(dbType, request) ==
  CASE request \in RowRequests          -> RowData \cup OnMongo(dbType, {"columns"})
    [] request \in TableRequests        -> TableLists \cup OnMongo(dbType, {"databases"})
    [] request = "mongoDuplicateCollection" -> TableLists
    [] request = "mongoRenameCollection" -> TableLists \cup OfOneTable
    [] request = "mongoConvertToCapped" -> RowData \cup IndexQueries \cup {"columns"}
    [] request = "alterColumn"          -> {"columns", "rows"}
    [] request \in DatabaseRequests     -> DatabasesQueries
    [] request \in {"restoreDatabase", "executeQuery", "importSQL"} -> ServerData
    [] request = "importJSON"           -> RowData \cup TableLists \cup {"columns", "databases"}
    [] request = "mongoRunAggregation"  -> RowData \cup TableLists \cup {"columns", "databases"}
    [] request \in IndexRequests        -> IndexQueries \cup Sizes
    [] request = "mongoCompactCollection" -> Sizes
    [] request = "mongoSetValidation"   -> {"mongo-validation"}
    [] request = "mongoSetProfilingLevel" -> ProfilerQueries \cup {"tables"}
    [] request = "mongoCreateCustomRole" -> RoleQueries \cup {"tables"}
    [] request = "mongoCreateUser"      -> UserQueries \cup {"tables"}
    [] request \in RoleRequests         -> RoleQueries
    [] request \in UserRequests         -> UserQueries
    [] request = "mongoUploadGridFSFile" -> GridFSQueries \cup {"tables", "databases"}
    [] request = "mongoDeleteGridFSFile" -> {"gridfs-files"}
    [] request = "dropTrigger"          -> TriggerQueries
    [] request = "dropRoutine"          -> RoutineQueries
    [] request = "mongoKillOp"          -> {"mongo-currentop"}
    [] request \in {"updateRole", "delete"} -> AccountQueries
    [] request \in WhitelistRequests    -> SecurityQueries
    [] OTHER                            -> {}

---------------------------------------------------------------------------
(* table-view.tsx and document-view.tsx: rows and documents. *)

useInsertRow == {"rows"}
useUpdateRow == {"rows"}
useDeleteRow == {"rows"}

TableInsertForm == Dialog("insert", {"insertRow"})
TableEditForm == Dialog("edit", {"updateRow"})
TableInsert ==
  [TableInsertForm EXCEPT !.view = "table", !.on = Sql, !.request = "insertRow", !.uses = "insertRow",
                          !.hook = useInsertRow, !.closes = "local"]
TableUpdate ==
  [TableEditForm EXCEPT !.view = "table", !.on = Sql, !.request = "updateRow", !.uses = "updateRow",
                        !.hook = useUpdateRow, !.closes = "local"]
\* Enter in the cell or a blur, neither of which looks at isPending.
CellKeys == [Op EXCEPT !.blockedBy = {}]
InlineSave ==
  [CellKeys EXCEPT !.view = "table", !.on = Sql, !.request = "updateRow", !.uses = "updateRow",
                   !.hook = useUpdateRow]
TableDelete ==
  [Op EXCEPT !.view = "table", !.on = Sql, !.request = "deleteRow", !.uses = "deleteRow",
             !.hook = useDeleteRow]

\* A bug: the statistics of the collection are forgotten.
invalidateFindMutant == {"mongo-find"}

invalidateFind == {"mongo-find", "mongo-stats"}

\* A bug: the button of the dialog does not look at isPending.
DocInsertFormMutant == Dialog("insert", {})

DocInsertForm == Dialog("insert", {"insertRow"})
DocEditForm == Dialog("edit", {"updateRow"})
DocInsert ==
  [DocInsertForm EXCEPT !.view = "documents", !.request = "insertRow", !.uses = "insertRow",
                        !.hook = useInsertRow, !.local = invalidateFind, !.closes = "local"]
DocUpdate ==
  [DocEditForm EXCEPT !.view = "documents", !.request = "updateRow", !.uses = "updateRow",
                      !.hook = useUpdateRow, !.local = invalidateFind, !.closes = "local"]
DocDelete ==
  [Op EXCEPT !.view = "documents", !.request = "deleteRow", !.uses = "deleteRow", !.hook = useDeleteRow,
             !.local = invalidateFind]

\* The three bulk dialogs share the flag bulkLoading; what follows their await
\* runs wherever the user went.
BulkInsertForm == Dialog("bulkInsert", {"bulkLoading"})
BulkUpdateForm == Dialog("bulkUpdate", {"bulkLoading"})
BulkDeleteForm == Dialog("bulkDelete", {"bulkLoading"})
BulkInsert ==
  [BulkInsertForm EXCEPT !.view = "documents", !.request = "mongoInsertMany", !.uses = "bulkLoading",
                         !.hook = invalidateFind, !.closes = "hook"]
BulkUpdate ==
  [BulkUpdateForm EXCEPT !.view = "documents", !.request = "mongoUpdateMany", !.uses = "bulkLoading",
                         !.hook = invalidateFind, !.closes = "hook"]
BulkDelete ==
  [BulkDeleteForm EXCEPT !.view = "documents", !.request = "mongoDeleteMany", !.uses = "bulkLoading",
                         !.hook = invalidateFind, !.closes = "hook"]

---------------------------------------------------------------------------
(* structure-view.tsx. *)

useAlterColumn == {"columns", "rows"}

ColumnForm == Dialog("column", {"alter"})
AlterColumn ==
  [ColumnForm EXCEPT !.view = "structure", !.on = Sql, !.request = "alterColumn", !.uses = "alter",
                     !.hook = useAlterColumn, !.closes = "hook"]
DropColumnButton == [Op EXCEPT !.blockedBy = {"alter"}]
DropColumn ==
  [DropColumnButton EXCEPT !.view = "structure", !.on = Sql, !.request = "alterColumn", !.uses = "alter",
                           !.hook = useAlterColumn]
Maintenance ==
  [Op EXCEPT !.view = "structure", !.on = Sql, !.request = "maintenanceTable", !.uses = "running",
             !.blockedBy = {"running"}]
Compact ==
  [Op EXCEPT !.view = "structure", !.on = Mongo, !.request = "mongoCompactCollection", !.uses = "compact",
             !.blockedBy = {"compact"}]
RenameForm == Dialog("rename", {"rename"})
RenameCollection ==
  [RenameForm EXCEPT !.view = "structure", !.on = Mongo, !.request = "mongoRenameCollection",
                     !.uses = "rename", !.hook = {"tables"}, !.closes = "hook"]
DuplicateForm == Dialog("duplicate", {"duplicate"})
DuplicateCollection ==
  [DuplicateForm EXCEPT !.view = "structure", !.on = Mongo, !.request = "mongoDuplicateCollection",
                        !.uses = "duplicate", !.hook = {"tables"}, !.closes = "hook"]
CappedForm == Dialog("capped", {"convertCapped"})
ConvertToCapped ==
  [CappedForm EXCEPT !.view = "structure", !.on = Mongo, !.request = "mongoConvertToCapped",
                     !.uses = "convertCapped", !.closes = "hook"]
ValidationForm == Dialog("validation", {"validation"})
SetValidation ==
  [ValidationForm EXCEPT !.view = "structure", !.on = Mongo, !.request = "mongoSetValidation",
                         !.uses = "validation", !.hook = {"mongo-validation"}, !.closes = "hook"]

---------------------------------------------------------------------------
(* database-view.tsx and all-databases-view.tsx. *)

useCreateTable == {"tables"}
useDropTable == {"tables"}
useTruncateTable == {"rows"}

CreateTableForm == Dialog("createTable", {"createTable"})
CreateTable ==
  [CreateTableForm EXCEPT !.view = "tables", !.request = "createTable", !.uses = "createTable",
                          !.hook = useCreateTable, !.closes = "local"]
\* A button of each row, and one for all the rows that are ticked.
TableButtons(uses) == [Op EXCEPT !.uses = uses, !.blockedBy = {uses}, !.bulk = TRUE]
DropTable ==
  [TableButtons("dropTable") EXCEPT !.view = "tables", !.request = "dropTable", !.hook = useDropTable]
TruncateTable ==
  [TableButtons("truncateTable") EXCEPT !.view = "tables", !.request = "truncateTable",
                                        !.hook = useTruncateTable]
CreateCappedForm == Dialog("createCapped", {"capped"})
CreateCapped ==
  [CreateCappedForm EXCEPT !.view = "tables", !.on = Mongo, !.request = "mongoCreateCappedCollection",
                           !.uses = "capped", !.hook = {"tables"}, !.closes = "hook"]
TimeSeriesForm == Dialog("timeSeries", {"timeSeries"})
CreateTimeSeries ==
  [TimeSeriesForm EXCEPT !.view = "tables", !.on = Mongo, !.request = "mongoCreateTimeSeriesCollection",
                         !.uses = "timeSeries", !.hook = {"tables"}, !.closes = "hook"]

useCreateDatabase == {"databases"}
useDropDatabase == {"databases"}

\* Enter in the field does not look at isPending.
CreateDatabaseForm == Dialog("createDatabase", {})
CreateDatabase ==
  [CreateDatabaseForm EXCEPT !.view = "databases", !.request = "createDatabase", !.uses = "createDb",
                             !.hook = useCreateDatabase, !.closes = "hook"]
DatabaseButtons(uses) == [Op EXCEPT !.uses = uses, !.blockedBy = {uses}]
DropDatabase ==
  [DatabaseButtons("dropDb") EXCEPT !.view = "databases", !.request = "dropDatabase", !.hook = useDropDatabase]
\* The flags of backup and restore hold the database: the others' buttons stay.
BackupDatabase ==
  [DatabaseButtons("backupingDb") EXCEPT !.view = "databases", !.request = "backupDatabase", !.admin = FALSE,
                                         !.perItem = TRUE]
RestoreDatabase ==
  [DatabaseButtons("restoringDb") EXCEPT !.view = "databases", !.request = "restoreDatabase", !.perItem = TRUE]

---------------------------------------------------------------------------
(* indexes-view.tsx and roles-view.tsx. *)

invalidateIndexes == {"mongo-indexes"}

CreateIndexForm == Dialog("createIndex", {"createIndex"})
CreateIndex ==
  [CreateIndexForm EXCEPT !.view = "indexes", !.on = Mongo, !.request = "mongoCreateIndex",
                          !.uses = "createIndex", !.hook = invalidateIndexes, !.closes = "hook"]
IndexButtons(uses) == [Op EXCEPT !.uses = uses, !.blockedBy = {uses}]
DropIndex ==
  [IndexButtons("dropIndex") EXCEPT !.view = "indexes", !.on = Mongo, !.request = "mongoDropIndex",
                                    !.hook = invalidateIndexes]
HideIndex ==
  [IndexButtons("hideIndex") EXCEPT !.view = "indexes", !.on = Mongo, !.request = "mongoSetIndexHidden",
                                    !.hook = invalidateIndexes]

\* One dialog for both, whose button watches both mutations.
RoleForm == Dialog("role", {"createRole", "updateRole"})
CreateRole ==
  [RoleForm EXCEPT !.view = "roles", !.on = Mongo, !.request = "mongoCreateCustomRole",
                   !.uses = "createRole", !.hook = RoleQueries, !.closes = "hook"]
UpdateRole ==
  [RoleForm EXCEPT !.view = "roles", !.on = Mongo, !.request = "mongoUpdateCustomRole",
                   !.uses = "updateRole", !.hook = RoleQueries, !.closes = "hook"]
DropRoleButton == [Op EXCEPT !.blockedBy = {"dropRole"}]
DropRole ==
  [DropRoleButton EXCEPT !.view = "roles", !.on = Mongo, !.request = "mongoDropCustomRole",
                         !.uses = "dropRole", !.hook = RoleQueries]

---------------------------------------------------------------------------
(* users-view.tsx, accounts-view.tsx and security-view.tsx. *)

CreateUserForm == Dialog("createUser", {"creating"})
CreateUser ==
  [CreateUserForm EXCEPT !.view = "users", !.on = Mongo, !.request = "mongoCreateUser", !.uses = "creating",
                         !.hook = UserQueries, !.closes = "hook"]
EditRolesForm == Dialog("editRoles", {"editSaving"})
SaveRoles ==
  [EditRolesForm EXCEPT !.view = "users", !.on = Mongo, !.request = "mongoUpdateUserRoles",
                        !.uses = "editSaving", !.hook = UserQueries, !.closes = "hook"]
\* Enter in the field does not look at the flag.
PasswordForm == Dialog("password", {})
ChangeUserPassword ==
  [PasswordForm EXCEPT !.view = "users", !.on = Sql, !.request = "changeDBUserPassword",
                       !.uses = "savingPassword", !.closes = "hook"]
DropUser ==
  [Op EXCEPT !.view = "users", !.on = Mongo, !.request = "mongoDropUser", !.uses = "dropUser",
             !.hook = UserQueries]

useUpdateUserRole == AccountQueries
useDeleteUser == AccountQueries
AccountButtons(uses) == [Op EXCEPT !.uses = uses, !.blockedBy = {uses}]
UpdateAccountRole ==
  [AccountButtons("updateAccount") EXCEPT !.view = "accounts", !.request = "updateRole",
                                          !.hook = useUpdateUserRole]
DeleteAccount ==
  [AccountButtons("deleteAccount") EXCEPT !.view = "accounts", !.request = "delete", !.hook = useDeleteUser]

ToggleButton == [Op EXCEPT !.blockedBy = {"toggle"}]
ToggleWhitelist ==
  [ToggleButton EXCEPT !.view = "security", !.request = "toggleWhitelist", !.uses = "toggle",
                       !.hook = SecurityQueries]
\* Enter in the field, again.
AddIPForm == [Op EXCEPT !.blockedBy = {}]
AddIP ==
  [AddIPForm EXCEPT !.view = "security", !.request = "addIP", !.uses = "addIP", !.hook = SecurityQueries]
RemoveButton == [Op EXCEPT !.blockedBy = {"removeIP"}]
RemoveIP ==
  [RemoveButton EXCEPT !.view = "security", !.request = "removeIP", !.uses = "removeIP",
                       !.hook = SecurityQueries]
\* Opened in the page, not over it.
BulkIPsForm == [Op EXCEPT !.blockedBy = {"bulkIPs"}]
BulkAddIPs ==
  [BulkIPsForm EXCEPT !.view = "security", !.request = "bulkAddIPs", !.uses = "bulkIPs",
                      !.hook = SecurityQueries]

---------------------------------------------------------------------------
(* The other views. *)

CreateViewForm == Dialog("createView", {"createView"})
CreateView ==
  [CreateViewForm EXCEPT !.view = "views", !.on = Mongo, !.request = "mongoCreateView",
                         !.uses = "createView", !.hook = ViewQueries, !.closes = "hook"]
DropViewButton == [Op EXCEPT !.blockedBy = {"dropView"}]
DropView ==
  [DropViewButton EXCEPT !.view = "views", !.on = Mongo, !.request = "dropTable", !.uses = "dropView",
                         !.hook = ViewQueries]

UploadButton == [Op EXCEPT !.blockedBy = {"upload"}]
UploadFile ==
  [UploadButton EXCEPT !.view = "gridfs", !.on = Mongo, !.request = "mongoUploadGridFSFile",
                       !.uses = "upload", !.hook = GridFSQueries]
DeleteFileButton == [Op EXCEPT !.blockedBy = {"deleteFile"}]
DeleteFile ==
  [DeleteFileButton EXCEPT !.view = "gridfs", !.on = Mongo, !.request = "mongoDeleteGridFSFile",
                           !.uses = "deleteFile", !.hook = {"gridfs-files"}]

ProfilerButton == [Op EXCEPT !.blockedBy = {"setProfiling"}]
SetProfiling ==
  [ProfilerButton EXCEPT !.view = "profiler", !.on = Mongo, !.request = "mongoSetProfilingLevel",
                         !.uses = "setProfiling", !.hook = {"mongo-profiling"}]
TriggerButton == [Op EXCEPT !.blockedBy = {"dropTrigger"}]
DropTrigger ==
  [TriggerButton EXCEPT !.view = "triggers", !.on = Sql, !.request = "dropTrigger", !.uses = "dropTrigger",
                        !.hook = TriggerQueries]
RoutineButton == [Op EXCEPT !.blockedBy = {"dropRoutine"}]
DropRoutine ==
  [RoutineButton EXCEPT !.view = "routines", !.on = Sql, !.request = "dropRoutine", !.uses = "dropRoutine",
                        !.hook = RoutineQueries]
KillButton == [Op EXCEPT !.blockedBy = {"killOp"}]
KillOp ==
  [KillButton EXCEPT !.view = "status", !.on = Mongo, !.request = "mongoKillOp", !.uses = "killOp",
                     !.hook = {"mongo-currentop"}]
\* Ctrl+Enter in the pipeline, again.
RunButton == [Op EXCEPT !.blockedBy = {}]
RunAggregation ==
  [RunButton EXCEPT !.view = "aggregate", !.on = Mongo, !.request = "mongoRunAggregation",
                    !.uses = "aggregate"]
\* The file picker is not disabled while an import runs.
FilePicker == [Op EXCEPT !.blockedBy = {}]
ImportScript ==
  [FilePicker EXCEPT !.view = "import", !.on = Sql, !.request = "importSQL", !.uses = "importing",
                     !.hook = {"rows", "tables"}]
ImportDocuments ==
  [FilePicker EXCEPT !.view = "import", !.on = Mongo, !.request = "importJSON", !.uses = "importing",
                     !.hook = {"rows", "tables"}]
ExportButtons == [Op EXCEPT !.admin = FALSE, !.blockedBy = {"exporting"}]
ExportTable ==
  [ExportButtons EXCEPT !.view = "export", !.request = "exportTable", !.uses = "exporting"]
ExportDatabase ==
  [ExportButtons EXCEPT !.view = "export", !.request = "exportDatabase", !.uses = "exporting"]

\* Ctrl+Enter does not look at isPending. A statement that isDDL does not
\* recognise, a command of the Mongo shell among them, invalidates nothing.
QueryEditorKeys == [Op EXCEPT !.blockedBy = {}]
ExecuteDDL ==
  [QueryEditorKeys EXCEPT !.view = "query", !.on = Sql, !.request = "executeQuery", !.uses = "execute",
                          !.local = {"tables", "databases"}]
ExecuteOther ==
  [QueryEditorKeys EXCEPT !.view = "query", !.request = "executeQuery", !.uses = "execute"]

---------------------------------------------------------------------------

Ops ==
  [TableInsert |-> TableInsert, TableUpdate |-> TableUpdate, TableDelete |-> TableDelete,
   InlineSave |-> InlineSave,
   DocInsert |-> DocInsert, DocUpdate |-> DocUpdate, DocDelete |-> DocDelete,
   BulkInsert |-> BulkInsert, BulkUpdate |-> BulkUpdate, BulkDelete |-> BulkDelete,
   AlterColumn |-> AlterColumn, DropColumn |-> DropColumn, Maintenance |-> Maintenance, Compact |-> Compact,
   RenameCollection |-> RenameCollection, DuplicateCollection |-> DuplicateCollection,
   ConvertToCapped |-> ConvertToCapped, SetValidation |-> SetValidation,
   CreateTable |-> CreateTable, DropTable |-> DropTable, TruncateTable |-> TruncateTable,
   CreateCapped |-> CreateCapped, CreateTimeSeries |-> CreateTimeSeries,
   CreateDatabase |-> CreateDatabase, DropDatabase |-> DropDatabase,
   BackupDatabase |-> BackupDatabase, RestoreDatabase |-> RestoreDatabase,
   CreateIndex |-> CreateIndex, DropIndex |-> DropIndex, HideIndex |-> HideIndex,
   CreateRole |-> CreateRole, UpdateRole |-> UpdateRole, DropRole |-> DropRole,
   CreateUser |-> CreateUser, SaveRoles |-> SaveRoles, ChangeUserPassword |-> ChangeUserPassword,
   DropUser |-> DropUser, UpdateAccountRole |-> UpdateAccountRole, DeleteAccount |-> DeleteAccount,
   ToggleWhitelist |-> ToggleWhitelist, AddIP |-> AddIP, RemoveIP |-> RemoveIP, BulkAddIPs |-> BulkAddIPs,
   CreateView |-> CreateView, DropView |-> DropView, UploadFile |-> UploadFile, DeleteFile |-> DeleteFile,
   SetProfiling |-> SetProfiling, DropTrigger |-> DropTrigger, DropRoutine |-> DropRoutine, KillOp |-> KillOp,
   RunAggregation |-> RunAggregation, ImportScript |-> ImportScript, ImportDocuments |-> ImportDocuments,
   ExportTable |-> ExportTable, ExportDatabase |-> ExportDatabase,
   ExecuteDDL |-> ExecuteDDL, ExecuteOther |-> ExecuteOther]

\* The operations whose button or key is live while the request is pending.
\* isPending is about the latest mutate() of a hook: an inline save makes the dialog
\* forget its own update, and the last table of a bulk the others. Starting a
\* backup or restore of another database frees the button of the first.
Unguarded == {"TableDelete", "DocDelete", "DropUser", "ChangeUserPassword", "CreateDatabase", "AddIP",
              "ImportScript", "ImportDocuments", "RunAggregation", "ExecuteDDL", "ExecuteOther",
              "InlineSave", "TableUpdate", "DropTable", "TruncateTable", "BackupDatabase", "RestoreDatabase"}

\* What an answer may leave out of date on the page: the list of the omissions.
NotInvalidated ==
  [n \in DOMAIN Ops |->
     CASE n = "RenameCollection" -> OfOneTable \ {"rows"}
       [] n = "ConvertToCapped"  -> {"columns", "mongo-field-analysis"}
       [] n \in {"CreateTable", "DropTable"} ->
            {"databases", "schema-tables", "mongo-dbstats", "mongo-coll-meta"}
       [] n \in {"CreateCapped", "CreateTimeSeries"} -> {"databases", "mongo-dbstats", "mongo-coll-meta"}
       [] n = "TruncateTable"    -> {"mongo-dbstats", "mongo-coll-meta"}
       [] n \in {"CreateView", "DropView", "ImportDocuments"} -> {"databases"}
       [] n \in {"CreateIndex", "DropIndex", "HideIndex"} -> {"mongo-index-stats"}
       [] n = "SetProfiling"     -> {"mongo-profile-data", "tables"}
       [] n \in {"CreateRole", "CreateUser"} -> {"tables"}
       [] n \in {"UploadFile", "RunAggregation"} -> {"databases", "tables"}
       [] n = "ImportScript"     -> {"databases", "schemas", "schema-tables"}
       [] n = "ExecuteDDL"       -> {"schemas", "schema-tables"}
       [] n = "RestoreDatabase"  -> DatabasesQueries
       [] n = "ExecuteOther"     -> {"databases", "tables", "schemas", "schema-tables"}
       [] OTHER                  -> {}]

=============================================================================
