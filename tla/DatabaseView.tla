---------------------------- MODULE DatabaseView ----------------------------
(***************************************************************************)
(* The ticked tables of database-view.tsx and what is done to them. The    *)
(* ticks are names: the view stays on screen when another database is      *)
(* selected, and keeps them. A confirmation is awaited with the database   *)
(* and the names it was opened with.                                       *)
(* The request of each table is sent at once; that a request may fail, and *)
(* what the list shows then, is in Workspace.                              *)
(***************************************************************************)
EXTENDS FiniteSets

CONSTANTS Dbs, Names, NoDb

ASSUME NoDbIsNone == NoDb \notin Dbs

VARIABLES
  db,        \* selectedDb of the navigation store
  tables,    \* the tables each database has, as the view lists them
  ticked,    \* selected: the names that are ticked
  ticks,     \* history: which database each of them was ticked in
  asking,    \* the confirmation that is open, with what it will act on
  hit        \* history: what the last bulk operation acted on

dbVars == <<db, tables, ticked, ticks, asking, hit>>

NoQuestion == [kind |-> "", db |-> NoDb, names |-> {}, ticks |-> {}]
Kinds == {"drop", "truncate", "bulkDrop", "bulkTruncate"}
Pairs == (Dbs \cup {NoDb}) \X Names

NothingHit == [of |-> {}, ticks |-> {}]

NameOf(pair) == pair[2]

---------------------------------------------------------------------------
(* Ticking. *)

toggleSelect(t) ==
  /\ asking = NoQuestion /\ t \in tables[db]
  /\ IF t \in ticked
     THEN /\ ticked' = ticked \ {t}
          /\ ticks' = {p \in ticks : NameOf(p) # t}
     ELSE /\ ticked' = ticked \cup {t}
          /\ ticks' = ticks \cup {<<db, t>>}
  /\ UNCHANGED <<db, tables, asking, hit>>

\* Both branches of the code select everything.
toggleAll ==
  /\ asking = NoQuestion
  /\ ticked' = tables[db]
  /\ ticks' = {db} \X tables[db]
  /\ UNCHANGED <<db, tables, asking, hit>>

---------------------------------------------------------------------------
(* Dropping and emptying. *)

Ask(kind, names) ==
  /\ asking = NoQuestion
  /\ asking' = [kind |-> kind, db |-> db, names |-> names, ticks |-> ticks]
  /\ UNCHANGED <<db, tables, ticked, ticks, hit>>

handleDropTable(t) == t \in tables[db] /\ Ask("drop", {t})
handleTruncateTable(t) == t \in tables[db] /\ Ask("truncate", {t})
handleBulkDrop == ticked # {} /\ Ask("bulkDrop", ticked)
handleBulkTruncate == ticked # {} /\ Ask("bulkTruncate", ticked)

CancelConfirm ==
  /\ asking # NoQuestion
  /\ asking' = NoQuestion
  /\ UNCHANGED <<db, tables, ticked, ticks, hit>>

WithoutDropped == [tables EXCEPT ![asking.db] = @ \ asking.names]

ConfirmDrop ==
  /\ asking.kind = "drop"
  /\ tables' \in {tables, WithoutDropped}
  /\ ticked' = ticked \ asking.names
  /\ ticks' = {p \in ticks : NameOf(p) \notin asking.names}
  /\ asking' = NoQuestion
  /\ UNCHANGED <<db, hit>>

ConfirmTruncate ==
  /\ asking.kind = "truncate"
  /\ asking' = NoQuestion
  /\ UNCHANGED <<db, tables, ticked, ticks, hit>>

\* A bug: the ticks stay after a bulk operation.
UntickedMutant == ticked' = ticked

\* setSelected(new Set())
Unticked == ticked' = {}

\* One mutate() for each name, then the ticks go, whatever the answers are.
ConfirmBulk ==
  /\ asking.kind \in {"bulkDrop", "bulkTruncate"}
  /\ hit' = [of |-> {asking.db} \X asking.names, ticks |-> asking.ticks]
  /\ tables' \in IF asking.kind = "bulkDrop"
                 THEN {[tables EXCEPT ![asking.db] = @ \ gone] : gone \in SUBSET asking.names}
                 ELSE {tables}
  /\ Unticked
  /\ ticks' = {}
  /\ asking' = NoQuestion
  /\ UNCHANGED db

---------------------------------------------------------------------------
(* Around the view. *)

\* handleSelectDb in the sidebar; a modal confirmation covers it.
SelectDb(d) ==
  /\ asking = NoQuestion
  /\ db' = d
  /\ UNCHANGED <<tables, ticked, ticks, asking, hit>>

\* A table or another tab is opened and the view shown again later. A key can
\* do so under an open confirmation, which is then still answered.
LeaveDatabaseView ==
  /\ ticked' = {} /\ ticks' = {}
  /\ UNCHANGED <<db, tables, asking, hit>>

\* Tables are created and dropped from anywhere.
TablesChange(d) ==
  /\ \E names \in SUBSET Names : tables' = [tables EXCEPT ![d] = names]
  /\ UNCHANGED <<db, ticked, ticks, asking, hit>>

---------------------------------------------------------------------------

DatabaseInit ==
  /\ db \in Dbs
  /\ tables \in [Dbs -> SUBSET Names]
  /\ ticked = {} /\ ticks = {}
  /\ asking = NoQuestion
  /\ hit = NothingHit

DatabaseNext ==
  \/ toggleAll \/ handleBulkDrop \/ handleBulkTruncate \/ CancelConfirm
  \/ ConfirmDrop \/ ConfirmTruncate \/ ConfirmBulk \/ LeaveDatabaseView
  \/ \E t \in Names : toggleSelect(t) \/ handleDropTable(t) \/ handleTruncateTable(t)
  \/ \E d \in Dbs : SelectDb(d) \/ TablesChange(d)

DatabaseSpec == DatabaseInit /\ [][DatabaseNext]_dbVars

---------------------------------------------------------------------------
(* Properties. *)

DatabaseTypeOK ==
  /\ db \in Dbs
  /\ tables \in [Dbs -> SUBSET Names]
  /\ ticked \subseteq Names
  /\ ticks \subseteq Dbs \X Names
  /\ asking \in
       [kind : Kinds \cup {""}, db : Dbs \cup {NoDb}, names : SUBSET Names,
        ticks : SUBSET (Dbs \X Names)]
  /\ asking.kind # "" => asking.db \in Dbs
  /\ hit \in [of : SUBSET Pairs, ticks : SUBSET (Dbs \X Names)]

\* A bulk drop or truncate acts only on tables the user ticked since the last
\* one and since the view came on screen: under the database it names, or, as
\* the ticks survive a change of database, under another one that has a table
\* of the same name. Nothing ticked for an earlier operation is acted on again.
DropsOnlyTicked ==
  \A p \in hit.of : \E q \in hit.ticks : NameOf(q) = NameOf(p)

=============================================================================
