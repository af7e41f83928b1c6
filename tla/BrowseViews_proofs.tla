------------------------- MODULE BrowseViews_proofs -------------------------
(***************************************************************************)
(* Proofs about the views that browse data: DatabaseView and its ticks,    *)
(* DocumentView with its page and plan, TableView and its cell editor,     *)
(* StructureView and its column dialog, QueryEditor and its history; for   *)
(* any names, databases, filters, collections, rows, columns, editors and  *)
(* statements.                                                             *)
(***************************************************************************)
EXTENDS DatabaseView, DocumentView, TableView, StructureView, QueryEditor, SequenceTheorems, TLAPS

---------------------------------------------------------------------------
(* DatabaseView: typing. *)

LEMMA DatabaseInitTyped == DatabaseInit => DatabaseTypeOK
<1> SUFFICES ASSUME DatabaseInit PROVE DatabaseTypeOK
    OBVIOUS
<1>1. db \in Dbs /\ tables \in [Dbs -> SUBSET Names] /\ ticked = {} /\ ticks = {}
      BY DEF DatabaseInit
<1>2. asking = [kind |-> "", db |-> NoDb, names |-> {}, ticks |-> {}]
      BY DEF DatabaseInit, NoQuestion
<1>3. hit = [of |-> {}, ticks |-> {}]
      BY DEF DatabaseInit, NothingHit
<1>4. asking \in [kind : Kinds \cup {""}, db : Dbs \cup {NoDb}, names : SUBSET Names,
                 ticks : SUBSET (Dbs \X Names)]
      BY <1>2
<1>5. hit \in [of : SUBSET Pairs, ticks : SUBSET (Dbs \X Names)]
      BY <1>3
<1>6. asking.kind = ""
      BY <1>2
<1> QED
    BY <1>1, <1>4, <1>5, <1>6 DEF DatabaseTypeOK

Questions ==
  [kind : Kinds \cup {""}, db : Dbs \cup {NoDb}, names : SUBSET Names, ticks : SUBSET (Dbs \X Names)]

LEMMA NoQuestionTyped == NoQuestion \in Questions /\ NoQuestion.kind = "" /\ NoQuestion.names = {}
BY DEF NoQuestion, Questions

LEMMA AskTyped ==
  ASSUME DatabaseTypeOK, NEW kind \in Kinds, NEW names \in SUBSET Names, Ask(kind, names)
  PROVE  DatabaseTypeOK'
BY DEF Ask, DatabaseTypeOK, Kinds

LEMMA DatabaseStepTyped == DatabaseTypeOK /\ [DatabaseNext]_dbVars => DatabaseTypeOK'
<1> SUFFICES ASSUME DatabaseTypeOK, [DatabaseNext]_dbVars PROVE DatabaseTypeOK'
    OBVIOUS
<1> USE DEF DatabaseTypeOK
<1>1. ASSUME NEW t \in Names, toggleSelect(t) PROVE DatabaseTypeOK'
  <2>1. ticked' \subseteq Names
        BY <1>1 DEF toggleSelect
  <2>2. ticks' \subseteq Dbs \X Names
    <3>1. <<db, t>> \in Dbs \X Names
          OBVIOUS
    <3>2. ticks' \subseteq ticks \cup {<<db, t>>}
          BY <1>1 DEF toggleSelect
    <3> QED
        BY <3>1, <3>2
  <2> QED
      BY <1>1, <2>1, <2>2 DEF toggleSelect
<1>2. CASE toggleAll
  <2>1. tables[db] \subseteq Names
        OBVIOUS
  <2> QED
      BY <1>2, <2>1 DEF toggleAll
<1>3. ASSUME NEW t \in Names, handleDropTable(t) \/ handleTruncateTable(t) PROVE DatabaseTypeOK'
      BY <1>3, AskTyped DEF handleDropTable, handleTruncateTable, Kinds
<1>4. CASE handleBulkDrop \/ handleBulkTruncate
      BY <1>4, AskTyped, ticked \in SUBSET Names DEF handleBulkDrop, handleBulkTruncate, Kinds
<1>5. CASE CancelConfirm \/ ConfirmTruncate
      BY <1>5, NoQuestionTyped DEF CancelConfirm, ConfirmTruncate, Questions
<1>6. CASE ConfirmDrop
  <2>1. asking.db \in Dbs /\ asking.names \subseteq Names
        BY <1>6 DEF ConfirmDrop
  <2>2. tables' \in [Dbs -> SUBSET Names]
        BY <1>6, <2>1 DEF ConfirmDrop, WithoutDropped
  <2> QED
      BY <1>6, <2>2, NoQuestionTyped DEF ConfirmDrop, Questions
<1>7. CASE ConfirmBulk
  <2>1. asking.db \in Dbs /\ asking.names \subseteq Names /\ asking.ticks \subseteq Dbs \X Names
        BY <1>7 DEF ConfirmBulk
  <2>2. tables' \in [Dbs -> SUBSET Names]
    <3>1. tables' = tables \/ \E dropped \in SUBSET asking.names : tables' = [tables EXCEPT ![asking.db] = @ \ dropped]
          BY <1>7 DEF ConfirmBulk
    <3> QED
        BY <3>1
  <2>3. hit' \in [of : SUBSET Pairs, ticks : SUBSET (Dbs \X Names)]
    <3>1. {asking.db} \X asking.names \subseteq Pairs
          BY <2>1 DEF Pairs
    <3>2. hit' = [of |-> {asking.db} \X asking.names, ticks |-> asking.ticks]
          BY <1>7 DEF ConfirmBulk
    <3> QED
        BY ONLY <2>1, <3>1, <3>2
  <2> QED
      BY <1>7, <2>2, <2>3, NoQuestionTyped DEF ConfirmBulk, Unticked, Questions
<1>8. ASSUME NEW d \in Dbs, SelectDb(d) PROVE DatabaseTypeOK'
      BY <1>8 DEF SelectDb
<1>9. CASE LeaveDatabaseView
      BY <1>9 DEF LeaveDatabaseView
<1>10. ASSUME NEW d \in Dbs, TablesChange(d) PROVE DatabaseTypeOK'
       BY <1>10 DEF TablesChange
<1>11. CASE UNCHANGED dbVars
       BY <1>11 DEF dbVars
<1> QED
    BY <1>1, <1>2, <1>3, <1>4, <1>5, <1>6, <1>7, <1>8, <1>9, <1>10, <1>11 DEF DatabaseNext

\* Every reachable state of database-view.tsx is well typed, and an open
\* confirmation is about a database.
THEOREM DatabaseTyped == DatabaseSpec => []DatabaseTypeOK
<1> QED
    BY DatabaseInitTyped, DatabaseStepTyped, PTL DEF DatabaseSpec

---------------------------------------------------------------------------
(* DatabaseView: what a bulk operation acts on. *)

\* Every ticked name was ticked since the last bulk operation, in some
\* database, and so was every name in a question that awaits its answer; the
\* question keeps its ticks although those of the view may go under it.
TicksRemembered ==
  /\ \A t \in ticked : \E p \in ticks : NameOf(p) = t
  /\ asking.kind \in {"bulkDrop", "bulkTruncate"} =>
       \A t \in asking.names : \E p \in asking.ticks : NameOf(p) = t

LEMMA TicksRememberedStep ==
  DatabaseTypeOK /\ TicksRemembered /\ [DatabaseNext]_dbVars => TicksRemembered'
<1> SUFFICES ASSUME DatabaseTypeOK, TicksRemembered, [DatabaseNext]_dbVars PROVE TicksRemembered'
    OBVIOUS
<1> USE DEF TicksRemembered
<1>1. ASSUME NEW t \in Names, toggleSelect(t) PROVE TicksRemembered'
  <2>1. asking' = asking
        BY <1>1 DEF toggleSelect
  <2>2. ASSUME t \in ticked, NEW u \in ticked' PROVE \E p \in ticks' : NameOf(p) = u
    <3>1. u \in ticked /\ u # t
          BY <1>1, <2>2 DEF toggleSelect
    <3>2. ticks' = {p \in ticks : NameOf(p) # t}
          BY <1>1, <2>2 DEF toggleSelect
    <3> QED
        BY <3>1, <3>2
  <2>3. ASSUME t \notin ticked, NEW u \in ticked' PROVE \E p \in ticks' : NameOf(p) = u
    <3>1. ticks' = ticks \cup {<<db, t>>} /\ (u \in ticked \/ u = t)
          BY <1>1, <2>3 DEF toggleSelect
    <3>2. NameOf(<<db, t>>) = t
          BY DEF NameOf
    <3> QED
        BY <3>1, <3>2
  <2> QED
      BY <2>1, <2>2, <2>3
<1>2. CASE toggleAll
  <2>1. asking' = asking /\ ticked' = tables[db] /\ ticks' = {db} \X tables[db]
        BY <1>2 DEF toggleAll
  <2>2. ASSUME NEW t \in tables[db] PROVE <<db, t>> \in {db} \X tables[db] /\ NameOf(<<db, t>>) = t
        BY DEF NameOf
  <2> QED
      BY <2>1, <2>2
<1>3. ASSUME NEW t \in Names, handleDropTable(t) \/ handleTruncateTable(t) PROVE TicksRemembered'
      BY <1>3 DEF handleDropTable, handleTruncateTable, Ask
<1>4. CASE handleBulkDrop \/ handleBulkTruncate
  <2>1. ticked' = ticked /\ ticks' = ticks /\ asking'.names = ticked /\ asking'.ticks = ticks
        BY <1>4 DEF handleBulkDrop, handleBulkTruncate, Ask
  <2> QED
      BY <2>1
<1>5. CASE CancelConfirm \/ ConfirmTruncate
      BY <1>5, NoQuestionTyped DEF CancelConfirm, ConfirmTruncate
<1>6. CASE ConfirmDrop
  <2>1. /\ ticked' = ticked \ asking.names
        /\ ticks' = {p \in ticks : NameOf(p) \notin asking.names}
        /\ asking' = NoQuestion
        BY <1>6 DEF ConfirmDrop
  <2> QED
      BY <2>1, NoQuestionTyped
<1>7. CASE ConfirmBulk
      BY <1>7, NoQuestionTyped DEF ConfirmBulk, Unticked
<1>8. ASSUME NEW d \in Dbs, SelectDb(d) \/ TablesChange(d) PROVE TicksRemembered'
      BY <1>8 DEF SelectDb, TablesChange
<1>9. CASE LeaveDatabaseView
      BY <1>9 DEF LeaveDatabaseView
<1>10. CASE UNCHANGED dbVars
       BY <1>10 DEF dbVars
<1> QED
    BY <1>1, <1>2, <1>3, <1>4, <1>5, <1>6, <1>7, <1>8, <1>9, <1>10 DEF DatabaseNext

LEMMA DropsOnlyTickedStep ==
  TicksRemembered /\ DropsOnlyTicked /\ [DatabaseNext]_dbVars => DropsOnlyTicked'
<1> SUFFICES ASSUME TicksRemembered, DropsOnlyTicked, [DatabaseNext]_dbVars PROVE DropsOnlyTicked'
    OBVIOUS
<1>1. CASE ConfirmBulk
  <2>1. hit' = [of |-> {asking.db} \X asking.names, ticks |-> asking.ticks]
        BY <1>1 DEF ConfirmBulk
  <2>2. \A t \in asking.names : \E q \in asking.ticks : NameOf(q) = t
        BY <1>1 DEF ConfirmBulk, TicksRemembered
  <2>3. \A p \in {asking.db} \X asking.names : NameOf(p) \in asking.names
        BY DEF NameOf
  <2> QED
      BY <2>1, <2>2, <2>3 DEF DropsOnlyTicked
<1>2. CASE hit' = hit
      BY <1>2 DEF DropsOnlyTicked
<1>3. ConfirmBulk \/ hit' = hit
      BY DEF DatabaseNext, dbVars, toggleSelect, toggleAll, handleDropTable, handleTruncateTable,
             handleBulkDrop, handleBulkTruncate, Ask, CancelConfirm, ConfirmDrop, ConfirmTruncate,
             SelectDb, LeaveDatabaseView, TablesChange
<1> QED
    BY <1>1, <1>2, <1>3

\* A bulk drop or truncate (handleBulkDrop, handleBulkTruncate) acts only on
\* names the user ticked since the last one and since the view came on screen.
THEOREM DatabaseDropsOnlyTicked == DatabaseSpec => []DropsOnlyTicked
<1>1. DatabaseInit => TicksRemembered /\ DropsOnlyTicked
  <2> SUFFICES ASSUME DatabaseInit PROVE TicksRemembered /\ DropsOnlyTicked
      OBVIOUS
  <2>1. ticked = {} /\ asking.kind = "" /\ hit.of = {}
        BY NoQuestionTyped DEF DatabaseInit, NothingHit
  <2> QED
      BY <2>1 DEF TicksRemembered, DropsOnlyTicked
<1> QED
    BY <1>1, DatabaseTyped, TicksRememberedStep, DropsOnlyTickedStep, PTL DEF DatabaseSpec

---------------------------------------------------------------------------
(* DocumentView: typing. *)

LEMMA PanelTyped ==
  ASSUME collection \in Collections, NEW panel \in Panels
  PROVE  /\ NoPanel \in Panels
         /\ [NoPanel EXCEPT !.asked = panel.asked] \in Panels
         /\ PanelAsked(panel) \in Panels
         /\ \A c \in panel.asked : PanelAnswered(panel, c) \in Panels
BY DEF NoPanel, PanelAsked, PanelAnswered, Panels

LEMMA DocumentStepTyped == DocumentTypeOK /\ [DocumentNext]_docVars => DocumentTypeOK'
<1> SUFFICES ASSUME DocumentTypeOK, [DocumentNext]_docVars PROVE DocumentTypeOK'
    OBVIOUS
<1> USE DEF DocumentTypeOK
<1>1. CASE applyFilter \/ clearFilter
  <2>1. filter.typed \in Filters /\ NoFilter \in Filters
        BY DocumentAssumption
  <2>2. CASE applyFilter
        BY <2>1, <2>2 DEF applyFilter, FirstPage
  <2>3. CASE clearFilter
        BY <2>1, <2>3 DEF clearFilter, FirstPage
  <2> QED
      BY <1>1, <2>2, <2>3
<1>2. CASE NextPage \/ PrevPage
  <2>1. page' \in Nat
        BY <1>2 DEF NextPage, PrevPage
  <2>2. shrunk' \in BOOLEAN
        BY <1>2 DEF NextPage, PrevPage
  <2> QED
      BY <1>2, <2>1, <2>2 DEF NextPage, PrevPage
<1>3. CASE handleExplain \/ ExplainAnswered \/ CloseExplain
  <2>1. explain' \in Panels
        BY <1>3, PanelTyped DEF handleExplain, ExplainAnswered, CloseExplain
  <2> QED
      BY <1>3, <2>1 DEF handleExplain, ExplainAnswered, CloseExplain
<1>4. CASE handleDistinct \/ DistinctAnswered
  <2>1. distinct' \in Panels
        BY <1>4, PanelTyped DEF handleDistinct, DistinctAnswered
  <2> QED
      BY <1>4, <2>1 DEF handleDistinct, DistinctAnswered
<1>5. ASSUME NEW f \in Filters, Type(f) PROVE DocumentTypeOK'
      BY <1>5 DEF Type
<1>6. ASSUME NEW c \in Collections, Select(c) PROVE DocumentTypeOK'
  <2>1. explain' \in Panels
        BY <1>6, PanelTyped DEF Select, ExplainReset
  <2>2. distinct' \in Panels
        BY <1>6 DEF Select, Panels
  <2> QED
      BY DocumentAssumption, <1>6, <2>1, <2>2 DEF Select, FirstPage
<1>7. ASSUME NEW c \in Collections, NEW f \in Filters, NEW n \in 0..MaxPages,
             PageSize(c, f, n) \/ Documents(c, f, n)
      PROVE  DocumentTypeOK'
  <2>1. pages' = [pages EXCEPT ![c][f] = n]
        BY <1>7 DEF PageSize, Documents
  <2>2. pages' \in [Collections -> [Filters -> 0..MaxPages]]
        BY <2>1
  <2>3. page' \in Nat
        BY <1>7 DEF PageSize, Documents, FirstPage
  <2>4. shrunk' \in BOOLEAN
        BY <1>7, Zenon DEF PageSize, Documents, FirstPage
  <2> QED
      BY <1>7, <2>2, <2>3, <2>4 DEF PageSize, Documents
<1>8. CASE UNCHANGED docVars
      BY <1>8 DEF docVars
<1> QED
    BY <1>1, <1>2, <1>3, <1>4, <1>5, <1>6, <1>7, <1>8 DEF DocumentNext

\* Every reachable state of document-view.tsx is well typed.
THEOREM DocumentTyped == DocumentSpec => []DocumentTypeOK
<1>1. DocumentInit => DocumentTypeOK
  <2> SUFFICES ASSUME DocumentInit PROVE DocumentTypeOK
      OBVIOUS
  <2>1. NoPanel \in Panels
        BY DEF NoPanel, Panels
  <2>2. pages \in [Collections -> [Filters -> 0..MaxPages]]
        BY DocumentAssumption DEF DocumentInit
  <2> QED
      BY <2>1, <2>2, DocumentAssumption DEF DocumentInit, DocumentTypeOK
<1> QED
    BY <1>1, DocumentStepTyped, PTL DEF DocumentSpec

---------------------------------------------------------------------------
(* DocumentView: the page and the plan. *)

LEMMA PageExistsStep ==
  DocumentTypeOK /\ PageExists /\ [DocumentNext]_docVars => PageExists'
<1> SUFFICES ASSUME DocumentTypeOK, PageExists, [DocumentNext]_docVars PROVE PageExists'
    OBVIOUS
<1>0. /\ page \in Nat /\ collection \in Collections /\ filter.active \in Filters
      /\ pages \in [Collections -> [Filters -> 0..MaxPages]]
      BY DEF DocumentTypeOK
<1>1. CASE page' = 0
      BY <1>1 DEF PageExists
<1>2. CASE NextPage
      BY <1>0, <1>2 DEF NextPage, PageExists
<1>3. CASE PrevPage
  <2>1. /\ page' < page
        /\ pages'[collection'][filter'.active] = pages[collection][filter.active] /\ shrunk' = shrunk
        BY <1>0, <1>3 DEF PrevPage
  <2>2. page > 0 /\ page' \in Nat
        BY <1>0, <1>3 DEF PrevPage
  <2>3. pages[collection][filter.active] \in Nat
        BY <1>0, DocumentAssumption
  <2> QED
      BY <1>0, <2>1, <2>2, <2>3 DEF PageExists
<1>4. ASSUME NEW f \in Filters, Type(f) PROVE PageExists'
  <2>1. filter'.active = filter.active
        BY <1>4 DEF Type, DocumentTypeOK
  <2> QED
      BY <1>4, <2>1 DEF Type, PageExists
<1>5. ASSUME NEW c \in Collections, NEW f \in Filters, NEW n \in 0..MaxPages, Documents(c, f, n)
      PROVE  PageExists'
  <2>1. /\ pages' = [pages EXCEPT ![c][f] = n] /\ shrunk' = (shrunk \/ n < pages[c][f])
        /\ page' = page /\ collection' = collection /\ filter' = filter
        BY <1>5 DEF Documents
  <2>2. CASE c = collection /\ f = filter.active
    <3>1. pages'[collection][filter.active] = n
          BY <1>0, <2>1, <2>2
    <3>2. n \in Nat /\ pages[c][f] \in Nat
          BY <1>0, DocumentAssumption
    <3>3. pages[collection][filter.active] = pages[c][f]
          BY <2>2
    <3>4. n < pages[c][f] => shrunk'
          BY <2>1
    <3>5. shrunk => shrunk'
          BY <2>1
    <3> QED
        BY <1>0, <2>1, <3>1, <3>2, <3>3, <3>4, <3>5 DEF PageExists
  <2>3. CASE ~(c = collection /\ f = filter.active)
    <3>1. pages'[collection][filter.active] = pages[collection][filter.active]
          BY <1>0, <2>1, <2>3
    <3> QED
        BY <2>1, <3>1 DEF PageExists
  <2> QED
      BY <2>2, <2>3
<1>6. CASE UNCHANGED <<collection, filter, page, pages, shrunk>>
      BY <1>6 DEF PageExists
<1> QED
    BY <1>1, <1>2, <1>3, <1>4, <1>5, <1>6
       DEF DocumentNext, docVars, applyFilter, clearFilter, FirstPage, PageSize, Select,
           handleExplain, ExplainAnswered, CloseExplain, handleDistinct, DistinctAnswered

\* The page document-view.tsx shows exists under the filter and collection it
\* shows, unless documents went away since the user turned to it.
THEOREM DocumentPageExists == DocumentSpec => []PageExists
<1>1. DocumentInit => PageExists
      BY DEF DocumentInit, PageExists
<1> QED
    BY <1>1, DocumentTyped, PageExistsStep, PTL DEF DocumentSpec

LEMMA PanelStep ==
  DocumentTypeOK /\ PanelOfCollection /\ [DocumentNext]_docVars => PanelOfCollection'
<1> SUFFICES ASSUME DocumentTypeOK, PanelOfCollection, [DocumentNext]_docVars PROVE PanelOfCollection'
    OBVIOUS
<1>0. explain \in Panels
      BY DEF DocumentTypeOK
<1>1. CASE handleExplain
  <2>1. explain'.of = explain.of /\ explain'.late = explain.late /\ collection' = collection
        BY <1>0, <1>1 DEF handleExplain, PanelAsked, Panels
  <2> QED
      BY <2>1 DEF PanelOfCollection
<1>2. CASE ExplainAnswered
  <2>1. PICK c \in explain.asked : explain' = PanelAnswered(explain, c) /\ collection' = collection
        BY <1>2 DEF ExplainAnswered
  <2>2. explain'.of = c /\ explain'.late = (c # collection)
        BY <2>1 DEF PanelAnswered
  <2> QED
      BY <2>1, <2>2 DEF PanelOfCollection
<1>3. CASE CloseExplain
      BY <1>3 DEF CloseExplain, NoPanel, PanelOfCollection
<1>4. ASSUME NEW c \in Collections, Select(c) PROVE PanelOfCollection'
      BY <1>4 DEF Select, ExplainReset, NoPanel, PanelOfCollection
<1>5. CASE UNCHANGED <<collection, explain>>
      BY <1>5 DEF PanelOfCollection
<1> QED
    BY <1>1, <1>2, <1>3, <1>4, <1>5
       DEF DocumentNext, docVars, applyFilter, clearFilter, NextPage, PrevPage, Type, PageSize, Documents,
           handleDistinct, DistinctAnswered

\* The plan that Explain shows is of the collection that is shown, unless its
\* answer came after another collection was selected.
THEOREM DocumentPanelOfCollection == DocumentSpec => []PanelOfCollection
<1>1. DocumentInit => PanelOfCollection
      BY DEF DocumentInit, NoPanel, PanelOfCollection
<1> QED
    BY <1>1, DocumentTyped, PanelStep, PTL DEF DocumentSpec

---------------------------------------------------------------------------
(* TableView: typing. *)

LEMMA TableInitTyped == TableInit => TableTypeOK
<1> SUFFICES ASSUME TableInit PROVE TableTypeOK
    OBVIOUS
<1>1. (CHOOSE p \in Positions : TRUE) \in Positions
      BY TableAssumption
<1> QED
    BY <1>1 DEF TableInit, TableTypeOK, Edits, Writes

LEMMA TableStepTyped == TableTypeOK /\ [TableNext]_tableVars => TableTypeOK'
<1> SUFFICES ASSUME TableTypeOK, [TableNext]_tableVars PROVE TableTypeOK'
    OBVIOUS
<1> USE DEF TableTypeOK
<1>0. shown \in [Positions -> Rows \cup {NoRow}]
      BY DEF Displays
<1>1. ASSUME NEW p \in Positions, handleInlineStart(p) PROVE TableTypeOK'
      BY <1>0, <1>1 DEF handleInlineStart, Edits
<1>2. CASE handleInlineCancel
      BY <1>2 DEF handleInlineCancel, EditClosed, Edits
<1>3. ASSUME NEW focused \in BOOLEAN, handleInlineSave(focused) PROVE TableTypeOK'
  <2>1. CASE Unaltered
        BY <2>1 DEF Unaltered, EditClosed, Edits
  <2>2. CASE SaveSent(focused)
        BY <1>0, <2>2 DEF SaveSent, Edits, Writes
  <2> QED
      BY <1>3, <2>1, <2>2 DEF handleInlineSave
<1>4. CASE Enter \/ Blur
      BY <1>3, <1>4 DEF Enter, Blur
<1>5. CASE ClickField
      BY <1>5 DEF ClickField, Edits
<1>6. CASE Saved
      BY <1>6 DEF Saved, EditClosed, Edits
<1>7. CASE SaveFails \/ handleUpdateSubmit
      BY <1>7 DEF SaveFails, handleUpdateSubmit
<1>8. CASE handleSort \/ Search \/ OtherPage
      BY <1>8 DEF handleSort, Search, OtherPage
<1>9. CASE Refetch
      BY <1>9 DEF Refetch, Edits
<1>10. CASE UNCHANGED tableVars
       BY <1>10 DEF tableVars
<1> QED
    BY <1>1, <1>2, <1>4, <1>5, <1>6, <1>7, <1>8, <1>9, <1>10 DEF TableNext

\* Every reachable state of table-view.tsx is well typed; no row is shown at
\* two places.
THEOREM TableTyped == TableSpec => []TableTypeOK
<1> QED
    BY TableInitTyped, TableStepTyped, PTL DEF TableSpec

---------------------------------------------------------------------------
(* The row an inline edit writes to. *)

\* What makes WriteHitsItsRow inductive: as long as neither a refetch nor a
\* save came in between, an open edit has its row at its place and the focus,
\* so that whatever else would move the rows saves it first.
EditTracked ==
  edit.open => /\ edit.row # NoRow
               /\ shown[edit.pos] = edit.row \/ edit.moved \/ edit.tried
               /\ edit.focused \/ edit.moved \/ edit.tried

LEMMA TrackedStep ==
  TableTypeOK /\ EditTracked /\ [TableNext]_tableVars => EditTracked'
<1> SUFFICES ASSUME TableTypeOK, EditTracked, [TableNext]_tableVars PROVE EditTracked'
    OBVIOUS
<1> USE DEF EditTracked
<1>0. edit \in Edits
      BY DEF TableTypeOK
<1>1. ASSUME NEW p \in Positions, handleInlineStart(p) PROVE EditTracked'
      BY <1>1 DEF handleInlineStart
<1>2. CASE handleInlineCancel
      BY <1>0, <1>2 DEF handleInlineCancel, EditClosed, Edits
<1>3. ASSUME NEW focused \in BOOLEAN, handleInlineSave(focused) PROVE EditTracked'
  <2>1. CASE Unaltered
        BY <1>0, <2>1 DEF Unaltered, EditClosed, Edits
  <2>2. CASE SaveSent(focused)
        BY <1>0, <2>2 DEF SaveSent, Edits
  <2> QED
      BY <1>3, <2>1, <2>2 DEF handleInlineSave
<1>4. CASE Enter \/ Blur
      BY <1>3, <1>4 DEF Enter, Blur
<1>5. CASE ClickField
      BY <1>0, <1>5 DEF ClickField, Edits
<1>6. CASE Saved
      BY <1>0, <1>6 DEF Saved, EditClosed, Edits
<1>7. CASE SaveFails \/ handleUpdateSubmit
      BY <1>7 DEF SaveFails, handleUpdateSubmit
<1>8. CASE handleSort \/ Search \/ OtherPage
  <2>1. edit' = edit /\ ~Typing
        BY <1>8 DEF handleSort, Search, OtherPage
  \* The field has lost the focus, or its row has.
  <2>2. edit.open => edit.moved \/ edit.tried
        BY <1>0, <2>1 DEF Typing, Visible, Edits
  <2> QED
      BY <2>1, <2>2
<1>9. CASE Refetch
  <2>1. /\ edit'.open = edit.open /\ edit'.pos = edit.pos /\ edit'.row = edit.row
        /\ edit'.tried = edit.tried
        /\ edit'.moved = (edit.moved \/ shown'[edit.pos] # shown[edit.pos])
        /\ edit'.focused = (edit.focused /\ shown'[edit.pos] # NoRow)
        BY <1>0, <1>9 DEF Refetch, Edits
  <2>2. CASE shown'[edit.pos] # shown[edit.pos]
        BY <1>0, <2>1, <2>2 DEF Edits
  <2>3. CASE shown'[edit.pos] = shown[edit.pos]
        BY <1>0, <2>1, <2>3 DEF Edits
  <2> QED
      BY <2>2, <2>3
<1>10. CASE UNCHANGED tableVars
       BY <1>10 DEF tableVars
<1> QED
    BY <1>1, <1>2, <1>4, <1>5, <1>6, <1>7, <1>8, <1>9, <1>10 DEF TableNext

LEMMA WriteStep ==
  TableTypeOK /\ EditTracked /\ WriteHitsItsRow /\ [TableNext]_tableVars => WriteHitsItsRow'
<1> SUFFICES ASSUME TableTypeOK, EditTracked, WriteHitsItsRow, [TableNext]_tableVars
             PROVE  WriteHitsItsRow'
    OBVIOUS
<1>1. ASSUME NEW focused \in BOOLEAN, Typing, SaveSent(focused) PROVE WriteHitsItsRow'
  <2>1. edit.open
        BY <1>1 DEF Typing, Visible
  <2>2. lastWrite' = [to |-> shown[edit.pos], for |-> edit.row, tried |-> edit.tried, moved |-> edit.moved]
        BY <1>1 DEF SaveSent
  <2> QED
      BY <2>1, <2>2 DEF EditTracked, WriteHitsItsRow
<1>2. CASE lastWrite' = lastWrite
      BY <1>2 DEF WriteHitsItsRow
<1>3. lastWrite' = lastWrite \/ \E focused \in BOOLEAN : Typing /\ SaveSent(focused)
      BY DEF TableNext, tableVars, handleInlineStart, handleInlineCancel, Enter, Blur, handleInlineSave,
             Unaltered, ClickField, Saved, SaveFails, handleUpdateSubmit, handleSort, Search, OtherPage, Refetch
<1> QED
    BY <1>1, <1>2, <1>3

\* A save of an inline edit (handleInlineSave) writes to the row the edit was
\* opened on, whatever is sorted, searched or paged, except after a refetch
\* that moved the rows or an earlier save of the same edit.
THEOREM TableWriteHitsItsRow == TableSpec => []WriteHitsItsRow
<1>1. TableInit => EditTracked /\ WriteHitsItsRow
      BY DEF TableInit, EditTracked, WriteHitsItsRow
<1> QED
    BY <1>1, TableTyped, TrackedStep, WriteStep, PTL DEF TableSpec

---------------------------------------------------------------------------
(* StructureView: typing, with the columns of the table under one name each. *)

ColumnMap == [ColumnNames -> Ids \cup {NoColumn}]
OneNameEach == \A m, n \in ColumnNames : named[m] = named[n] /\ Exists(m) => m = n

LEMMA NoFormTyped == NoForm \in Forms /\ NoForm.mode = "closed"
BY DEF NoForm, Forms

\* A request that is awaited was sent with a name and a definition.
CallSent ==
  /\ call.op = "none" => call = NoCall
  /\ call.op \in {"add", "rename", "modify"} =>
       call.form.name \in ColumnNames /\ call.form.def \in Definitions

LEMMA NamesStep ==
  ASSUME ColumnTypeOK, Added \/ Renamed \/ ColumnDropped
  PROVE  named' \in ColumnMap /\ OneNameEach'
<1> USE NoColumnIsNone DEF ColumnTypeOK, ColumnMap, OneNameEach, Exists
<1>0. named \in ColumnMap /\ call.form \in Forms
      OBVIOUS
<1>1. CASE Added
  <2>1. call.form.name \in ColumnNames \cup {NoColumn}
        BY <1>0 DEF Forms
  <2>2. PICK id \in Ids \ Columns : named' = [named EXCEPT ![call.form.name] = id]
        BY <1>1 DEF Added
  <2>3. \A n \in ColumnNames : named[n] # id
        BY <1>0, <2>2 DEF Columns
  <2> QED
      BY <1>0, <2>1, <2>2, <2>3
<1>2. CASE Renamed
  <2>1. /\ call.form.originalName \in ColumnNames \cup {NoColumn}
        /\ call.form.name \in ColumnNames \cup {NoColumn}
        BY <1>0 DEF Forms
  <2>2. /\ named' = [named EXCEPT ![call.form.originalName] = NoColumn,
                                  ![call.form.name] = named[call.form.originalName]]
        /\ Exists(call.form.originalName)
        BY <1>2 DEF Renamed
  <2> QED
      BY <1>0, <2>1, <2>2
<1>3. CASE ColumnDropped
  <2>1. call.form.name \in ColumnNames \cup {NoColumn}
        BY <1>0 DEF Forms
  <2>2. named' = [named EXCEPT ![call.form.name] = NoColumn]
        BY <1>3 DEF ColumnDropped
  <2> QED
      BY <1>0, <2>1, <2>2
<1> QED
    BY <1>1, <1>2, <1>3

\* What is left of the request afterwards.
LEMMA CallStep ==
  ASSUME ColumnTypeOK, CallSent
  PROVE  /\ NoCall \in [op : {"none", "add", "rename", "modify", "drop"}, form : Forms]
         /\ call' = NoCall => CallSent' /\ call'.op = "none"
         /\ call.op = "rename" /\ call' = [call EXCEPT !.op = "modify"] =>
              /\ call' \in [op : {"none", "add", "rename", "modify", "drop"}, form : Forms]
              /\ CallSent'
              /\ call'.op = "modify" /\ call'.form = call.form
BY NoFormTyped DEF NoCall, CallSent, ColumnTypeOK

LEMMA DefinedStep ==
  ASSUME ColumnTypeOK, CallSent, Added \/ Modified
  PROVE  /\ defined' \in [Ids -> Definitions]
         /\ altered' \in [id : Ids \cup {NoColumn}, for : Ids \cup {NoColumn}, disturbed : BOOLEAN]
<1> USE DEF ColumnTypeOK, CallSent
<1>1. CASE Added
      BY <1>1 DEF Added
<1>2. CASE Modified
  <2>1. call.form.name \in ColumnNames /\ call.form.def \in Definitions /\ named[call.form.name] \in Ids
        BY <1>2 DEF Modified, Exists
  <2>2. call.form.id \in Ids \cup {NoColumn} /\ call.form.disturbed \in BOOLEAN
        BY DEF Forms
  <2>3. /\ defined' = [defined EXCEPT ![named[call.form.name]] = call.form.def]
        /\ altered' = [id |-> named[call.form.name], for |-> call.form.id, disturbed |-> call.form.disturbed]
        BY <1>2 DEF Modified
  <2>4. defined' \in [Ids -> Definitions]
        BY <2>1, <2>3
  <2>5. altered' \in [id : Ids \cup {NoColumn}, for : Ids \cup {NoColumn}, disturbed : BOOLEAN]
        BY <2>1, <2>2, <2>3
  <2> QED
      BY <2>4, <2>5
<1> QED
    BY <1>1, <1>2

ColumnInv == ColumnTypeOK /\ CallSent

LEMMA ColumnInitTyped == ColumnInit => ColumnInv
<1> SUFFICES ASSUME ColumnInit PROVE ColumnInv
    OBVIOUS
<1>1. CallSent /\ call \in [op : {"none", "add", "rename", "modify", "drop"}, form : Forms]
      BY NoFormTyped DEF ColumnInit, NoCall, CallSent
<1>2. \A m, n \in ColumnNames : named[m] = named[n] /\ Exists(m) => m = n
      BY DEF ColumnInit, Exists
<1> QED
    BY <1>1, <1>2, NoFormTyped DEF ColumnInit, ColumnInv, ColumnTypeOK

LEMMA ColumnStepTyped == ColumnInv /\ [ColumnNext]_columnVars => ColumnInv'
<1> SUFFICES ASSUME ColumnInv, [ColumnNext]_columnVars PROVE ColumnInv'
    OBVIOUS
<1> USE DEF ColumnInv
<1>0. ColumnTypeOK /\ CallSent
      OBVIOUS
\* The steps of the dialog.
<1>1. ASSUME form' \in Forms, UNCHANGED <<named, defined, call, altered>> PROVE ColumnInv'
      BY <1>0, <1>1 DEF ColumnTypeOK, CallSent, Exists
<1>2. CASE openAdd \/ CloseColumnDialog
  <2>1. form' \in Forms
    <3>1. [NoForm EXCEPT !.mode = "add"] \in Forms
          BY DEF NoForm, Forms
    <3> QED
        BY <1>2, <3>1, NoFormTyped DEF openAdd, CloseColumnDialog
  <2> QED
      BY <1>1, <1>2, <2>1 DEF openAdd, CloseColumnDialog
<1>3. ASSUME NEW n \in ColumnNames, openEdit(n) \/ TypeName(n) PROVE ColumnInv'
  <2>1. CASE openEdit(n)
    <3>1. named[n] \in Ids /\ defined[named[n]] \in Definitions
          BY <1>0, <2>1 DEF openEdit, Exists, ColumnTypeOK
    <3> QED
        BY <1>1, <2>1, <3>1 DEF openEdit, Forms
  <2>2. CASE TypeName(n)
    <3>1. form' \in Forms
          BY <1>0, <2>2 DEF TypeName, ColumnTypeOK, Forms
    <3> QED
        BY <1>1, <2>2, <3>1 DEF TypeName
  <2> QED
      BY <1>3, <2>1, <2>2
<1>4. ASSUME NEW d \in Definitions, ChooseDefinition(d) PROVE ColumnInv'
  <2>1. form' \in Forms
        BY <1>0, <1>4 DEF ChooseDefinition, ColumnTypeOK, Forms
  <2> QED
      BY <1>1, <1>4, <2>1 DEF ChooseDefinition
\* The requests.
<1>5. CASE handleSubmit
  <2>1. form.name \in ColumnNames /\ form.def \in Definitions /\ form \in Forms
        BY <1>0, <1>5 DEF handleSubmit, ColumnTypeOK, Forms
  <2>2. call'.op \in {"add", "rename", "modify"} /\ call'.form = form
        BY <1>5 DEF handleSubmit
  <2>3. call' \in [op : {"none", "add", "rename", "modify", "drop"}, form : Forms]
        BY <1>5, <2>1 DEF handleSubmit
  <2> QED
      BY <1>0, <1>5, <2>1, <2>2, <2>3 DEF handleSubmit, ColumnTypeOK, CallSent, Exists
<1>6. ASSUME NEW n \in ColumnNames, handleDrop(n) PROVE ColumnInv'
  <2>1. [NoForm EXCEPT !.name = n] \in Forms
        BY DEF NoForm, Forms
  <2> QED
      BY <1>0, <1>6, <2>1 DEF handleDrop, ColumnTypeOK, CallSent, Exists
<1>7. CASE SubmitDone \/ RenameDone \/ DropDone \/ AnswerLost
  <2>1. named' \in ColumnMap /\ OneNameEach'
    <3>1. CASE Added \/ Renamed \/ ColumnDropped
          BY <1>0, <3>1, NamesStep
    <3>2. CASE Modified
          BY <1>0, <3>2 DEF Modified, ColumnTypeOK, ColumnMap, OneNameEach, Exists
    <3> QED
        BY <1>7, <3>1, <3>2 DEF SubmitDone, RenameDone, DropDone, AnswerLost
  <2>2. /\ defined' \in [Ids -> Definitions]
        /\ altered' \in [id : Ids \cup {NoColumn}, for : Ids \cup {NoColumn}, disturbed : BOOLEAN]
    <3>1. CASE Added \/ Modified
          BY <1>0, <3>1, DefinedStep
    <3>2. CASE Renamed \/ ColumnDropped
          BY <1>0, <3>2 DEF Renamed, ColumnDropped, ColumnTypeOK
    <3> QED
        BY <1>7, <3>1, <3>2 DEF SubmitDone, RenameDone, DropDone, AnswerLost
  <2>3. call' = NoCall \/ (call.op = "rename" /\ call' = [call EXCEPT !.op = "modify"])
        BY <1>7 DEF SubmitDone, RenameDone, DropDone, AnswerLost, Renamed
  <2>4. form' \in Forms
        BY <1>0, <1>7, NoFormTyped DEF SubmitDone, RenameDone, DropDone, AnswerLost, ColumnTypeOK
  <2> QED
      BY <1>0, <2>1, <2>2, <2>3, <2>4, CallStep DEF ColumnTypeOK, ColumnMap, OneNameEach
<1>8. CASE CallFails
      BY <1>0, <1>8, CallStep DEF CallFails, ColumnTypeOK, Exists
<1>9. ASSUME NEW n \in ColumnNames, NEW id \in Ids \cup {NoColumn}, Disturb(n, id) PROVE ColumnInv'
  <2>1. /\ named' = [named EXCEPT ![n] = id]
        /\ id = NoColumn \/ \A m \in ColumnNames \ {n} : named[m] # id
        BY <1>9 DEF Disturb
  <2>2. named' \in ColumnMap /\ OneNameEach'
        BY <1>0, <2>1 DEF ColumnTypeOK, ColumnMap, OneNameEach, Exists
  <2>3. form' \in Forms
        BY <1>0, <1>9 DEF Disturb, ColumnTypeOK, Forms
  <2>4. CASE call = NoCall
    <3>1. call' = NoCall
          BY <1>9, <2>4 DEF Disturb
    <3> QED
        BY <1>0, <1>9, <2>2, <2>3, <3>1, CallStep DEF Disturb, ColumnTypeOK, ColumnMap, OneNameEach
  <2>5. CASE call # NoCall
    <3>1. call' = [call EXCEPT !.form.disturbed = TRUE]
          BY <1>9, <2>5 DEF Disturb
    <3>2. /\ call'.op = call.op /\ call'.form.name = call.form.name /\ call'.form.def = call.form.def
          /\ call' \in [op : {"none", "add", "rename", "modify", "drop"}, form : Forms]
          BY <1>0, <3>1 DEF ColumnTypeOK, Forms
    <3> QED
        BY <1>0, <1>9, <2>2, <2>3, <2>5, <3>2 DEF Disturb, ColumnTypeOK, CallSent, ColumnMap, OneNameEach
  <2> QED
      BY <2>4, <2>5
<1>10. CASE UNCHANGED columnVars
       BY <1>0, <1>10 DEF columnVars, ColumnTypeOK, CallSent, Exists
<1> QED
    BY <1>2, <1>3, <1>4, <1>5, <1>6, <1>7, <1>8, <1>9, <1>10 DEF ColumnNext

\* Every reachable state of structure-view.tsx is well typed, and no column
\* has two names.
THEOREM ColumnTyped == ColumnSpec => []ColumnTypeOK
<1> QED
    BY ColumnInitTyped, ColumnStepTyped, PTL DEF ColumnSpec, ColumnInv

---------------------------------------------------------------------------
(* The column a modify hits.                                               *)
(*                                                                         *)
(* A name the dialog or the request remembers is still that of its column, *)
(* or of no column: a rename that was done and reported as failed, or was  *)
(* followed by a modify that failed, leaves the old name free, and nothing *)
(* but others can give it to another column while the dialog is open. For  *)
(* that, the request under way must not be one that will: it was sent from *)
(* an earlier dialog, when the name was taken, or from this one.           *)

GoesBy(n, id) == n \in ColumnNames /\ id # NoColumn /\ named[n] \in {id, NoColumn}

FormTracked ==
  /\ form.mode = "closed" => form = NoForm
  /\ form.mode = "edit" /\ ~form.disturbed => GoesBy(form.originalName, form.id)

CallTracked ==
  /\ call.op = "rename" /\ ~call.form.disturbed => GoesBy(call.form.originalName, call.form.id)
  /\ call.op = "modify" /\ ~call.form.disturbed => GoesBy(call.form.name, call.form.id)

NotRefilled ==
  form.mode = "edit" /\ ~form.disturbed =>
    /\ call.op = "add" => named[form.originalName] = form.id
    /\ call.op = "rename" => \/ named[form.originalName] = form.id
                             \/ call.form.originalName = form.originalName

Tracked == FormTracked /\ CallTracked /\ NotRefilled

\* What the server does leaves a remembered name to its column or to none.
LEMMA EffectOnName ==
  ASSUME ColumnInv, Tracked, Added \/ Renamed \/ Modified \/ ColumnDropped,
         form.mode = "edit", ~form.disturbed
  PROVE  named'[form.originalName] \in {form.id, NoColumn}
<1> DEFINE o == form.originalName
<1> USE NoColumnIsNone DEF ColumnMap
<1>0. /\ named \in ColumnMap /\ call.form \in Forms
      /\ o \in ColumnNames /\ form.id # NoColumn /\ named[o] \in {form.id, NoColumn}
      BY DEF ColumnInv, ColumnTypeOK, Tracked, FormTracked, GoesBy
<1>1. CASE Added
  <2>1. call.op = "add" /\ call.form.name # o
    <3>1. call.op = "add" /\ ~Exists(call.form.name)
          BY <1>1 DEF Added
    <3>2. named[o] = form.id
          BY <3>1 DEF Tracked, NotRefilled
    <3> QED
        BY <1>0, <3>1, <3>2 DEF Exists
  <2>2. PICK id \in Ids : named' = [named EXCEPT ![call.form.name] = id]
        BY <1>1 DEF Added
  <2> QED
      BY <1>0, <2>1, <2>2
<1>2. CASE Renamed
  <2>1. /\ call.op = "rename" /\ Exists(call.form.originalName) /\ ~Exists(call.form.name)
        /\ named' = [named EXCEPT ![call.form.originalName] = NoColumn,
                                  ![call.form.name] = named[call.form.originalName]]
        BY <1>2 DEF Renamed
  <2>2. named[o] = form.id \/ call.form.originalName = o
        BY <2>1 DEF Tracked, NotRefilled
  <2>3. call.form.name # o
        BY <1>0, <2>1, <2>2 DEF Exists
  <2> QED
      BY <1>0, <2>1, <2>3 DEF Exists
<1>3. CASE Modified
      BY <1>0, <1>3 DEF Modified
<1>4. CASE ColumnDropped
      BY <1>0, <1>4 DEF ColumnDropped
<1> QED
    BY <1>1, <1>2, <1>3, <1>4

LEMMA DialogTrackedStep == ColumnInv /\ Tracked /\ [ColumnNext]_columnVars => Tracked'
<1> SUFFICES ASSUME ColumnInv, Tracked, [ColumnNext]_columnVars PROVE Tracked'
    OBVIOUS
<1>0. /\ named \in ColumnMap /\ form \in Forms /\ call.form \in Forms
      /\ call \in [op : {"none", "add", "rename", "modify", "drop"}, form : Forms]
      BY DEF ColumnInv, ColumnTypeOK, ColumnMap
<1>1. NoForm.mode = "closed" /\ NoCall.op = "none"
      BY DEF NoForm, NoCall
\* The dialog is opened, filled in and closed.
<1>2. CASE openAdd \/ CloseColumnDialog
  <2>1. form'.mode # "edit" /\ (form'.mode = "closed" => form' = NoForm)
        BY <1>1, <1>2 DEF openAdd, CloseColumnDialog, NoForm
  <2> QED
      BY <1>2, <2>1 DEF openAdd, CloseColumnDialog, Tracked, FormTracked, CallTracked, NotRefilled, GoesBy
<1>3. ASSUME NEW n \in ColumnNames, openEdit(n) PROVE Tracked'
  <2>1. form'.mode = "edit" /\ form'.originalName = n /\ form'.id = named[n] /\ named[n] # NoColumn
        BY <1>3 DEF openEdit, Exists
  <2> QED
      BY <1>3, <2>1 DEF openEdit, Tracked, FormTracked, CallTracked, NotRefilled, GoesBy
<1>4. CASE (\E n \in ColumnNames : TypeName(n)) \/ (\E d \in Definitions : ChooseDefinition(d))
  <2>1. /\ form # NoForm
        /\ form'.mode = form.mode /\ form'.originalName = form.originalName /\ form'.id = form.id
        /\ form'.disturbed = form.disturbed
        BY <1>0, <1>4 DEF TypeName, ChooseDefinition, Forms
  <2> QED
      BY <1>4, <2>1 DEF TypeName, ChooseDefinition, Tracked, FormTracked, CallTracked, NotRefilled, GoesBy
\* A request is sent.
<1>5. CASE handleSubmit
  <2>1. /\ call'.form = form /\ form' = form /\ named' = named
        /\ call'.op = IF form.mode = "add" THEN "add"
                      ELSE IF form.name # form.originalName THEN "rename" ELSE "modify"
        BY <1>5 DEF handleSubmit
  <2>2. form.mode \in {"add", "edit"}
        BY <1>0, <1>5 DEF handleSubmit, Tracked, FormTracked, Forms
  <2> QED
      BY <2>1, <2>2 DEF Tracked, FormTracked, CallTracked, NotRefilled, GoesBy
<1>6. ASSUME NEW n \in ColumnNames, handleDrop(n) PROVE Tracked'
  <2>1. call'.op = "drop" /\ form' = form /\ named' = named
        BY <1>6 DEF handleDrop
  <2> QED
      BY <2>1 DEF Tracked, FormTracked, CallTracked, NotRefilled, GoesBy
\* A request is done, and answered or not.
<1>7. CASE SubmitDone \/ RenameDone \/ DropDone \/ AnswerLost
  <2>1. Added \/ Renamed \/ Modified \/ ColumnDropped
        BY <1>7 DEF SubmitDone, RenameDone, DropDone, AnswerLost
  <2>2. form' = form \/ form' = NoForm
        BY <1>7 DEF SubmitDone, RenameDone, DropDone, AnswerLost
  <2>3. FormTracked'
    <3>1. CASE form' = form
      <4>1. ASSUME form.mode = "edit", ~form.disturbed
            PROVE  named'[form.originalName] \in {form.id, NoColumn}
            BY <2>1, <4>1, EffectOnName
      <4> QED
          BY <3>1, <4>1 DEF Tracked, FormTracked, GoesBy
    <3>2. CASE form' = NoForm
          BY <1>1, <3>2 DEF FormTracked
    <3> QED
        BY <2>2, <3>1, <3>2
  <2>4. CASE RenameDone
    <3>1. /\ call.op = "rename" /\ Exists(call.form.originalName)
          /\ named' = [named EXCEPT ![call.form.originalName] = NoColumn,
                                    ![call.form.name] = named[call.form.originalName]]
          /\ call' = [call EXCEPT !.op = "modify"]
          BY <2>4 DEF RenameDone, Renamed
    <3>2. call'.op = "modify" /\ call'.form = call.form
          BY <1>0, <3>1
    <3>3. call.form.name \in ColumnNames /\ call.form.originalName \in ColumnNames
          BY <1>0, <3>1 DEF ColumnInv, CallSent, Exists, Forms
    <3>4. named'[call.form.name] = named[call.form.originalName]
          BY <1>0, <3>1, <3>3 DEF ColumnMap
    <3>5. CallTracked'
          BY <3>1, <3>2, <3>3, <3>4 DEF Tracked, CallTracked, GoesBy
    <3>6. NotRefilled'
          BY <3>2 DEF NotRefilled
    <3> QED
        BY <2>3, <3>5, <3>6 DEF Tracked
  <2>5. CASE call' = NoCall
        BY <1>1, <2>3, <2>5 DEF Tracked, CallTracked, NotRefilled
  <2> QED
      BY <1>7, <2>4, <2>5 DEF SubmitDone, DropDone, AnswerLost
<1>8. CASE CallFails
      BY <1>1, <1>8 DEF CallFails, Tracked, FormTracked, CallTracked, NotRefilled, GoesBy
\* Others change the columns: forms and requests are marked.
<1>9. ASSUME NEW n \in ColumnNames, NEW id \in Ids \cup {NoColumn}, Disturb(n, id) PROVE Tracked'
  <2>1. \/ form' = NoForm
        \/ form'.disturbed /\ form'.mode = form.mode /\ form # NoForm
        BY <1>0, <1>9 DEF Disturb, Forms
  <2>2. call'.op = "none" \/ call'.form.disturbed
        BY <1>0, <1>1, <1>9 DEF Disturb, Forms
  <2> QED
      BY <1>1, <2>1, <2>2 DEF Tracked, FormTracked, CallTracked, NotRefilled
<1>10. CASE UNCHANGED columnVars
       BY <1>10 DEF columnVars, Tracked, FormTracked, CallTracked, NotRefilled, GoesBy
<1> QED
    BY <1>2, <1>3, <1>4, <1>5, <1>6, <1>7, <1>8, <1>9, <1>10 DEF ColumnNext

LEMMA TouchesStep ==
  Tracked /\ TouchesOnlyItsColumn /\ [ColumnNext]_columnVars => TouchesOnlyItsColumn'
<1> SUFFICES ASSUME Tracked, TouchesOnlyItsColumn, [ColumnNext]_columnVars PROVE TouchesOnlyItsColumn'
    OBVIOUS
<1>1. CASE Modified
  <2>1. /\ call.op = "modify" /\ named[call.form.name] # NoColumn
        /\ altered' = [id |-> named[call.form.name], for |-> call.form.id, disturbed |-> call.form.disturbed]
        BY <1>1 DEF Modified, Exists
  <2>2. ~call.form.disturbed => named[call.form.name] = call.form.id
        BY <2>1 DEF Tracked, CallTracked, GoesBy
  <2> QED
      BY <2>1, <2>2 DEF TouchesOnlyItsColumn
<1>2. CASE altered' = altered
      BY <1>2 DEF TouchesOnlyItsColumn
<1>3. Modified \/ altered' = altered
      BY DEF ColumnNext, columnVars, openAdd, CloseColumnDialog, openEdit, TypeName, ChooseDefinition,
             handleSubmit, handleDrop, SubmitDone, RenameDone, DropDone, AnswerLost, Added, Renamed,
             ColumnDropped, CallFails, Disturb
<1> QED
    BY <1>1, <1>2, <1>3

\* A modify changes the column the dialog was opened on, over all attempts to
\* save it, unless others changed the columns while the dialog was open.
THEOREM ColumnTouchesOnlyItsColumn == ColumnSpec => []TouchesOnlyItsColumn
<1>1. ColumnInit => Tracked /\ TouchesOnlyItsColumn
      BY DEF ColumnInit, NoForm, NoCall, Tracked, FormTracked, CallTracked, NotRefilled, TouchesOnlyItsColumn
<1> QED
    BY <1>1, ColumnInitTyped, ColumnStepTyped, DialogTrackedStep, TouchesStep, PTL DEF ColumnSpec


---------------------------------------------------------------------------
(* QueryEditor: what the stored list holds, for any number of editors and  *)
(* statements and any MAX_HISTORY.                                         *)

LEMMA TruncatedKeeps ==
  ASSUME NEW list \in Seq(Statements)
  PROVE  /\ Truncated(list) \in Seq(Statements) /\ Len(Truncated(list)) <= MaxHistory
         /\ ToSet(Truncated(list)) \subseteq ToSet(list)
         /\ Len(list) <= MaxHistory => Truncated(list) = list
<1> DEFINE n == IF Len(list) < MaxHistory THEN Len(list) ELSE MaxHistory
<1>0. MaxHistory \in Nat
  BY HistoryAssumption
<1>a. Len(list) \in Nat /\ list \in [1..Len(list) -> Statements] /\ DOMAIN list = 1..Len(list)
  BY LenProperties
<1>1. n \in Int /\ 0 <= n /\ n <= Len(list) /\ n <= MaxHistory /\ (Len(list) <= MaxHistory => n = Len(list))
  <2>1. Len(list) \in Nat
    BY <1>a
  <2>2. CASE Len(list) < MaxHistory
    BY <1>0, <2>1, <2>2
  <2>3. CASE ~(Len(list) < MaxHistory)
    BY <1>0, <2>1, <2>3
  <2> QED BY <2>2, <2>3
<1>2. Truncated(list) = SubSeq(list, 1, n)
  BY DEF Truncated
<1> HIDE DEF n
<1>3. \A i \in 1..n : list[i] \in Statements /\ i \in DOMAIN list
  <2>0. Len(list) \in Nat
    BY <1>a
  <2>1. \A i \in 1..n : i \in 1..Len(list)
    BY <1>1, <2>0
  <2> QED BY <1>a, <2>1
<1>4. /\ SubSeq(list, 1, n) \in Seq(Statements)
      /\ Len(SubSeq(list, 1, n)) = IF 1 <= n THEN n - 1 + 1 ELSE 0
      /\ \A i \in 1..(n - 1 + 1) : SubSeq(list, 1, n)[i] = list[1 + i - 1]
  BY <1>1, <1>3, SubSeqProperties
<1>5. Len(SubSeq(list, 1, n)) = n
  BY <1>1, <1>4
<1>6. DOMAIN SubSeq(list, 1, n) = 1..n
  BY <1>4, <1>5, LenProperties
<1>7. \A i \in 1..n : SubSeq(list, 1, n)[i] = list[i]
  BY <1>1, <1>4
<1>8. ToSet(SubSeq(list, 1, n)) \subseteq ToSet(list)
  BY <1>3, <1>6, <1>7 DEF ToSet
<1>9. Len(list) <= MaxHistory => SubSeq(list, 1, n) = list
  BY <1>1, SubSeqFull
<1> QED BY <1>1, <1>2, <1>4, <1>5, <1>8, <1>9

LEMMA EnteredHolds ==
  ASSUME EditorTypeOK, NEW e \in Editors, NEW s \in Statements
  PROVE  /\ Entered(e, s) \in Seq(Statements)
         /\ ToSet(Entered(e, s)) = {s} \cup ToSet(history[e])
<1>1. history[e] \in Seq(Statements) /\ <<s>> \in Seq(Statements)
  BY DEF EditorTypeOK
<1>2. <<s>> \o history[e] \in Seq(Statements)
  BY <1>1, ConcatProperties
<1>3. Range(<<s>> \o history[e]) = Range(<<s>>) \cup Range(history[e])
  BY <1>1, RangeConcatenation
<1>4. \A f : ToSet(f) = Range(f)
  BY DEF ToSet, Range
<1>5. ToSet(<<s>>) = {s}
  BY DEF ToSet
<1> QED BY <1>2, <1>3, <1>4, <1>5 DEF Entered

\* Storing a list keeps both lists typed and short.
LEMMA StoreTyped ==
  ASSUME EditorTypeOK, NEW e \in Editors, NEW list \in Seq(Statements), Store(e, list)
  PROVE  /\ stored' \in Seq(Statements) /\ Len(stored') <= MaxHistory
         /\ history' \in [Editors -> Seq(Statements)] /\ history'[e] = list
BY TruncatedKeeps DEF Store, EditorTypeOK

LEMMA EditorStepTyped ==
  ASSUME EditorTypeOK, [EditorNext]_queryVars
  PROVE  EditorTypeOK'
<1>0. MaxStatements \in Nat /\ <<>> \in Seq(Statements) /\ MaxHistory \in Nat
  BY HistoryAssumption
<1>1. ASSUME NEW e \in Editors, OpenEditor(e) PROVE EditorTypeOK'
  <2>1. stored \in Seq(Statements)
    BY DEF EditorTypeOK
  <2> QED BY <1>1, <2>1, StoreTyped DEF OpenEditor, EditorTypeOK
<1>2. ASSUME NEW e \in Editors, LeaveEditor(e) PROVE EditorTypeOK'
  BY <1>0, <1>2 DEF LeaveEditor, EditorTypeOK
<1>3. ASSUME NEW e \in Editors, handleExecute(e) PROVE EditorTypeOK'
  BY <1>0, <1>3 DEF handleExecute, EditorTypeOK, Statements
<1>4. ASSUME NEW e \in Editors, clearHistory(e) PROVE EditorTypeOK'
  <2>1. gone' \in [Statements -> SUBSET Reasons]
    BY <1>4 DEF clearHistory, GoneBecause, Reasons, EditorTypeOK
  <2> QED BY <1>0, <1>4, <2>1, StoreTyped DEF clearHistory, EditorTypeOK
<1>5. ASSUME NEW s \in Statements, StatementAnswered(s) PROVE EditorTypeOK'
  <2> DEFINE e == running[s]
  <2>1. e \in Editors /\ running' \in [Statements -> Editors \cup {NoEditor}]
    BY <1>5 DEF StatementAnswered, EditorTypeOK
  <2>a. \A t \in Statements : gone[t] \subseteq Reasons
    BY DEF EditorTypeOK
  <2>b. /\ gone' = [t \in Statements |-> gone'[t]]
        /\ \A t \in Statements : gone'[t] \subseteq gone[t] \cup {"overwritten", "too many", "callback lost"}
    <3>1. CASE latest[e] = s
      <4> DEFINE over == ToSet(stored) \ ToSet(history[e])
                 many == ToSet(history'[e]) \ ToSet(stored')
      <4>1. gone' = [t \in Statements |-> gone[t] \cup (IF t \in over THEN {"overwritten"} ELSE {})
                                                \cup (IF t \in many THEN {"too many"} ELSE {})]
        BY <1>5, <3>1 DEF StatementAnswered
      <4> HIDE DEF over, many
      <4> QED BY <4>1
    <3>2. CASE latest[e] # s
      <4>1. gone' = [t \in Statements |-> gone[t] \cup (IF t \in {s} THEN {"callback lost"} ELSE {})]
        BY <1>5, <3>2 DEF StatementAnswered, GoneBecause
      <4> QED BY <4>1
    <3> QED BY <3>1, <3>2
  <2>2. gone' \in [Statements -> SUBSET Reasons]
    BY <2>a, <2>b DEF Reasons
  <2>3. CASE latest[e] = s
    <3>1. Store(e, Entered(e, s)) /\ UNCHANGED <<visible, latest, sent>>
      BY <1>5, <2>3 DEF StatementAnswered
    <3> HIDE DEF e
    <3> QED BY <2>1, <2>2, <3>1, EnteredHolds, StoreTyped DEF EditorTypeOK
  <2>4. CASE latest[e] # s
    <3>1. UNCHANGED <<stored, history, visible, latest, sent>>
      BY <1>5, <2>4 DEF StatementAnswered
    <3> QED BY <2>1, <2>2, <3>1 DEF EditorTypeOK
  <2> QED BY <2>3, <2>4
<1>6. CASE UNCHANGED queryVars
  BY <1>6 DEF queryVars, EditorTypeOK
<1> QED BY <1>1, <1>2, <1>3, <1>4, <1>5, <1>6 DEF EditorNext

\* The lists hold statements, the stored one never more than MAX_HISTORY of them.
THEOREM EditorTyped == EditorSpec => []EditorTypeOK
<1>1. EditorInit => EditorTypeOK
  BY HistoryAssumption DEF EditorInit, EditorTypeOK
<1> QED BY <1>1, EditorStepTyped, PTL DEF EditorSpec

\* An answered statement that is not in the stored list has a reason: no
\* interleaving of the editors of any number of tabs loses an entry otherwise.
THEOREM EditorHistoryExplained == EditorSpec => []HistoryExplained
<1>1. EditorInit => HistoryExplained
  BY DEF EditorInit, HistoryExplained
<1>2. EditorTypeOK /\ HistoryExplained /\ [EditorNext]_queryVars => HistoryExplained'
  <2> SUFFICES ASSUME EditorTypeOK, HistoryExplained, [EditorNext]_queryVars,
                      NEW t \in 1..sent', running'[t] = NoEditor, t \notin ToSet(stored')
               PROVE  gone'[t] # {}
    BY DEF HistoryExplained
  <2>0. sent \in 0..MaxStatements /\ sent' \in 0..MaxStatements /\ MaxStatements \in Nat /\ t \in Statements
    BY EditorStepTyped, HistoryAssumption DEF EditorTypeOK, Statements
  <2>1. ASSUME t \in 1..sent, running[t] = NoEditor, t \notin ToSet(stored) PROVE gone[t] # {}
    BY <2>1 DEF HistoryExplained
  <2>2. ASSUME NEW e \in Editors, OpenEditor(e) PROVE gone'[t] # {}
    <3>1. stored' = Truncated(stored) /\ UNCHANGED <<running, sent, gone>>
      BY <2>2 DEF OpenEditor, Store
    <3>2. stored' = stored
      BY <3>1, TruncatedKeeps DEF EditorTypeOK
    <3> QED BY <2>1, <3>1, <3>2
  <2>3. ASSUME NEW e \in Editors, LeaveEditor(e) PROVE gone'[t] # {}
    BY <2>1, <2>3 DEF LeaveEditor
  <2>4. ASSUME NEW e \in Editors, handleExecute(e) PROVE gone'[t] # {}
    <3>1. sent' = sent + 1 /\ sent + 1 \in Statements /\ UNCHANGED <<stored, gone>>
      BY <2>0, <2>4 DEF handleExecute, Statements
    <3>2. running'[sent + 1] = e /\ \A s \in Statements \ {sent + 1} : running'[s] = running[s]
      BY <2>4, <3>1 DEF handleExecute, EditorTypeOK
    <3>3. t # sent + 1
      BY <3>2, HistoryAssumption
    <3>4. t \in 1..sent
      BY <2>0, <3>1, <3>3
    <3> QED BY <2>0, <2>1, <3>1, <3>2, <3>3, <3>4
  <2>5. ASSUME NEW e \in Editors, clearHistory(e) PROVE gone'[t] # {}
    <3>1. /\ gone'[t] = gone[t] \cup (IF t \in ToSet(stored) THEN {"cleared"} ELSE {})
          /\ UNCHANGED <<running, sent>>
      BY <2>0, <2>5 DEF clearHistory, GoneBecause
    <3> QED BY <2>1, <3>1
  <2>6. ASSUME NEW s \in Statements, StatementAnswered(s) PROVE gone'[t] # {}
    <3> DEFINE e == running[s]
    <3>1. /\ e \in Editors /\ sent' = sent
          /\ \A r \in Statements \ {s} : running'[r] = running[r]
      BY <2>6 DEF StatementAnswered, EditorTypeOK
    <3>2. CASE latest[e] # s
      <4>1. gone'[t] = gone[t] \cup (IF t \in {s} THEN {"callback lost"} ELSE {}) /\ stored' = stored
        BY <2>0, <2>6, <3>2 DEF StatementAnswered, GoneBecause
      <4> QED BY <2>0, <2>1, <3>1, <4>1
    <3>3. CASE latest[e] = s
      <4>1. gone'[t] = gone[t] \cup (IF t \in ToSet(stored) \ ToSet(history[e]) THEN {"overwritten"} ELSE {})
                               \cup (IF t \in ToSet(history'[e]) \ ToSet(stored') THEN {"too many"} ELSE {})
        BY <2>0, <2>6, <3>3 DEF StatementAnswered
      <4>2. ToSet(history'[e]) = {s} \cup ToSet(history[e])
        <5>1. Store(e, Entered(e, s))
          BY <2>6, <3>3 DEF StatementAnswered
        <5>2. history'[e] = Entered(e, s)
          BY <3>1, <5>1, EnteredHolds, StoreTyped
        <5> QED BY <3>1, <5>2, EnteredHolds
      <4> HIDE DEF e
      <4>3. CASE t \in ToSet(history'[e])
        BY <4>1, <4>3
      <4>4. CASE t \notin ToSet(history'[e])
        <5>1. t # s /\ t \notin ToSet(history[e])
          BY <4>2, <4>4
        <5>2. CASE t \in ToSet(stored)
          BY <4>1, <5>1, <5>2
        <5>3. CASE t \notin ToSet(stored)
          BY <2>0, <2>1, <3>1, <4>1, <5>1, <5>3
        <5> QED BY <5>2, <5>3
      <4> QED BY <4>3, <4>4
    <3> QED BY <3>2, <3>3
  <2>7. CASE UNCHANGED queryVars
    BY <2>1, <2>7 DEF queryVars
  <2> QED BY <2>2, <2>3, <2>4, <2>5, <2>6, <2>7 DEF EditorNext
<1> QED BY EditorTyped, <1>1, <1>2, PTL DEF EditorSpec

=============================================================================
