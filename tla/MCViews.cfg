SPECIFICATION ViewsSpec
CONSTANTS
  Rows = {r1, r2, r3}
  Positions = {1, 2}
  NoRow = NoRow
  Dbs = {d1, d2}
  Names = {t1, t2}
  NoDb = NoDb
  ColumnNames = {a, b}
  Ids = {1, 2}
  Definitions = {int}
  NoColumn = NoColumn
  Collections = {c1, c2}
  Filters = {nofilter, filtered}
  NoFilter = nofilter
  NoCollection = NoCollection
  MaxPages = 2
  Editors = {1, 2}
  MaxHistory = 2
  MaxStatements = 3
  NoEditor = 0
  Services = {mysql, mongo}
  MaxRequests = 2
  Nobody = Nobody
INVARIANTS
  WriteHitsItsRow
  DropsOnlyTicked
  TouchesOnlyItsColumn
  PageExists
  PanelOfCollection
  HistoryExplained
  NoDoubleJob
CHECK_DEADLOCK FALSE
