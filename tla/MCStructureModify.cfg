SPECIFICATION ColumnSpec
CONSTANTS
  ColumnNames = {a, b}
  Ids = {1, 2}
  Definitions = {int, text}
  NoColumn = NoColumn
INVARIANTS ModifyOnlyWhenChanged
CHECK_DEADLOCK FALSE
