SPECIFICATION BrowserSpec
CONSTANTS
  MaxMenu = 2
  MaxFlights = 2
  MaxItems = 2
  Tabs = {t1, t2}
  NoTab = NoTab
  MaxToken = 2
  MaxCalls = 2
INVARIANTS QuietIsFresh NoDoubleSubmission SavedDialogCloses NoReuseAlone LogoutHolds
SYMMETRY TabSymmetry
CHECK_DEADLOCK FALSE
