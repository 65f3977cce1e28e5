\* Three edits of four products, two of them on sale since the same instant, and
\* a browse with pages of one or two.
SPECIFICATION Spec
CONSTANTS
  c1 = c1
  c2 = c2
  c3 = c3
  None = None
  Calls = {c1, c2, c3}
  Products = {1, 2, 3, 4}
  SKUs = {"A-1", "B-2", "C-3", "D-4"}
  Categories = {"tea", "mugs"}
  Currencies = {"EUR", "USD"}
  Canonical <- MCCanonical
  EditsOf <- MCEditsOf
  StoredRows <- MCRows
  StoredVariants <- MCVariants
  AskedSizes = {0, 5}
  AskedStatuses = {None, "draft"}
  DefaultPageSize = 1
  MaxPageSize = 2
  MaxClock = 2
INVARIANTS ProductsAreSound BrowseIsTrue
PROPERTIES EditsAreSerial
CHECK_DEADLOCK FALSE
