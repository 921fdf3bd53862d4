\* Five rows, two sort values, pages of two, newest first.
CONSTANTS
  Ids = {1, 2, 3, 4, 5}
  Values = {1, 2}
  Nullable = FALSE
  Descending = TRUE
  PerPage = 2
  MaxInserts = 2
  MaxMoved = 2
  Null = null
  NotYet = notyet
  Gone = gone
SPECIFICATION Spec
CHECK_DEADLOCK FALSE
INVARIANT TypeOK
INVARIANT SeenOnce
INVARIANT NothingSkipped
