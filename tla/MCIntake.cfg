\* Two syncs by the worker and one by the API, a test or a callback, saves and disconnects, everything may fail.
\* Two rows under one header row, one reply of the model, one correction.
SPECIFICATION MCSpec
CONSTANTS
  f1 = f1
  f2 = f2
  good = good
  bad = bad
  s1 = s1
  s2 = s2
  s3 = s3
  t1 = t1
  None = None
  Artifacts = {f1}
  Creds = {good, bad}
  Good = {good}
  Env = None
  Syncs = {s1, s2, s3}
  Inline = {s3}
  Checks = {t1}
  Ops = {"vendor", "parse", "crash"}
  Null = Null
  NoPeriod = NoPeriod
  Dash = Dash
  Labels <- TheLabels
  Heads <- TheHeads
  CellTexts = {14, Dash}
  Columns = 2
  Catalog <- TheCatalog
  Books <- TheBooks
  Length <- Lengths
  PartsOf <- Digits
  Replies <- TheReplies
  Patches = {7}
  Thresholds = {50}
  FyStart = 4
  NoMonth = NoMonth
  BookMonths <- TwoYears
  MaxRows = 2
  ReadRows = 80
  LastColumn = 16384
  Nothing = Nothing
  Gone = Gone
  Unset = Unset
  c1 = c1
  c2 = c2
  x1 = x1
  x2 = x2
  q1 = q1
  q2 = q2
  e1 = e1
  old = old
  new = new
  Companies = {c1, c2}
  Positions = {q1, q2}
  CompanyOf <- Owners
  Places = {x1, x2}
  Files = {1, 2, 3}
  Supported = {1, 3}
  PageSize = 2
  Shares = {10, 20}
  Texts = {old, new}
  Editors = {e1}
  MaxSyncs = 2
  MaxMoves = 1
SYMMETRY SyncSymmetry
INVARIANTS
  RowIsHonest
  IngestedOnce
  GuessesAreReviewed
  CitesItsCell
  CalendarAgrees
  SyncBringsAll
  RowsLostOnlyByOverlap
PROPERTIES
  NoPullForgotten
CHECK_DEADLOCK FALSE
