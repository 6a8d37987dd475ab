\* An analyst or a viewer, any two events from elsewhere, roles and renders among them, two pieces of text of
\* which one is too long; a limit of two requests per three ticks, decided within one tick; two items, one
\* without a unit, three requests of the page, two at once.
SPECIFICATION MCSpec
CONSTANTS
  p1 = p1
  first = first
  second = second
  none = none
  None = none
  Processes <- MCProcesses
  Redis = Redis
  Pieces <- MCPieces
  Overlong <- MCOverlong
  Theirs = theirs
  MaxEvents = 2
  Limit = 2
  Span = 3
  Patience = 1
  MaxClock = 4
  MaxRequests = 5
  i1 = i1
  i2 = i2
  r1 = r1
  r2 = r2
  Nil = Nil
  Sent = Sent
  Items = {i1, i2}
  Ambiguous = {i2}
  Filters = {"pending", "confirmed"}
  Slots <- MCSlots
  MaxReads = 1
  MaxClicks = 3
  MaxMoves = 1
SYMMETRY Symmetry
INVARIANTS
  TypedIsKept
  AttemptsBounded
  TwiceOnlyBesideOthers
PROPERTIES
  AwayOnlyWithCause
  RefusedOnlyWhenStale
  BookedIsRejectedUnseen
CHECK_DEADLOCK FALSE
