\* One request at a time, two reports, a month of two days and the first day of the next.
SPECIFICATION FairSpec
CONSTANTS
  q1 = q1
  a = a
  b = b
  Null = Null
  Requests = {q1}
  Reports = {a, b}
  MaxDay = 4
  PackDays = {1, 2}
  Ops = {"timeout", "crash", "fail", "late"}
INVARIANTS
  OnePackAMonth
PROPERTIES
  QueuedEnds
  NoPackForgotten
CHECK_DEADLOCK FALSE
