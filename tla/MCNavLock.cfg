\* Two marks, an edit and two locks of two dates, one of them unlocked.
SPECIFICATION Spec
CONSTANTS
  p1 = p1
  p2 = p2
  m1 = m1
  m2 = m2
  e1 = e1
  l1 = l1
  l2 = l2
  u1 = u1
  u2 = u2
  Absent = Absent
  Positions = {p1, p2}
  MarkDates = {1, 2}
  LockDates = {1, 2}
  Costs = {10, 20}
  FirstCost = 10
  Markers = {m1, m2}
  Editors = {e1}
  Lockers = {l1, l2}
  Unlockers = {u1}
SYMMETRY RequestSymmetry
INVARIANTS
  PackIsOfItsDate
PROPERTIES
  KeepsRecord
CHECK_DEADLOCK FALSE
