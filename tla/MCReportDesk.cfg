\* One inbox item, two requests, one report, two periods.
SPECIFICATION Spec
CONSTANTS
  mis = mis
  call = call
  i1 = i1
  q1 = q1
  q2 = q2
  a = a
  Null = Null
  Documents = {mis, call}
  DocumentKind <- Kind
  Granola = {call}
  Items = {i1}
  Requests = {q1, q2}
  Periods = {1, 2}
  MaxNotes = 2
  Reports = {a}
  Kinds = {"one_pager", "monthly_pack"}
SYMMETRY Symmetry
INVARIANTS
  ColumnsHoldTheirLane
  EditsLostOnlyByOverlap
CHECK_DEADLOCK FALSE
