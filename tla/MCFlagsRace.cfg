\* Refreshes of two companies, run inline and by the worker at the same time.
SPECIFICATION FairSpec
CONSTANTS
  c1 = c1
  c2 = c2
  short = short
  j1 = j1
  j2 = j2
  j3 = j3
  Nobody = Nobody
  Companies = {c1, c2}
  FlagKeys = {short}
  First = {short}
  Jobs = {j1, j2}
  Ops = {"inline", "confirm", "auto_confirm", "unmute", "fail"}
  MaxTime = 0
PROPERTY
  RefreshesEnd
CHECK_DEADLOCK FALSE
