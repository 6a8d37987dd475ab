\* Three requests, refreshes run by the worker only, beside mutes and snoozes.
SPECIFICATION FairSpec
CONSTANTS
  c1 = c1
  c2 = c2
  short = short
  j1 = j1
  j2 = j2
  j3 = j3
  Nobody = Nobody
  Companies = {c1}
  FlagKeys = {short}
  First = {short}
  Jobs = {j1, j2, j3}
  Ops = {"confirm", "snooze", "mute", "fail"}
  MaxTime = 1
INVARIANTS
  ShownOnce
PROPERTIES
  HeldRowsStay
  NoAlertLost
  FlagsCatchUp
CHECK_DEADLOCK FALSE
