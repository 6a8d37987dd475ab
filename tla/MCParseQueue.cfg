\* Two uploads and everything that may go wrong; MaxRuns is never reached.
SPECIFICATION FairSpec
CONSTANTS
  good = good
  bad = bad
  Nobody = Nobody
  Docs = {good, bad}
  Unreadable = {bad}
  MaxRuns = 8
  Ops = {"timeout", "crash", "fail", "reparse"}
PROPERTIES
  NoUploadForgotten
  EveryUploadEnds
CHECK_DEADLOCK FALSE
