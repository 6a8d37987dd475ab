\* Three months, two mark dates, at most four rows.
SPECIFICATION NumbersSpec
CONSTANTS
  p1 = p1
  p2 = p2
  Null = Null
  Periods <- Ends
  ValuesOf <- Figured
  Lanes <- LanesOf
  Spans <- SpansOf
  Positions = {p1, p2}
  Cost <- Costs
  Created = 60
  MarkDates = {31, 90}
  MarkBodies <- Marked
  Policies <- Overrides
  Days = {90, 140}
  MaxEntries = 4
SYMMETRY Symmetry
INVARIANTS
  PagesTellOneStory
  FlagsHaveEvidence
  BridgeIsTheDifference
