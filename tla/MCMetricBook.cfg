\* Two parse jobs and two reviewers on two keys, auto-confirm at 90%; three facts and two
\* chunks of which two are known, three questions, an answer and threads of four turns.
SPECIFICATION MCSpec
CONSTANTS
  k1 = k1
  k2 = k2
  d1 = d1
  d2 = d2
  j1 = j1
  j2 = j2
  r1 = r1
  r2 = r2
  crore = crore
  unknown = unknown
  Absent = Absent
  UnknownUnit = unknown
  Keys = {k1, k2}
  Values = {1, 2, 3}
  Units = {crore, unknown}
  Docs = {d1, d2}
  Filed = {d1, d2}
  Extract <- MCExtract
  MaxProposals = 2
  MinConfidence = 90
  Jobs = {j1, j2}
  Reviewers = {r1, r2}
  Patches <- MCPatches
  Null = Null
  Firms = {"acme", "beta"}
  Facts <- TheFacts
  Chunks <- TheChunks
  Questions <- TheQuestions
  Completions = {{12, 2026}}
  HitLimit = 2
  MaxKnown = 2
  MaxAsked = 2
  MaxTurns = 4
SYMMETRY JobSymmetry
INVARIANTS
  VersionChain
  ConfirmedIsBooked
  LedgerReapplied
  CorrectionIsBooked
  AnswersAreSourced
PROPERTIES
  KeepsPromise
CHECK_DEADLOCK FALSE
