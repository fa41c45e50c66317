CONSTANTS
  Orders = {1}
  Procs = {p1}
  NoProc = none
  BatchSize = 1
  MaxCrashes = 0
  MaxLate = 0
  UndecidedCodes = {429, 503}
  RejectionCodes = {401, 402}
  StrictDecoding = TRUE
  Focus = 1
SPECIFICATION Spec
INVARIANTS
  PendingMeansUnfinished
