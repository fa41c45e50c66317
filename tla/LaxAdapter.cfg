CONSTANTS
  Orders = {1}
  Procs = {p1}
  NoProc = none
  BatchSize = 1
  MaxCrashes = 0
  MaxLate = 1
  UndecidedCodes = {429, 503}
  RejectionCodes = {401, 402}
  StrictDecoding = FALSE
  Focus = 1
SPECIFICATION Spec
INVARIANTS
  FailedMeansNotCharged
  FailureMeansNotCharged
  ServiceInv
