CONSTANTS
  Orders = {1}
  Procs = {p1}
  NoProc = none
  BatchSize = 1
  MaxCrashes = 1
  MaxLate = 1
  UndecidedCodes = {429, 503}
  RejectionCodes = {401, 402}
  StrictDecoding = TRUE
  Focus = 1
SPECIFICATION FairSpec
PROPERTIES
  DecidedChargeSettles
