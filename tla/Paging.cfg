CONSTANTS
  Orders = {1, 2}
  Procs = {p1}
  NoProc = none
  BatchSize = 1
  MaxCrashes = 0
  MaxLate = 0
  UndecidedCodes = {429, 503}
  RejectionCodes = {401, 402}
  StrictDecoding = TRUE
  Focus = 2
SPECIFICATION RestartSpec
PROPERTIES
  FocusSettles
  NoStarvation
  SweepMissesNothing
