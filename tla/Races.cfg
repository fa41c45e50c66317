CONSTANTS
  Orders = {1}
  Procs = {p1, p2}
  NoProc = none
  BatchSize = 1
  MaxCrashes = 0
  MaxLate = 1
  UndecidedCodes = {429, 503}
  RejectionCodes = {401, 402}
  StrictDecoding = TRUE
  Focus = 1
SPECIFICATION Spec
INVARIANTS
  TypeOK
  ServiceInv
  PaidMeansCharged
  CompletedMeansReserved
  EventsFollowCommits
  EventsLoggedOnce
  ReportedStatusWasStored
  SuccessMeansCompleted
PROPERTIES
  ImplementsLifecycle
SYMMETRY Symmetry
