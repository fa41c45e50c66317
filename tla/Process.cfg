CONSTANTS
  Handlers = {q1, q2}
  Batch = batch
  Exporters <- MCExporters
SPECIFICATION FairSpec
INVARIANTS
  ProcessTypeOK
  ResourcesOutliveUsers
  CleanStopDrains
  SpansEndInTime
PROPERTIES
  StopsWhenAsked
