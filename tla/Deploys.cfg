CONSTANTS
  Runs = {r1, r2, r3}
  NoRun = none
  Checksums <- MCChecksums
  Releases <- MCReleases
SPECIFICATION FairSpec
INVARIANTS
  MigrationsTypeOK
  MigrationsInv
  OneMigrator
  LedgerIsHistory
  ExecutedInOrder
  NoLedgerConflict
  ServesMigratedSchema
PROPERTIES
  ImplementsHistory
  MigrateReturns
