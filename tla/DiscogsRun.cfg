SPECIFICATION FairSpec
CONSTANTS
  f1 = f1
  f2 = f2
  good = good
  bad = bad
  None = None
  Torn = Torn
  File <- MCFile
  Content <- MCContent
  Size <- MCSize
  Good = good
  MaxDownloadRetries = 2
  MaxWorkers = 2
  MaxFaults = 2
INVARIANTS
  TypeOK
  CompletedWasDelivered
  PurgeKeepsRows
  FinalisedWasBroadcast
  CompletedMatchesBytes
  VerifiedWhenPublished
  ProcessedIsCount
  ReportedSuccessIsFinal
PROPERTIES
  ProgressKept
  EventuallyFinalised
