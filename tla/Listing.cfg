SPECIFICATION MCSpec
CONSTANTS
  Versions = {11, 21, 31}
  artists = artists
  labels = labels
  CHECKSUM = CHECKSUM
  DataTypes <- MCDataTypes
  YearOf <- MCYearOf
INVARIANTS
  MarkerIsForTheFiles
  NewestCompleteTaken
  SumsCoverTheFiles
PROPERTY NewestIsProcessed
