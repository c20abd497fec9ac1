SPECIFICATION Spec
CONSTANTS
  None = None
  Number <- MCNumber
  LeadingYear <- MCLeadingYear
  LeadingInteger <- MCLeadingInteger
  Trim <- MCTrim
  IsAbsent <- MCIsAbsent
  DigitsOf <- MCDigitsOf
  LabelId <- MCLabelId
  NormalizedAlias <- MCNormalizedAlias
  Formats <- MCFormats
  Descriptions <- MCDescriptions
  Families <- MCFamilies
  Media <- MCMedia
  IdentifierTypes <- MCIdentifierTypes
  Namespaces <- MCNamespaces
  CompanyRoles <- MCCompanyRoles
  Read <- MessageOf
  SkipBy <- SkipOf
  RepairBy <- RepairOf
  ViolationsBy <- Flagged
  ShapeBy <- Shaped
  SkipRecords <- MCSkipRecords
  Filters <- MCFilters
  QualityRules <- MCQualityRules
  Dumps <- MCDumps
  MaxPasses = 2
CHECK_DEADLOCK FALSE
INVARIANTS
  PublishedWhole
  BlocksFollowLists
  ReportIsTrue
  NothingUnaccounted
