SPECIFICATION EmailSpec
CONSTANTS
  one = one
  two = two
  three = three
  Domains <- MCDomains
  Root = one
  Policies <- MCPolicies
  NoPolicy = NoPolicy
  Nowhere = Nowhere
  Limit = 3
  Failed = Failed
  Situations <- MCSituations
INVARIANTS
  VerdictIsThatOfAllPolicies
  QueriesAreBounded
  AbsenceIsNotFailure
  QuietReportMeansConfigured
PROPERTIES
  EveryReportComes
CHECK_DEADLOCK FALSE
