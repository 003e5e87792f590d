\* Two runs over rows of every kind, while two requests write the market rule.
CONSTANTS
  r1 = r1
  r2 = r2
  NoRule = NoRule
  NoCaps = NoCaps
  NoSoc = NoSoc
  Contents <- MCContents
  Unit <- MCUnit
  RuleRequests <- MCRuleRequests
  Rows <- MCRows
  Vendors = {"standard", "sungrow"}
  Periods = 2
  Column = 500
  BatchSize = 2
  MaxRows = 3
  MaxImports = 2
SYMMETRY Requests
SPECIFICATION Spec
INVARIANTS TypeOK RuleIsLatest CostsAddUp OneRuleJudges ChecksAgree
PROPERTIES SocIsRecorded
