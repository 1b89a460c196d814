SPECIFICATION ReviewSpec
CONSTANTS
  Lot = 2
  FeeNum = 1
  FeeDen = 4
  Whole = 10
  Kinds = {"BUY", "SELL"}
  Policies <- MCPolicies
  Portfolios <- MCPortfolios
  Entries <- MCEntries
INVARIANTS
  ApprovedWithinEveryLimit
PROPERTIES
  StricterPolicyNeverApproves
  WorsePortfolioNeverApproves
