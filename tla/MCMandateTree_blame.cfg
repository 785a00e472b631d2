SPECIFICATION Spec
CONSTANTS
  Depth = 2
  Deployments = {1, 2}
  Term <- MCTerm
  Grant <- MCGrant
  Policies <- MCPolicies
  Amounts = {1}
  Spent <- MCSpent
  InTreeAsset = TRUE
  Backends = {"ens", "mock"}
  MaxTime = 1
  MaxTxs = 2
  Unset = Unset
PROPERTIES
  ExpiredMeansExpired
CHECK_DEADLOCK FALSE
