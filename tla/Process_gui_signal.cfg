SPECIFICATION ProcessFairSpec
CONSTANTS
  NfqRules <- MCRuleSet
  kRules <- MCRules
  MarkRule = "mark"
  OtherRules = {"ufw"}
  Workers = {}
  Ipv6Toggle = FALSE
  DeleteMayFail = FALSE
  MarkMayFail = FALSE
  Leftovers <- MCLeftovers
  MaxChain = 4
  Modes = {"gui"}
  Builds = {TRUE}
  KillMayHappen = FALSE
PROPERTIES
  RemovedOnSignal
