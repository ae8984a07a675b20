SPECIFICATION ProcessFairSpec
CONSTANTS
  NfqRules <- MCRuleSet
  kRules <- MCRules
  MarkRule = "mark"
  OtherRules = {"ufw"}
  Workers = {}
  Ipv6Toggle = TRUE
  DeleteMayFail = FALSE
  MarkMayFail = FALSE
  Leftovers <- MCLeftovers
  MaxChain = 4
  Modes = {"nogui", "gui", "tray"}
  Builds = {TRUE, FALSE}
  KillMayHappen = TRUE
INVARIANTS
  HeadlessLeavesNoRules
  LeftoversSurvive
PROPERTIES
  SignalEnds
CHECK_DEADLOCK FALSE
