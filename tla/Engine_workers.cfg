SPECIFICATION Spec
CONSTANTS
  NfqRules <- MCNfqRules
  kRules <- MCkRules
  MarkRule = "mark"
  OtherRules = {"ufw"}
  Workers = {w1}
  Ipv6Toggle = FALSE
  DeleteMayFail = FALSE
  MarkMayFail = TRUE
  Leftovers <- MCLeftovers
  MaxChain = 6
INVARIANTS
  WorkersShutDown
