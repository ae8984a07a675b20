SPECIFICATION Spec
CONSTANTS
  NfqRules <- MCNfqRules
  kRules <- MCkRules
  MarkRule = "mark"
  OtherRules = {"ufw"}
  Workers = {w1}
  Ipv6Toggle = TRUE
  DeleteMayFail = FALSE
  MarkMayFail = TRUE
  Leftovers <- MCLeftovers
  MaxChain = 6
INVARIANTS
  RevertsExactly
