SPECIFICATION Spec
CONSTANTS
  NfqRules <- MCNfqRules
  kRules <- MCShortRules
  MarkRule = "mark"
  OtherRules = {"ufw"}
  Workers = {}
  Ipv6Toggle = FALSE
  DeleteMayFail = TRUE
  MarkMayFail = FALSE
  Leftovers <- MCShortLeftovers
  MaxChain = 3
INVARIANTS
  ForeignRulesKept
