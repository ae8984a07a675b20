SPECIFICATION FairSpec
CONSTANTS
  NfqRules <- MCNfqRules
  kRules <- MCkRules
  MarkRule = "mark"
  OtherRules = {"ufw"}
  Workers = {w1}
  Ipv6Toggle = TRUE
  DeleteMayFail = FALSE
  MarkMayFail = TRUE
  Leftovers <- MCLeftovers
  MaxChain = 6
INVARIANTS
  TypeOK
  ControlInv
  ChainShape
  Restored
  CompletelyUp
  ThreadHasHandles
  MarkSkipsQueue
PROPERTIES
  CallsReturn
  BlackholeEnds
  AtomicSwitch
