SPECIFICATION AlgSpec

CONSTANTS
  Params = {"label=a", "label=b", "i=2"}
  MaxParams = 2
  Bits <- MCBits
  Base <- MCBase
  Day = 4
  DaysAhead = 3
  HopInputs <- MCHopInputs
  IfInputs <- MCIfInputs
  GatewayInputs <- MCGatewayInputs
  DnsInputs <- MCDnsInputs
  PingInputs <- MCPingInputs
  TreeInputs <- MCTreeInputs
  LogInputs <- MCLogInputs
  SnapInputs <- MCSnapInputs

INVARIANTS
  
  HopTruthful
  LocalAddress
  OwnReplyInTime
  ProbeUnderstood
  DirectoryTellsTruth
  DaysAddUp
  StatusHonest

\* every input is computed once
CHECK_DEADLOCK FALSE
