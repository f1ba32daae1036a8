SPECIFICATION ToolsSpec
CONSTANTS
  Agents <- MCAgents
  StaticAgent <- MCStaticAgent
  Policies <- MCPolicies
  DefaultPolicy = "none"
  MaxToolCalls = 2
  MaxCapture = 2
  CaptureBytes = 3
  ResetTexts = 1
  ResetLength = 3
  TooShort = 1
  BlockLength = 2
  Weights = {0, 1, 3}
  MaxSaid = 4
INVARIANTS ToldTruly PolicyKept StoredOnceUnlessMisled CapturesHonest
PROPERTY EveryoneAnswered
CHECK_DEADLOCK FALSE
