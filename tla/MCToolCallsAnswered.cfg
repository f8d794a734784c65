CONSTANTS
  Loops = {l1}
  Servers = {s1}
  MultiTurn = TRUE
  TurnLen = 2
  CallStart = 1
  Calls = 1
  ToolLen = 1
  ResponseLength = 6
  MaxTurns = 0
  MaxTokens = 6
  MaxVersion = 2
SPECIFICATION Spec
INVARIANT ToolCallsAnswered
