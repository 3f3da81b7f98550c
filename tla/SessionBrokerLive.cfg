\* One session channel: teardown after cancellation, under the fairness of
\* Go's select and of peers that answer want-reply requests.
CONSTANTS
  Chans = {c1}
  ProgramTypes = {"shell"}
  OtherTypes = {"env"}
  PtyPayloads <- MCPtyPayloads
  WinPayloads <- MCWinPayloads
  MaxClientReqs = 2
  MaxAgentReqs = 1
  MaxGlobalReqs = 1
SPECIFICATION Spec
PROPERTIES
  TeardownCompletes
