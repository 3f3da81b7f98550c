\* A program request sent without want-reply: the agent starts the program
\* but the broker neither marks the channel started nor starts a pipe.
CONSTANTS
  Chans = {c1}
  ProgramTypes = {"shell"}
  OtherTypes = {"env"}
  PtyPayloads <- MCPtyPayloads
  WinPayloads <- MCWinPayloads
  MaxClientReqs = 2
  MaxAgentReqs = 0
  MaxGlobalReqs = 0
SPECIFICATION Spec
INVARIANT AgentProgramHasPipe
