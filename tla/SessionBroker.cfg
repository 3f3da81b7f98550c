\* One session channel: the types, with the one pipe the started flag allows,
\* and the channel state machine of the design, checked as a refinement of
\* SessionChannel.
CONSTANTS
  Chans = {c1}
  ProgramTypes = {"shell"}
  OtherTypes = {"env"}
  PtyPayloads <- MCPtyPayloads
  WinPayloads <- MCWinPayloads
  MaxClientReqs = 3
  MaxAgentReqs = 1
  MaxGlobalReqs = 1
SPECIFICATION Spec
INVARIANTS
  TypeOK
PROPERTIES
  ImplementsSessionChannel
