\* Two session channels on one connection: each handler defers sess.Finish
\* on the one shared session.
CONSTANTS
  Chans = {c1, c2}
  ProgramTypes = {"shell"}
  OtherTypes = {"env"}
  PtyPayloads <- MCPtyPayloads
  WinPayloads <- MCWinPayloads
  MaxClientReqs = 1
  MaxAgentReqs = 0
  MaxGlobalReqs = 0
SPECIFICATION Spec
INVARIANT FinishAtMostOnce
