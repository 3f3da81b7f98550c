-------------------------- MODULE MC_SessionBroker --------------------------
(***************************************************************************)
(* Model-checking instance of SessionBroker: the decoded payloads the      *)
(* client may send.  A pty-req of 80x24, a pty-req truncated after its     *)
(* terminal name (gossh.Unmarshal fails with both dimensions still zero),  *)
(* and a window-change of 100 columns with rows 0.                         *)
(***************************************************************************)
EXTENDS SessionBroker

MCPtyPayloads ==
  { [cols |-> 80, rows |-> 24, wellFormed |-> TRUE],
    [cols |-> 0,  rows |-> 0,  wellFormed |-> FALSE] }

MCWinPayloads ==
  { [cols |-> 100, rows |-> 0, wellFormed |-> TRUE] }

=============================================================================
