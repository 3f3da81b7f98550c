--------------------------- MODULE SessionChannel ---------------------------
(***************************************************************************)
(* What the channel broker promises for each "session" channel, as the    *)
(* state machine of the broker's design: a channel is awaiting until the  *)
(* client channel is accepted and paired with a channel on the agent,     *)
(* becomes program-selected when a shell/exec/subsystem is accepted, and  *)
(* is closed from any state.  Closed is terminal and a program, once      *)
(* selected, is never unselected.                                         *)
(***************************************************************************)

CONSTANT Chans

VARIABLE chanState

Phases == {"awaiting-channel", "paired", "program-selected", "closed"}

Init == chanState = [c \in Chans |-> "awaiting-channel"]

\* The client channel is accepted and the agent channel opened.
Pair(c) ==
  /\ chanState[c] = "awaiting-channel"
  /\ chanState' = [chanState EXCEPT ![c] = "paired"]

\* The first shell, exec or subsystem request is answered.
SelectProgram(c) ==
  /\ chanState[c] = "paired"
  /\ chanState' = [chanState EXCEPT ![c] = "program-selected"]

\* Teardown, reachable from every phase.
Close(c) ==
  /\ chanState[c] # "closed"
  /\ chanState' = [chanState EXCEPT ![c] = "closed"]

Next == \E c \in Chans : Pair(c) \/ SelectProgram(c) \/ Close(c)

Spec == Init /\ [][Next]_chanState

=============================================================================
