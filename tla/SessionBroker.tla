---------------------------- MODULE SessionBroker ----------------------------
(***************************************************************************)
(* The channel broker of the SSH server: DefaultSessionHandler in          *)
(* src/ssh/server/handler/publickey.go.  gliderssh runs one handler        *)
(* goroutine for every "session" channel a client opens on a connection.   *)
(* Each handler accepts the client channel, opens a paired channel on the  *)
(* agent's reverse connection and then loops on a select over four event  *)
(* sources: the connection context, the agent's global requests (shared by *)
(* every handler of the connection, they come from sess.AgentGlobalReqs),  *)
(* the client's channel requests and the agent's channel requests.  A      *)
(* request forwarded with want-reply blocks the loop until the peer        *)
(* answers or its channel closes.  Every return runs the deferred          *)
(* agent.Close, client.Close, sess.Finish and conn.Close.                  *)
(*                                                                         *)
(* The client, the agent and the connection context are the environment:   *)
(* they send requests, answer forwarded ones, and close at any time.       *)
(***************************************************************************)
EXTENDS Naturals, Sequences

CONSTANTS
  Chans,          \* "session" channels the client opens on the connection
  ProgramTypes,   \* request types of the shell/exec/subsystem branch
  OtherTypes,     \* request types that fall into the default branch
  PtyPayloads,    \* pty-req payloads, as gossh.Unmarshal decodes them
  WinPayloads,    \* window-change payloads, as gossh.Unmarshal decodes them
  MaxClientReqs,  \* bound: requests the client sends on one channel
  MaxAgentReqs,   \* bound: requests the agent sends on one channel
  MaxGlobalReqs   \* bound: global requests the agent connection sends

PtyReq       == "pty-req"
WindowChange == "window-change"
KeepAlive    == "keepalive"

\* A decoded payload: the two dimension fields the broker reads and whether
\* gossh.Unmarshal returned no error.  A malformed payload keeps the fields
\* decoded before the error (zero after it).
Payloads == [cols : Nat, rows : Nat, wellFormed : BOOLEAN]
NoPayload == [cols |-> 0, rows |-> 0, wellFormed |-> TRUE]

ClientRequests ==
       [type : ProgramTypes \cup OtherTypes, wantReply : BOOLEAN, payload : {NoPayload}]
  \cup [type : {PtyReq}, wantReply : BOOLEAN, payload : PtyPayloads]
  \cup [type : {WindowChange}, wantReply : BOOLEAN, payload : WinPayloads]
GlobalRequests == [type : {KeepAlive, "other"}, wantReply : BOOLEAN]
\* A request of the agent on its channel, and the empty slot of `pend`.
AgentRequests  == [type : {"agent-request"}, wantReply : BOOLEAN, payload : {NoPayload}]
NoRequest      == [type |-> "none", wantReply |-> FALSE, payload |-> NoPayload]

\* Program counter of a handler: not yet run, in the select loop, blocked in
\* agent.SendRequest, blocked in client.SendRequest, returned.
HandlerStates == {"new", "loop", "awaitAgent", "awaitClient", "done"}

VARIABLES
  hpc,           \* handler program counter, per channel
  sessStored,    \* the connection context holds the *session.Session
  clientCh,      \* broker's client channel: "none", "open", "closed"
  agentCh,       \* broker's agent channel:  "none", "open", "closed"
  clientQ,       \* client requests delivered but not yet read (clientReqs)
  clientEOF,     \* the client closed its channel
  clientSent,    \* requests the client has sent on the channel
  agentQ,        \* agent requests not yet read (agentReqs)
  agentEOF,      \* the agent closed its channel
  agentSent,     \* requests the agent has sent on the channel
  globalQ,       \* sess.AgentGlobalReqs, shared by all handlers
  globalEOF,     \* the agent connection is gone and AgentGlobalReqs closed
  globalSent,    \* global requests the agent has sent
  ctxDone,       \* the connection context is cancelled
  connClosed,    \* conn.Close() has run
  pend,          \* request a handler is blocked on in SendRequest
  started,       \* the handler's local `started` flag
  pipesStarted,  \* pipe goroutines the handler has started
  pipesStopped,  \* pipe goroutines that have returned
  pty,           \* sess.Pty, shared by all handlers: [cols, rows]
  finishes,      \* calls of sess.Finish
  agentProgs,    \* programs the agent has started on the channel
  progReplies    \* positive replies the client got to program requests

handlerVars  == <<hpc, clientCh, agentCh, finishes, connClosed>>
clientVars   == <<clientQ, clientEOF, clientSent>>
agentVars    == <<agentQ, agentEOF, agentSent, agentProgs>>
globalVars   == <<globalQ, globalEOF, globalSent>>
channelVars  == <<pend, started, pipesStarted, pipesStopped, pty, progReplies>>
vars == <<handlerVars, clientVars, agentVars, globalVars, channelVars,
          sessStored, ctxDone>>

-----------------------------------------------------------------------------
(* Channel liveness as the handler observes it.                            *)

\* Writing to the client fails once the client closed, or the broker closed
\* the channel or the whole connection.
ClientGone(c) == clientEOF[c] \/ clientCh[c] = "closed" \/ connClosed
AgentGone(c)  == agentEOF[c] \/ agentCh[c] = "closed"
\* clientReqs is closed by the client's close or by conn.Close.
ClientReqsClosed(c) == clientEOF[c] \/ connClosed

\* Replying to a request fails only if a reply is sent (Reply is a no-op
\* without want-reply) and the channel is gone.
ReplyFails(c, r) == r.wantReply /\ ClientGone(c)

-----------------------------------------------------------------------------
(* Handler control flow: every `return` runs the deferred calls, in the    *)
(* reverse order of their defer statements: agent.Close, client.Close,     *)
(* sess.Finish, conn.Close.                                                *)

Return(c) ==
  /\ hpc'      = [hpc EXCEPT ![c] = "done"]
  /\ agentCh'  = [agentCh EXCEPT ![c] = IF @ = "open" THEN "closed" ELSE @]
  /\ clientCh' = [clientCh EXCEPT ![c] = IF @ = "open" THEN "closed" ELSE @]
  /\ finishes' = finishes + 1
  /\ connClosed' = TRUE

\* `continue` / end of a select case: back to the select.
Continue(c) ==
  /\ hpc' = [hpc EXCEPT ![c] = "loop"]
  /\ UNCHANGED <<clientCh, agentCh, finishes, connClosed>>

\* Mutation of Setup: the `return` after a failed agent.OpenChannel is
\* dropped, so the handler enters the loop without an agent channel.
SetupNoReturnOnOpenFailure(c) ==
  /\ hpc[c] = "new"
  /\ \/ /\ ~sessStored
        /\ hpc' = [hpc EXCEPT ![c] = "done"]
        /\ connClosed' = TRUE
        /\ UNCHANGED <<clientCh, agentCh, finishes>>
     \/ /\ sessStored
        /\ hpc' = [hpc EXCEPT ![c] = "done"]
        /\ finishes' = finishes + 1
        /\ connClosed' = TRUE
        /\ UNCHANGED <<clientCh, agentCh>>
     \/ /\ sessStored                                  \* OpenChannel fails
        /\ hpc' = [hpc EXCEPT ![c] = "loop"]
        /\ clientCh' = [clientCh EXCEPT ![c] = "open"]
        /\ UNCHANGED <<agentCh, finishes, connClosed>>
     \/ /\ sessStored /\ ~globalEOF
        /\ hpc' = [hpc EXCEPT ![c] = "loop"]
        /\ clientCh' = [clientCh EXCEPT ![c] = "open"]
        /\ agentCh'  = [agentCh EXCEPT ![c] = "open"]
        /\ UNCHANGED <<finishes, connClosed>>
  /\ UNCHANGED <<clientVars, agentVars, globalVars, channelVars,
                 sessStored, ctxDone>>

\* The handler's prologue: session recovery, client accept, agent open.
Setup(c) ==
  /\ hpc[c] = "new"
  /\ \/ /\ ~sessStored
        /\ hpc' = [hpc EXCEPT ![c] = "done"]
        /\ connClosed' = TRUE
        /\ UNCHANGED <<clientCh, agentCh, finishes>>
     \/ /\ sessStored                                  \* Accept fails
        /\ hpc' = [hpc EXCEPT ![c] = "done"]
        /\ finishes' = finishes + 1
        /\ connClosed' = TRUE
        /\ UNCHANGED <<clientCh, agentCh>>
     \/ /\ sessStored                                  \* OpenChannel fails
        /\ hpc' = [hpc EXCEPT ![c] = "done"]
        /\ clientCh' = [clientCh EXCEPT ![c] = "closed"]
        /\ finishes' = finishes + 1
        /\ connClosed' = TRUE
        /\ UNCHANGED agentCh
     \/ /\ sessStored /\ ~globalEOF                    \* paired
        /\ hpc' = [hpc EXCEPT ![c] = "loop"]
        /\ clientCh' = [clientCh EXCEPT ![c] = "open"]
        /\ agentCh'  = [agentCh EXCEPT ![c] = "open"]
        /\ UNCHANGED <<finishes, connClosed>>
  /\ UNCHANGED <<clientVars, agentVars, globalVars, channelVars,
                 sessStored, ctxDone>>

-----------------------------------------------------------------------------
(* select case <-ctx.Done(): return.                                       *)

\* Mutation of OnCancel: the case only logs and goes back to the select.
OnCancelNoReturn(c) ==
  /\ hpc[c] = "loop"
  /\ ctxDone
  /\ Continue(c)
  /\ UNCHANGED <<clientVars, agentVars, globalVars, channelVars,
                 sessStored, ctxDone>>

OnCancel(c) ==
  /\ hpc[c] = "loop"
  /\ ctxDone
  /\ Return(c)
  /\ UNCHANGED <<clientVars, agentVars, globalVars, channelVars,
                 sessStored, ctxDone>>

(* select case <-sess.AgentGlobalReqs.                                     *)

\* The channel is closed and drained: return.
OnGlobalClosed(c) ==
  /\ hpc[c] = "loop"
  /\ globalQ = <<>> /\ globalEOF
  /\ Return(c)
  /\ UNCHANGED <<clientVars, agentVars, globalVars, channelVars,
                 sessStored, ctxDone>>

\* keepalive: sess.KeepAlive() calls the API; on error return, otherwise
\* reply false (a reply error is only logged).
OnKeepAlive(c) ==
  /\ hpc[c] = "loop"
  /\ globalQ # <<>> /\ Head(globalQ).type = KeepAlive
  /\ globalQ' = Tail(globalQ)
  /\ \/ Continue(c)        \* KeepAliveSession succeeded
     \/ Return(c)          \* KeepAliveSession returned errors
  /\ UNCHANGED <<clientVars, agentVars, globalEOF, globalSent, channelVars,
                 sessStored, ctxDone>>

\* Any other global request is answered false, never forwarded.
OnOtherGlobal(c) ==
  /\ hpc[c] = "loop"
  /\ globalQ # <<>> /\ Head(globalQ).type # KeepAlive
  /\ globalQ' = Tail(globalQ)
  /\ Continue(c)
  /\ UNCHANGED <<clientVars, agentVars, globalEOF, globalSent, channelVars,
                 sessStored, ctxDone>>

-----------------------------------------------------------------------------
(* The switch on the type of a client request, once agent.SendRequest has *)
(* returned ok without error.                                             *)

\* Mutation of ProgramBranch: `started = true` is never set.
ProgramBranchNoMark(c, r, ok) ==
  /\ r.type \in ProgramTypes
  /\ UNCHANGED <<pty, started>>
  /\ \/ /\ r.wantReply /\ ReplyFails(c, r)
        /\ Return(c)
        /\ UNCHANGED <<pipesStarted, progReplies>>
     \/ /\ r.wantReply /\ ~ReplyFails(c, r)
        /\ pipesStarted' = [pipesStarted EXCEPT ![c] = @ + 1]
        /\ progReplies' = [progReplies EXCEPT ![c] = IF ok THEN @ + 1 ELSE @]
        /\ Continue(c)
     \/ /\ ~r.wantReply
        /\ Continue(c)
        /\ UNCHANGED <<pipesStarted, progReplies>>

\* shell, exec, subsystem.  Only the first one answered while `started` is
\* false starts a pipe; without want-reply nothing is done at all.
ProgramBranch(c, r, ok) ==
  /\ r.type \in ProgramTypes
  /\ UNCHANGED pty
  /\ \/ /\ ~started[c] /\ r.wantReply /\ ReplyFails(c, r)
        /\ Return(c)
        /\ UNCHANGED <<started, pipesStarted, progReplies>>
     \/ /\ ~started[c] /\ r.wantReply /\ ~ReplyFails(c, r)
        /\ started' = [started EXCEPT ![c] = TRUE]
        /\ pipesStarted' = [pipesStarted EXCEPT ![c] = @ + 1]
        /\ progReplies' = [progReplies EXCEPT ![c] = IF ok THEN @ + 1 ELSE @]
        /\ Continue(c)
     \/ /\ ~started[c] /\ ~r.wantReply
        /\ Continue(c)
        /\ UNCHANGED <<started, pipesStarted, progReplies>>
     \/ /\ started[c]                    \* Reply(false, nil)
        /\ IF ReplyFails(c, r) THEN Return(c) ELSE Continue(c)
        /\ UNCHANGED <<started, pipesStarted, progReplies>>

\* pty-req: sess.Pty takes the decoded payload, also after an Unmarshal
\* error (reject() on the accepted channel has no effect); reply fails fatal.
PtyBranch(c, r, ok) ==
  /\ r.type = PtyReq
  /\ pty' = [cols |-> r.payload.cols, rows |-> r.payload.rows]
  /\ IF ReplyFails(c, r) THEN Return(c) ELSE Continue(c)
  /\ UNCHANGED <<started, pipesStarted, progReplies>>

\* window-change: Columns and Rows are overwritten; a reply error is ignored.
WindowBranch(c, r, ok) ==
  /\ r.type = WindowChange
  /\ pty' = [cols |-> r.payload.cols, rows |-> r.payload.rows]
  /\ Continue(c)
  /\ UNCHANGED <<started, pipesStarted, progReplies>>

\* Any other type: reply the agent's answer if asked; a reply error returns.
OtherBranch(c, r, ok) ==
  /\ r.type \in OtherTypes
  /\ IF ReplyFails(c, r) THEN Return(c) ELSE Continue(c)
  /\ UNCHANGED <<pty, started, pipesStarted, progReplies>>

HandleClientRequest(c, r, ok) ==
  /\ pend' = [pend EXCEPT ![c] = NoRequest]
  /\ \/ ProgramBranch(c, r, ok)
     \/ PtyBranch(c, r, ok)
     \/ WindowBranch(c, r, ok)
     \/ OtherBranch(c, r, ok)
  /\ UNCHANGED pipesStopped

-----------------------------------------------------------------------------
(* select case <-clientReqs: forward with agent.SendRequest, then switch.  *)

\* The agent's own decision on a forwarded request.  The agent is an RFC
\* 4254 server: it starts at most one program on a channel.
AgentDecides(c, r, ok) ==
  /\ ok => (r.type \notin ProgramTypes \/ agentProgs[c] = 0)
  /\ agentProgs' = [agentProgs EXCEPT ![c] =
                      IF ok /\ r.type \in ProgramTypes THEN @ + 1 ELSE @]

\* clientReqs is closed and drained: return.
OnClientClosed(c) ==
  /\ hpc[c] = "loop"
  /\ clientQ[c] = <<>> /\ ClientReqsClosed(c)
  /\ Return(c)
  /\ UNCHANGED <<clientVars, agentVars, globalVars, channelVars,
                 sessStored, ctxDone>>

\* A client request is read and sent to the agent.  On a send error the
\* request is dropped (`continue`); with want-reply the loop blocks for the
\* agent's answer; without it SendRequest returns ok = false at once.
ForwardClient(c) ==
  /\ hpc[c] = "loop"
  /\ clientQ[c] # <<>>
  /\ LET r == Head(clientQ[c]) IN
     /\ clientQ' = [clientQ EXCEPT ![c] = Tail(@)]
     /\ \/ /\ AgentGone(c)
           /\ Continue(c)
           /\ UNCHANGED <<agentProgs, channelVars>>
        \/ /\ ~AgentGone(c) /\ r.wantReply
           /\ hpc'  = [hpc EXCEPT ![c] = "awaitAgent"]
           /\ pend' = [pend EXCEPT ![c] = r]
           /\ UNCHANGED <<clientCh, agentCh, finishes, connClosed, agentProgs,
                          started, pipesStarted, pipesStopped, pty, progReplies>>
        \/ /\ ~AgentGone(c) /\ ~r.wantReply
           /\ \E ok \in BOOLEAN : AgentDecides(c, r, ok)
           /\ HandleClientRequest(c, r, FALSE)
  /\ UNCHANGED <<clientEOF, clientSent, agentQ, agentEOF, agentSent,
                 globalVars, sessStored, ctxDone>>

\* The agent answers the pending request; the switch runs with its answer.
AgentAnswers(c) ==
  /\ hpc[c] = "awaitAgent"
  /\ ~AgentGone(c)
  /\ \E ok \in BOOLEAN :
       /\ AgentDecides(c, pend[c], ok)
       /\ HandleClientRequest(c, pend[c], ok)
  /\ UNCHANGED <<clientVars, agentQ, agentEOF, agentSent, globalVars,
                 sessStored, ctxDone>>

\* The agent channel closes under a pending SendRequest: error, `continue`.
AgentSendFails(c) ==
  /\ hpc[c] = "awaitAgent"
  /\ AgentGone(c)
  /\ pend' = [pend EXCEPT ![c] = NoRequest]
  /\ Continue(c)
  /\ UNCHANGED <<clientVars, agentVars, globalVars, started, pipesStarted,
                 pipesStopped, pty, progReplies, sessStored, ctxDone>>

-----------------------------------------------------------------------------
(* select case <-agentReqs: forward to the client, relay the answer.       *)

OnAgentClosed(c) ==
  /\ hpc[c] = "loop"
  /\ agentQ[c] = <<>> /\ agentEOF[c]
  /\ Return(c)
  /\ UNCHANGED <<clientVars, agentVars, globalVars, channelVars,
                 sessStored, ctxDone>>

ForwardAgent(c) ==
  /\ hpc[c] = "loop"
  /\ agentQ[c] # <<>>
  /\ LET r == Head(agentQ[c]) IN
     /\ agentQ' = [agentQ EXCEPT ![c] = Tail(@)]
     /\ \/ /\ ClientGone(c) \/ ~r.wantReply       \* error, or no reply owed
           /\ Continue(c)
           /\ UNCHANGED pend
        \/ /\ ~ClientGone(c) /\ r.wantReply
           /\ hpc'  = [hpc EXCEPT ![c] = "awaitClient"]
           /\ pend' = [pend EXCEPT ![c] = r]
           /\ UNCHANGED <<clientCh, agentCh, finishes, connClosed>>
  /\ UNCHANGED <<clientVars, agentEOF, agentSent, agentProgs, globalVars,
                 started, pipesStarted, pipesStopped, pty, progReplies,
                 sessStored, ctxDone>>

\* The client answers; req.Reply to the agent fails once the agent is gone.
ClientAnswers(c) ==
  /\ hpc[c] = "awaitClient"
  /\ ~ClientGone(c)
  /\ pend' = [pend EXCEPT ![c] = NoRequest]
  /\ IF AgentGone(c) THEN Return(c) ELSE Continue(c)
  /\ UNCHANGED <<clientVars, agentVars, globalVars, started, pipesStarted,
                 pipesStopped, pty, progReplies, sessStored, ctxDone>>

ClientSendFails(c) ==
  /\ hpc[c] = "awaitClient"
  /\ ClientGone(c)
  /\ pend' = [pend EXCEPT ![c] = NoRequest]
  /\ Continue(c)
  /\ UNCHANGED <<clientVars, agentVars, globalVars, started, pipesStarted,
                 pipesStopped, pty, progReplies, sessStored, ctxDone>>

-----------------------------------------------------------------------------
(* The pipe goroutine (go pipe(...)): it relays bytes until the client or  *)
(* the agent stream closes, and does not finish the session itself.        *)

PipeStops(c) ==
  /\ pipesStopped[c] < pipesStarted[c]
  /\ ClientGone(c) \/ AgentGone(c)
  /\ pipesStopped' = [pipesStopped EXCEPT ![c] = @ + 1]
  /\ UNCHANGED <<handlerVars, clientVars, agentVars, globalVars, pend, started,
                 pipesStarted, pty, progReplies, sessStored, ctxDone>>

-----------------------------------------------------------------------------
(* Environment: the SSH client, the agent and the connection context.      *)

ClientSends(c) ==
  /\ clientCh[c] = "open" /\ ~ClientGone(c)
  /\ clientSent[c] < MaxClientReqs
  /\ \E r \in ClientRequests : clientQ' = [clientQ EXCEPT ![c] = Append(@, r)]
  /\ clientSent' = [clientSent EXCEPT ![c] = @ + 1]
  /\ UNCHANGED <<handlerVars, clientEOF, agentVars, globalVars, channelVars,
                 sessStored, ctxDone>>

ClientCloses(c) ==
  /\ clientCh[c] # "none" /\ ~clientEOF[c]
  /\ clientEOF' = [clientEOF EXCEPT ![c] = TRUE]
  /\ UNCHANGED <<handlerVars, clientQ, clientSent, agentVars, globalVars,
                 channelVars, sessStored, ctxDone>>

AgentSends(c) ==
  /\ agentCh[c] = "open" /\ ~agentEOF[c]
  /\ agentSent[c] < MaxAgentReqs
  /\ \E r \in AgentRequests : agentQ' = [agentQ EXCEPT ![c] = Append(@, r)]
  /\ agentSent' = [agentSent EXCEPT ![c] = @ + 1]
  /\ UNCHANGED <<handlerVars, clientVars, agentEOF, agentProgs, globalVars,
                 channelVars, sessStored, ctxDone>>

AgentCloses(c) ==
  /\ agentCh[c] # "none" /\ ~agentEOF[c]
  /\ agentEOF' = [agentEOF EXCEPT ![c] = TRUE]
  /\ UNCHANGED <<handlerVars, clientVars, agentQ, agentSent, agentProgs,
                 globalVars, channelVars, sessStored, ctxDone>>

AgentGlobalSends ==
  /\ ~globalEOF
  /\ globalSent < MaxGlobalReqs
  /\ \E g \in GlobalRequests : globalQ' = Append(globalQ, g)
  /\ globalSent' = globalSent + 1
  /\ UNCHANGED <<handlerVars, clientVars, agentVars, globalEOF, channelVars,
                 sessStored, ctxDone>>

\* The agent's reverse connection drops: its global request channel and
\* every channel on it close.
AgentConnCloses ==
  /\ ~globalEOF
  /\ globalEOF' = TRUE
  /\ agentEOF'  = [c \in Chans |-> TRUE]
  /\ UNCHANGED <<handlerVars, clientVars, agentQ, agentSent, agentProgs,
                 globalQ, globalSent, channelVars, sessStored, ctxDone>>

\* Server shutdown or the end of the connection cancels the context.
Cancel ==
  /\ ~ctxDone
  /\ ctxDone' = TRUE
  /\ UNCHANGED <<handlerVars, clientVars, agentVars, globalVars, channelVars,
                 sessStored>>

-----------------------------------------------------------------------------

Init ==
  /\ hpc        = [c \in Chans |-> "new"]
  /\ sessStored \in BOOLEAN
  /\ clientCh   = [c \in Chans |-> "none"]
  /\ agentCh    = [c \in Chans |-> "none"]
  /\ clientQ    = [c \in Chans |-> <<>>]
  /\ clientEOF  = [c \in Chans |-> FALSE]
  /\ clientSent = [c \in Chans |-> 0]
  /\ agentQ     = [c \in Chans |-> <<>>]
  /\ agentEOF   = [c \in Chans |-> FALSE]
  /\ agentSent  = [c \in Chans |-> 0]
  /\ agentProgs = [c \in Chans |-> 0]
  /\ globalQ    = <<>>
  /\ globalEOF  = FALSE
  /\ globalSent = 0
  /\ ctxDone    = FALSE
  /\ connClosed = FALSE
  /\ pend       = [c \in Chans |-> NoRequest]
  /\ started    = [c \in Chans |-> FALSE]
  /\ pipesStarted = [c \in Chans |-> 0]
  /\ pipesStopped = [c \in Chans |-> 0]
  /\ pty        = [cols |-> 0, rows |-> 0]
  /\ finishes   = 0
  /\ progReplies = [c \in Chans |-> 0]

\* Handler steps of channel c, one per select case or blocking call.
HandlerStep(c) ==
  \/ Setup(c)
  \/ OnCancel(c)
  \/ OnGlobalClosed(c) \/ OnKeepAlive(c) \/ OnOtherGlobal(c)
  \/ OnClientClosed(c) \/ ForwardClient(c) \/ AgentAnswers(c) \/ AgentSendFails(c)
  \/ OnAgentClosed(c) \/ ForwardAgent(c) \/ ClientAnswers(c) \/ ClientSendFails(c)

Environment ==
  \/ \E c \in Chans : ClientSends(c) \/ ClientCloses(c)
                      \/ AgentSends(c) \/ AgentCloses(c)
  \/ AgentGlobalSends \/ AgentConnCloses \/ Cancel

\* Every handler has returned: the connection's work is over.
Terminated ==
  /\ \A c \in Chans : hpc[c] = "done" /\ pipesStopped[c] = pipesStarted[c]
  /\ UNCHANGED vars

Next ==
  \/ \E c \in Chans : HandlerStep(c) \/ PipeStops(c)
  \/ Environment
  \/ Terminated

(* Go's select picks uniformly among ready cases, so a case that is ready  *)
(* whenever the loop selects is eventually taken: strong fairness per      *)
(* closing case.  The goroutine runs (Setup), a pipe returns once its      *)
(* transport is closed, a blocked SendRequest returns once the peer        *)
(* answers or closes: the client and the agent answer want-reply requests. *)
Fairness ==
  \A c \in Chans :
    /\ WF_vars(Setup(c))
    /\ SF_vars(OnCancel(c)) /\ SF_vars(OnGlobalClosed(c))
    /\ SF_vars(OnClientClosed(c)) /\ SF_vars(OnAgentClosed(c))
    /\ WF_vars(AgentAnswers(c)) /\ WF_vars(AgentSendFails(c))
    /\ WF_vars(ClientAnswers(c)) /\ WF_vars(ClientSendFails(c))
    /\ WF_vars(PipeStops(c))

Spec == Init /\ [][Next]_vars /\ Fairness

-----------------------------------------------------------------------------
(* Properties.                                                             *)

(* Types.  A channel gets at most one pipe goroutine: the shell, exec and *)
(* subsystem case starts one only while the handler's `started` flag is   *)
(* false, and sets the flag in the same case.                              *)
TypeOK ==
  /\ hpc \in [Chans -> HandlerStates]
  /\ sessStored \in BOOLEAN
  /\ clientCh \in [Chans -> {"none", "open", "closed"}]
  /\ agentCh  \in [Chans -> {"none", "open", "closed"}]
  /\ clientQ \in [Chans -> Seq(ClientRequests)]
  /\ agentQ  \in [Chans -> Seq(AgentRequests)]
  /\ globalQ \in Seq(GlobalRequests)
  /\ clientEOF \in [Chans -> BOOLEAN] /\ agentEOF \in [Chans -> BOOLEAN]
  /\ clientSent \in [Chans -> 0..MaxClientReqs]
  /\ agentSent  \in [Chans -> 0..MaxAgentReqs]
  /\ globalSent \in 0..MaxGlobalReqs
  /\ {globalEOF, ctxDone, connClosed} \subseteq BOOLEAN
  /\ pend \in [Chans -> ClientRequests \cup AgentRequests \cup {NoRequest}]
  /\ started \in [Chans -> BOOLEAN]
  /\ pipesStarted \in [Chans -> 0..1]
  /\ \A c \in Chans : pipesStopped[c] \in 0..pipesStarted[c]
  /\ pty \in [cols : Nat, rows : Nat]
  /\ finishes \in Nat
  /\ agentProgs \in [Chans -> Nat] /\ progReplies \in [Chans -> Nat]

(* The handler implements the channel state machine of the broker's       *)
(* design (SessionChannel): a channel is paired only once both the client *)
(* and the agent channel are open, a program is selected only on a paired *)
(* channel and stays selected, and closed is terminal.                    *)
ChannelPhase(c) ==
  CASE hpc[c] = "done" -> "closed"
    [] started[c]      -> "program-selected"
    [] clientCh[c] = "open" /\ agentCh[c] = "open" -> "paired"
    [] OTHER           -> "awaiting-channel"

Abstract == INSTANCE SessionChannel
              WITH chanState <- [c \in Chans |-> ChannelPhase(c)]

ImplementsSessionChannel == Abstract!Spec

(* Once the connection context is cancelled, every handler returns (its   *)
(* deferred closes and sess.Finish run) and every pipe goroutine ends.     *)
TeardownCompletes ==
  ctxDone ~> (\A c \in Chans : hpc[c] = "done" /\ pipesStopped[c] = pipesStarted[c])

(* Design 4.3 step 5: when no program has started, the answer to a shell, *)
(* exec or subsystem request marks the channel started and starts the data *)
(* pipe.  So a channel on which the agent runs a program, with its handler *)
(* back in the select loop, has a pipe relaying that program's I/O.        *)
AgentProgramHasPipe ==
  \A c \in Chans : (agentProgs[c] > 0 /\ hpc[c] = "loop") => pipesStarted[c] > 0

(* RFC 4254 6.2 and the design (4.3 step 5, section 8): zero dimension     *)
(* fields of pty-req and window-change are ignored, so a dimension of      *)
(* sess.Pty that is set never becomes zero.                                *)
ZeroDimensionsIgnored ==
  [][ /\ (pty'.cols = 0 => pty'.cols = pty.cols)
      /\ (pty'.rows = 0 => pty'.rows = pty.rows) ]_pty

(* Design section 3 and 8: finishing runs exactly once per session,        *)
(* whatever ends it.  sess.Finish is deferred by every handler of the      *)
(* connection.                                                             *)
FinishAtMostOnce == finishes <= 1

=============================================================================
