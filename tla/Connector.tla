------------------------------ MODULE Connector ------------------------------
(***************************************************************************)
(* The Docker connector service: src/unnamed/part_000.  An echo server    *)
(* keeps a map from tenant to *Connection.  Each endpoint runs in its own *)
(* goroutine.  /start runs `go conn.Start(tenant)`.  Start pings the       *)
(* engine and spawns a Listen goroutine that sets status = "started".  It *)
(* then selects on `cherr` (unbuffered, fed by Listen on an error) and on *)
(* `stop` (capacity 1, fed by Stop).  Returning cancels Listen's context. *)
(*                                                                         *)
(* Neither the map nor status is locked.  A handler step is atomic up to  *)
(* its next blocking point: the send of Stop on a full `stop` channel,    *)
(* and, in /connect, the gap between the lookup and the insert.  The      *)
(* Docker client is left out: Ping and NewDockerConnector succeed or fail *)
(* whatever Disconnect did before (Close only drops idle connections).    *)
(***************************************************************************)
EXTENDS Naturals, FiniteSets

CONSTANTS
  Tenants,   \* tenants named in the URLs
  ConnIds,   \* *Connection objects NewConnection can allocate
  StartIds,  \* `go conn.Start` goroutines, each with its Listen goroutine
  Reqs       \* HTTP requests served (one endpoint call each)

NoConn   == "no-conn"
NoTenant == "no-tenant"

\* Connection.status values (the string constants of lines 16-22).
Statuses == {"nil", "connected", "disconnected", "started", "failed", "stoped"}

ReqPcs   == {"idle", "connecting", "stopping", "done"}
StartPcs == {"idle", "ping", "loop", "done"}
ListenerPcs == {"none", "set", "listening", "sending", "done"}

VARIABLES
  connOf,    \* connector.Connections: tenant -> connection
  used,      \* connection objects allocated so far
  status,    \* Connection.status
  stopBuf,   \* tokens in Connection.stop (capacity 1)
  start,     \* Start goroutine: [conn, pc]
  listener,  \* the Listen goroutine the Start goroutine spawned
  req        \* HTTP request: [pc, ep, tenant, conn]

vars == <<connOf, used, status, stopBuf, start, listener, req>>

StartRunning(s) == start[s].pc \in {"ping", "loop"}

\* The status of the tenant's entry, NilStatus when GetConnection fails.
StatusOf(t) == IF connOf[t] = NoConn THEN "nil" ELSE status[connOf[t]]

\* Disconnect (85-93): a connection in the map always has its client.
Disconnect(o) == status' = [status EXCEPT ![o] = "disconnected"]

\* The request r of endpoint ep for tenant t, on connection o, is at pc.
SetReq(r, pc, ep, t, o) ==
  req' = [req EXCEPT ![r] = [pc |-> pc, ep |-> ep, tenant |-> t, conn |-> o]]

-----------------------------------------------------------------------------
(* Stop (134-141) as called by /stop and /disconnect (289-297): the token *)
(* goes into `stop`, or the handler blocks on the full channel until a    *)
(* Start loop takes the token there.  Once sent, Stop sets "stoped";      *)
(* /disconnect goes on with Disconnect and DelConnection (191-199), which *)
(* deletes whatever entry the tenant has by then.                         *)

SendStop(r, ep, t, o) ==
  /\ stopBuf[o] = 0
  /\ stopBuf' = [stopBuf EXCEPT ![o] = 1]
  /\ SetReq(r, "done", ep, t, o)
  /\ IF ep = "disconnect"
     THEN Disconnect(o) /\ connOf' = [connOf EXCEPT ![t] = NoConn]
     ELSE status' = [status EXCEPT ![o] = "stoped"] /\ UNCHANGED connOf

BlockOnStop(r, ep, t, o) ==
  /\ stopBuf[o] = 1
  /\ SetReq(r, "stopping", ep, t, o)
  /\ UNCHANGED <<stopBuf, status, connOf>>

Stop(r, ep, t, o) == SendStop(r, ep, t, o) \/ BlockOnStop(r, ep, t, o)

StopUnblocks(r) ==
  /\ req[r].pc = "stopping"
  /\ SendStop(r, req[r].ep, req[r].tenant, req[r].conn)
  /\ UNCHANGED <<used, start, listener>>

-----------------------------------------------------------------------------
(* The endpoints (262-341).  Each begins with GetConnection (172-179); an  *)
(* error answer ends the request with nothing changed.                     *)

Refuse(r, ep, t) ==
  /\ SetReq(r, "done", ep, t, NoConn)
  /\ UNCHANGED <<connOf, used, status, stopBuf, start, listener>>

\* /connect, first half: an existing entry is ErrConnectionEstablished.
ConnectLookup(r, t) ==
  /\ req[r].pc = "idle"
  /\ \/ connOf[t] # NoConn /\ Refuse(r, "connect", t)
     \/ /\ connOf[t] = NoConn
        /\ SetReq(r, "connecting", "connect", t, NoConn)
        /\ UNCHANGED <<connOf, used, status, stopBuf, start, listener>>

\* Mutation of ConnectStore: the entry is stored before Connect's error
\* is checked.
ConnectStoreFirst(r) ==
  /\ req[r].pc = "connecting"
  /\ \E o \in ConnIds \ used :
       /\ used' = used \cup {o}
       /\ connOf' = [connOf EXCEPT ![req[r].tenant] = o]
       /\ \/ status' = [status EXCEPT ![o] = "connected"]
          \/ UNCHANGED status
       /\ SetReq(r, "done", "connect", req[r].tenant, o)
  /\ UNCHANGED <<stopBuf, start, listener>>

\* /connect, second half: NewConnection, Connect (52-67) and the insert,
\* which overwrites an entry stored meanwhile.  The Docker client
\* constructor may fail: the new object is then dropped.
ConnectStore(r) ==
  /\ req[r].pc = "connecting"
  /\ \E o \in ConnIds \ used :
       /\ used' = used \cup {o}
       /\ \/ /\ status' = [status EXCEPT ![o] = "connected"]
             /\ connOf' = [connOf EXCEPT ![req[r].tenant] = o]
          \/ UNCHANGED <<status, connOf>>
       /\ SetReq(r, "done", "connect", req[r].tenant, o)
  /\ UNCHANGED <<stopBuf, start, listener>>

\* /disconnect: Stop, Disconnect, DelConnection; no status check.
DisconnectEp(r, t) ==
  /\ req[r].pc = "idle"
  /\ \/ connOf[t] = NoConn /\ Refuse(r, "disconnect", t)
     \/ /\ connOf[t] # NoConn
        /\ Stop(r, "disconnect", t, connOf[t])
        /\ UNCHANGED <<used, start, listener>>

\* /start: refused when status says started, else `go conn.Start(tenant)`.
StartEp(r, t) ==
  /\ req[r].pc = "idle"
  /\ \/ /\ connOf[t] = NoConn \/ StatusOf(t) = "started"
        /\ Refuse(r, "start", t)
     \/ /\ connOf[t] # NoConn /\ StatusOf(t) # "started"
        /\ \E s \in StartIds :
             /\ start[s].pc = "idle"
             /\ start' = [start EXCEPT ![s] = [conn |-> connOf[t], pc |-> "ping"]]
        /\ SetReq(r, "done", "start", t, connOf[t])
        /\ UNCHANGED <<connOf, used, status, stopBuf, listener>>

\* /stop: refused unless status says started, else Stop.
StopEp(r, t) ==
  /\ req[r].pc = "idle"
  /\ \/ /\ StatusOf(t) # "started"
        /\ Refuse(r, "stop", t)
     \/ /\ StatusOf(t) = "started"
        /\ Stop(r, "stop", t, connOf[t])
        /\ UNCHANGED <<used, start, listener>>

\* /ping: Ping (70-83) disconnects on a failed engine ping.  Without an
\* entry the handler calls Ping on a nil *Connection: the nil dereference
\* panics and net/http drops the request.
PingEp(r, t) ==
  /\ req[r].pc = "idle"
  /\ \/ connOf[t] = NoConn /\ Refuse(r, "ping", t)
     \/ /\ connOf[t] # NoConn
        /\ SetReq(r, "done", "ping", t, connOf[t])
        /\ \/ UNCHANGED status
           \/ Disconnect(connOf[t])
        /\ UNCHANGED <<connOf, used, stopBuf, start, listener>>

-----------------------------------------------------------------------------
(* Start (96-132) in its own goroutine, and the Listen goroutine it       *)
(* spawns (112-119).  Start's context is cancelled when it returns.       *)

\* Ping fails: Ping calls Disconnect and Start returns.  Ping succeeds:
\* NewDockerConnectorWithClient fails and Start returns, or the Listen
\* goroutine is spawned and Start enters its select.
StartPing(s) ==
  /\ start[s].pc = "ping"
  /\ \/ /\ Disconnect(start[s].conn)
        /\ start' = [start EXCEPT ![s].pc = "done"]
        /\ UNCHANGED listener
     \/ /\ start' = [start EXCEPT ![s].pc = "done"]
        /\ UNCHANGED <<status, listener>>
     \/ /\ start' = [start EXCEPT ![s].pc = "loop"]
        /\ listener' = [listener EXCEPT ![s] = "set"]
        /\ UNCHANGED status
  /\ UNCHANGED <<connOf, used, stopBuf, req>>

\* case err := <-cherr: the rendezvous with a sending Listen goroutine.
StartOnErr(s) ==
  /\ start[s].pc = "loop"
  /\ listener[s] = "sending"
  /\ status' = [status EXCEPT ![start[s].conn] = "failed"]
  /\ start' = [start EXCEPT ![s].pc = "done"]
  /\ listener' = [listener EXCEPT ![s] = "done"]
  /\ UNCHANGED <<connOf, used, stopBuf, req>>

\* case <-c.stop: take a token, return nil.
StartOnStop(s) ==
  /\ start[s].pc = "loop"
  /\ stopBuf[start[s].conn] = 1
  /\ stopBuf' = [stopBuf EXCEPT ![start[s].conn] = 0]
  /\ start' = [start EXCEPT ![s].pc = "done"]
  /\ UNCHANGED <<connOf, used, status, listener, req>>

\* The goroutine's first statement: c.status = StartedStatus.
ListenerSetsStarted(s) ==
  /\ listener[s] = "set"
  /\ status' = [status EXCEPT ![start[s].conn] = "started"]
  /\ listener' = [listener EXCEPT ![s] = "listening"]
  /\ UNCHANGED <<connOf, used, stopBuf, start, req>>

\* connc.Listen(ctx) returns an error (an engine error while running, or
\* the cancellation of the context) and the goroutine sends it on cherr.
ListenerFails(s) ==
  /\ listener[s] = "listening"
  /\ listener' = [listener EXCEPT ![s] = "sending"]
  /\ UNCHANGED <<connOf, used, status, stopBuf, start, req>>

\* Listen returns nil once its context is cancelled.
ListenerReturns(s) ==
  /\ listener[s] = "listening"
  /\ start[s].pc = "done"
  /\ listener' = [listener EXCEPT ![s] = "done"]
  /\ UNCHANGED <<connOf, used, status, stopBuf, start, req>>

-----------------------------------------------------------------------------

Init ==
  /\ connOf = [t \in Tenants |-> NoConn]
  /\ used = {}
  /\ status = [o \in ConnIds |-> "nil"]
  /\ stopBuf = [o \in ConnIds |-> 0]
  /\ start = [s \in StartIds |-> [conn |-> NoConn, pc |-> "idle"]]
  /\ listener = [s \in StartIds |-> "none"]
  /\ req = [r \in Reqs |-> [pc |-> "idle", ep |-> "none", tenant |-> NoTenant,
                            conn |-> NoConn]]

\* Every request has been answered or is blocked in Stop: the server waits
\* for the next request.
Quiescent ==
  /\ \A r \in Reqs : req[r].pc \in {"done", "stopping"}
  /\ UNCHANGED vars

Next ==
  \/ \E r \in Reqs, t \in Tenants :
       \/ ConnectLookup(r, t) \/ DisconnectEp(r, t) \/ StartEp(r, t)
       \/ StopEp(r, t) \/ PingEp(r, t)
  \/ \E r \in Reqs : ConnectStore(r) \/ StopUnblocks(r)
  \/ \E s \in StartIds :
       \/ StartPing(s) \/ StartOnErr(s) \/ StartOnStop(s)
       \/ ListenerSetsStarted(s) \/ ListenerFails(s) \/ ListenerReturns(s)
  \/ Quiescent

(* The goroutines are scheduled (weak fairness on every goroutine step);  *)
(* Start's select takes a ready case that stays ready (strong fairness, *)
(* as Go's select picks among ready cases at random).  Clients need not   *)
(* send requests.                                                          *)
Fairness ==
  /\ \A r \in Reqs : WF_vars(ConnectStore(r)) /\ SF_vars(StopUnblocks(r))
  /\ \A s \in StartIds :
       /\ WF_vars(StartPing(s)) /\ SF_vars(StartOnErr(s)) /\ SF_vars(StartOnStop(s))
       /\ WF_vars(ListenerSetsStarted(s)) /\ WF_vars(ListenerReturns(s))

Spec == Init /\ [][Next]_vars /\ Fairness

-----------------------------------------------------------------------------
(* Properties.                                                             *)

TypeOK ==
  /\ connOf \in [Tenants -> ConnIds \cup {NoConn}]
  /\ used \subseteq ConnIds
  /\ status \in [ConnIds -> Statuses]
  /\ stopBuf \in [ConnIds -> 0..1]
  /\ start \in [StartIds -> [conn : ConnIds \cup {NoConn}, pc : StartPcs]]
  /\ listener \in [StartIds -> ListenerPcs]
  /\ req \in [Reqs -> [pc : ReqPcs, ep : {"none", "connect", "disconnect",
                                          "start", "stop", "ping"},
                       tenant : Tenants \cup {NoTenant}, conn : ConnIds \cup {NoConn}]]
  \* An entry of the map is a connection whose Connect succeeded.
  /\ \A t \in Tenants : connOf[t] # NoConn => StatusOf(t) # "nil"

(* The /start handler refuses "connection already started": a connection  *)
(* has at most one Start goroutine that has not returned.                 *)
AtMostOneStart ==
  \A o \in ConnIds :
    Cardinality({s \in StartIds : start[s].conn = o /\ StartRunning(s)}) <= 1

(* /stop sends on the stop channel only when the tenant's connection says *)
(* "started", and /start refuses to start it again: both take the status  *)
(* to mean a Start loop is running to take the token.  So the connection  *)
(* of a tenant whose status says started has a Start goroutine in its     *)
(* select loop.                                                           *)
StartedMeansRunning ==
  \A t \in Tenants :
    StatusOf(t) = "started" =>
      \E s \in StartIds : start[s].conn = connOf[t] /\ start[s].pc = "loop"

(* The NOTE at line 115: when Start returns, the Listen goroutine it       *)
(* spawned stops too.                                                      *)
ListenerEnds ==
  \A s \in StartIds :
    (start[s].pc = "done" /\ listener[s] \in {"set", "listening", "sending"})
      ~> listener[s] = "done"

====
