# TLA+ models of the ShellHub SSH gateway and its services

This directory holds TLA+ models of the code under `src/`, the TLC configurations that check them, and `PROJECT.json`. `PROJECT.json` records:

- every component;
- every run with its expected result;
- the mutants that show each property can fail;
- the source lines each definition models;
- the findings;
- the hazards of the code.

## The system

The core is the SSH gateway (`src/ssh/server/handler/publickey.go`). An SSH client connects to it. gliderssh then calls the **authenticator** `PublicKey` with each key the client presents. The authenticator resolves the login identifier to a device through the internal API (`src/unnamed/part_002` is part of that client). It then accepts one of two kinds of key:

- the process-wide magic key;
- a key the API both knows for the device's tenant and evaluates as allowed.

Once the handshake succeeds, a session object is stored in the connection context. It holds the pty dimensions, the agent connection and the agent's global request channel.

For each `session` channel the client opens, gliderssh runs the **channel broker**, `DefaultSessionHandler`, in a goroutine of its own. The broker does two things before its main loop:

- it accepts the client channel;
- it opens a paired channel on the agent's reverse connection.

It then loops on a `select` over four sources:

- the connection context;
- the agent's global requests, which are shared by all channels of the connection;
- the client's channel requests;
- the agent's channel requests.

Requests go both ways, and a forwarded request with want-reply blocks the loop until the peer answers.

The loop handles the request types like this:

- **shell, exec and subsystem** start at most one **data pipe** goroutine per channel.
- **pty-req and window-change** update the shared `sess.Pty`.
- **keepalive** global requests call the API.
- **Every return** runs the deferred closes and `sess.Finish`.

Around the gateway, the repository also contains:

- **API server main and namespace services** (`src/api/services/namespace.go`): namespace CRUD and member and role management over a store.
- **Asynq task workers** (`src/unnamed/part_003`, `src/api/workers/worker.go`): heartbeat batching and session-record cleanup.
- **Role permission tables** (`src/api/pkg/guard/permissions.go`).
- **Docker connector** (`src/unnamed/part_000`): an HTTP service that connects to a Docker engine and starts or stops a listener per tenant.
- **UI auth store** (`src/ui/src/store/modules/auth.ts`): a Vuex module.
- **Scripts, request structs, a migration and a route file.**

## Inventory

| Component | State | Operations | Hard behaviour |
|---|---|---|---|
| Channel broker (`publickey.go` 194–424) | Per channel: the handler's position, the client and agent channels, the `started` flag, the request queues and the request a send is blocked on. Per connection: `sess.Pty`, the global request queue, the context, `conn` closed, the count of `Finish` calls. | Setup (recover session, Accept, OpenChannel); one case per select source; the switch on the request type; the deferred teardown | Interleaving of several handlers on one session; blocking `SendRequest`; closes racing requests; reply errors |
| Authenticator (`publickey.go` 12–139) | Phase of the callback, identifier, key, name looked up, device found; the API's device names | Resolve target (NewTarget, SplitSSHID or GetDevice), DeviceLookup, magic check and GetPublicKey, EvaluateKey | The API's data changes between its calls; every error path must reject |
| Data pipe (`pipe`, not in `src/`) | Running pipes per channel | Start (by the broker), stop when a side closes | Must not finish the session itself |
| Docker connector (`part_000`) | Connections map; per connection `cli`, `status`, the `stop` channel of capacity 1, the `cherr` channel, the Start goroutine | /connect, /disconnect, /start, /stop, /ping; Start loop; Listen goroutine | Check-then-act on `status`; stale stop tokens; a blocked send on `cherr` |
| Task workers and API main (`part_003`, `worker.go`, `serverCmd` and `startServer`); the abstract retention promise in `Retention` | The heartbeat and cleanup channels (unbuffered), the asynq group, pending, retried and archived tasks, the handler goroutines, the devices marked online, the recorded frames, the signal channel, the context, the HTTP server, asynq's shutdown | NewWorkers and Init; GroupAggregator; the two handlers and their sends; HeartBeatWorker and CleanUpWorker loops; the cleanup scheduler; main closing the heartbeat channel after 10 s; the signal goroutine, e.Start and the closer goroutine; srv.Shutdown and scheduler.Shutdown | Send on a closed channel; nil workers; shared handler goroutines; a store error after the task completed; the retention cutoff; a signal at any point of startup; exit before the drain |
| Namespace services (`namespace.go` 1–388) | Namespaces with their members and roles | Create, delete, edit; add, remove and edit members | Check-then-act on names; role authority |
| UI auth store (`auth.ts`) | Vuex state and localStorage | login, loginToken, logout, MFA actions | Async actions interleave at each `await` |

## Modules

### SessionChannel

The abstract channel state machine of the design (spec 4.3). Its phases are awaiting-channel, paired, program-selected and closed.

- The program-selected phase is never left except by a close.
- Closed is terminal.

### SessionBroker and MC_SessionBroker

This is the channel broker. `Chans` is the set of session channels on one connection. Each handler's position is in `hpc` and is one of:

- new;
- loop;
- awaitAgent: blocked in `agent.SendRequest`;
- awaitClient: blocked in `client.SendRequest`;
- done.

Each select case is an action:

- `OnCancel`
- `OnGlobalClosed`
- `OnKeepAlive`
- `OnOtherGlobal`
- `OnClientClosed`
- `ForwardClient`
- `OnAgentClosed`
- `ForwardAgent`

Each return from a blocking send is also an action: `AgentAnswers`, `AgentSendFails`, `ClientAnswers` and `ClientSendFails`.

The request switch is `HandleClientRequest`, with one operator per case: `ProgramBranch`, `PtyBranch`, `WindowBranch` and `OtherBranch`. It runs in the same step as the answer that ends the send. `Return` is every `return`, including its deferred calls, which run in LIFO order.

The client, the agent and the context are the environment. They can:

- send bounded numbers of requests;
- close at any time;
- drop the agent connection, which closes the global request channel and every agent channel;
- cancel the context.

A payload of a pty request is modelled as what `gossh.Unmarshal` leaves in the struct: the decoded fields, and whether an error was returned. `AgentDecides` is the agent's side of RFC 4254 6.5: a compliant agent starts at most one program per channel.

Every client request is forwarded to the agent before the switch reads `started`. A refused first program request still sets `started` and starts a pipe. A later program request that the agent starts is then answered false to the client. TLC finds this with want-reply requests only. No spec or comment of the repository says what the answer should be, so it is a hazard in `PROJECT.json` and no run checks it.

The broker is shown to implement `SessionChannel`. The refinement mapping `ChannelPhase` gives the abstract phase of each channel:

- closed once the handler returned;
- program-selected once `started` is set;
- paired while both channels are open;
- awaiting otherwise.

### Authenticator and MC_Authenticator

This is the public-key callback. Each API call is its own action, in code order:

1. `Resolve`: the context user, NewTarget, SplitSSHID, or GetDevice.
2. `Lookup`: DeviceLookup.
3. `Check`: the magic key, or GetPublicKey.
4. `Evaluate`: EvaluateKey.

Each action has its own error and rejection disjuncts. The environment action `Rename` renames a device to a free name of its namespace, up to `MaxRenames` times.

The MC module has two devices and three names, so that a rename is possible. It has four keys:

- k1, registered and allowed on d1;
- k2, registered but allowed nowhere;
- k3, unknown;
- the magic key.

### Connector and MC_Connector

This is the Docker connector service (`src/unnamed/part_000`). Its state is:

- `connOf`: the connections map from tenant to connection object.
- Per object: its `status`, and `stopBuf`, the number of tokens in the `stop` channel, which has capacity 1.
- `start`: the Start goroutines, each with its connection and position (`ping`, `loop` or `done`).
- `listener`: the Listen goroutine of each Start goroutine, with its position. `sending` means blocked on the unbuffered `cherr`.
- `req`: the HTTP request goroutines, with the endpoint, the tenant, the object and the position.

Each endpoint is an action (`ConnectLookup`, `ConnectStore`, `DisconnectEp`, `StartEp`, `StopEp`, `PingEp`), and so is each step of the goroutines:

- `StartPing`, `StartOnErr` and `StartOnStop` for the Start loop;
- `ListenerSetsStarted`, `ListenerFails` and `ListenerReturns` for Listen.

`Stop` is the send on `stop`. It either puts the token or blocks (`BlockOnStop`); a blocked request resumes in `StopUnblocks` when a Start loop takes the token. A blocked goroutine is a state in which none of its actions is enabled. `StatusOf` is `GetStatus`, which answers `"nil"` for an unknown tenant.

### NamespaceService and MC_NamespaceService

This models the namespace services (`src/api/services/namespace.go`) over the store interface (`src/api/store/namespace.go`). The store is:

- `live`: the namespaces;
- `nsName` and `owner` of each namespace;
- `members`: a set of `<<ID, Role>>` entries per namespace;
- `record`: the session-record setting of each namespace.

Each HTTP request is a process whose steps are its store calls, since Echo serves each request on a goroutine of its own:

- CreateNamespace: `CreateLimit` (UserGetByID and the MaxNamespaces check), `CreateByName`, `CreateStore`. The tenant ID is the request's when it gives one, and a fresh `uuid.Generate` otherwise.
- DeleteNamespace: `DeleteGet`, `DeleteStore`.
- EditNamespace: `EditNamespace`, which sets the name and the session-record setting when the request gives them.
- EditSessionRecordStatus: `EditSessionRecordStatus`.
- AddNamespaceUser: `AddRead` (NamespaceGet, the user reads, both FindMember checks, HasAuthority), then `AddWrite`.
- RemoveNamespaceUser and EditNamespaceUser: `RemoveRead` and `EditMemberRead`, which share `MemberActRead`, then `RemoveWrite` and `EditMemberWrite`.

No request changes the users collection, so the user reads are merged with the namespace read they follow. Inputs are what the request structs of `src/pkg/api/requests/namespace.go` let through. A new role is one of `RoleBody`: administrator, operator or observer.

Some pieces are outside `src/`; they are parameters or assumptions:

- `HasAuthority`. The MC module gives it ShellHub's definition: equal or greater role code, and never over the owner.
- The route guard. It is modelled as the requester's role holding the permission in the tables of `src/api/pkg/guard/permissions.go`. The four tables (`observerPermissions`, `operatorPermissions`, `adminPermissions`, `ownerPermissions`) are translated entry for entry, as sets of permission names. Only their namespace entries guard a modelled request. `BillingGetPaymentMethod` is declared but is in no table, so no role holds it.
- `user.Namespaces`, which the store maintains. It is modelled as the number of namespaces the user owns.
- `NamespaceAddMember`. It is modelled as adding an entry `<<ID, Role>>`, as its interface suggests.
- `NamespaceCreate` on a tenant ID a namespace already has fails (a unique index on the tenant). `NamespaceEdit` leaves a field the request omits.

### Workers and MC_Workers

`Workers` models the API's task workers (`part_003`, `worker.go`), composed with the API command that runs them and ends them (`serverCmd` and `startServer` in `namespace.go`). They share one process: when main returns, every goroutine stops.

- `Init` is the state after `Workers.Init` and `asynqScheduler`: both channels are open, both worker goroutines range over their channel, and every handler goroutine is idle.
- `Boot` is main from `signal.Notify` to `e.Start`. A Redis cache error is only logged, and the API goes on without the cache. An error of `mongo.Connect` or `mongo.NewStore` is `log.Fatal`, which leads to `fatal` when `MongoFails` holds. The error of `NewWorkers` is only logged, and then `wrks.Init` on the nil pointer panics, which leads to `crashed`. Otherwise `Boot` leads to `running`. On `running` it also takes `StartServer`: the setup of `startServer` and the start of its closer goroutine. That setup touches no worker state, so it needs no step of its own.
- `CloseHeartbeat` is the `time.AfterFunc` that closes `Channels["heartbeat"]` after ten seconds.
- Heartbeats:
  - `Heartbeat(d)`, outside `src/`, puts a device's task in its asynq group. Each device sends one heartbeat (a bound).
  - `Aggregate` is the `GroupAggregator`: one task holds every waiting line. A line stands for its device; the text format is not modelled.
  - `HeartbeatHandle(h)` starts the handler on an idle asynq goroutine.
  - `HeartbeatSend(h)` is `tasks <- Task{...}` on the open channel. The worker takes it and runs `SetOnline`, its loop body. `DeviceSetOnline` may fail; the error is only logged.
  - `HeartbeatPanic(h)` is the same send on the closed channel. asynq recovers the panic as an error and retries the task, or archives it after `MaxRetry` retries.
  - `HeartbeatWorkerExit` is the `range` loop ending once the channel is closed.
- Cleanup:
  - `CleanupRegistered` is the guard of `registerSessionCleanup`: nothing is registered when the retention is below one.
  - `CleanupSchedule` is the scheduler enqueuing the task. Its fixed TaskID refuses a second task while one waits or runs.
  - `CleanupHandle(h)` and `CleanupRun(h)` are the handler and its send. `CleanUp` is CleanUpWorker's loop body, which deletes the frames at or before `now - Retention`. `CleanupRunFails(h)` is that store call failing.
  - `Record`, outside `src/`, stores a frame of today, and `Tick` advances the day.
- The end of the process:
  - `Signal` is a SIGINT or SIGTERM put into the buffered `sigs` channel. `Cancel` is the signal goroutine taking it and calling `cancel()`.
  - `EStart` is `e.Start(":8080")`. It returns `ErrServerClosed` at once if `e.Close` already ran; this is net/http's shutdown flag, assumed. It fails to listen when `BindFails` holds, or it serves. Each error is only logged, `startServer` returns nil, and the process exits.
  - `EClose` is the closer goroutine calling `e.Close()` after `ctx.Done`. `ServeReturns` is the serving `e.Start` then returning.
  - `SrvShutdownBegin` and `SrvShutdownEnd` are `asynqScheduler`'s `srv.Shutdown()`. It stops fetching and aggregating tasks, then returns once the handlers in flight have returned. `SchedulerShutdown` follows it; until then the scheduler still enqueues cleanups.
  - Heartbeats and recordings arrive through the HTTP server, so they stop at `e.Close`. The day clock stops at the cancel: a shutdown takes seconds.
- `Halted` is the process after the crash or the exit. `Quiet` is the clock at its bound with no task waiting or running.

The asynq parts are modelled from what the code asks of asynq. `srv.Shutdown`'s timeout is left out: every in-flight handler can always finish, since the send succeeds while the channel is open and panics once it is closed.

Nothing makes main wait for `asynqScheduler`. The process can exit while `srv.Shutdown` is still draining, after a signal or after a failed listen. This is a hazard in `PROJECT.json`.

### Retention

`Retention` is what the session-record cleanup promises, apart from the workers that keep it. Its state is the stored frames, the day, and whether the API is stopping.

- `Record` and `Tick` store a frame of today and advance the day.
- `Delete(F)` deletes any non-empty set of frames that are at least `Retention` days old.
- `Stop` marks the API as stopping.
- Weak fairness on `Purge(f)` says that, while the API runs, an expired frame is eventually deleted.

`Workers` instantiates it as `Abstract`. `frames` and `now` map to themselves, and `stopping` maps to `Stopping`: the context is cancelled or the process has exited. `ImplementsRetention == Abstract!Spec` is checked as a property. Each `CleanUp` step is a `Delete` of the frames at or before the cutoff. It is a stutter when no frame is that old. `Record` and `Tick` of the workers are those of `Retention`. `Cancel`, and the exits of `EStart` and `ServeReturns`, are `Stop` steps. Every other step of the workers is a stutter of `Retention`.

The retention stays at one day so that a `<= 1` slip in the guard of `registerSessionCleanup` unregisters the cleanup.

### AuthStore and MC_AuthStore

This is the auth module of the UI's Vuex store (`src/ui/src/store/modules/auth.ts`). JavaScript runs one callback at a time, so an async action is two atomic steps:

- a start step: the code before the `await`, which commits `authRequest` and issues the HTTP call;
- a resume step: the code after it, when the promise settles.

The steps are `LoginStart` and `LoginResume`, `LoginTokenStart` and `LoginTokenResume`, and `CallStart` with a resume per action (`DisableMfaResume`, `EnableMfaResume`, `ValidateMfaResume`, `RecoverLoginMfaResume`, `GenerateMfaResume`, `GetUserInfoResume`). The synchronous actions `Logout`, `ChangeUserData` and `SetShowWelcomeScreen` are single steps. Calls in flight settle in any order.

Every field holds the user its data belongs to, or `None`:

- the token;
- the user fields (user, name, tenant, email and role, which every mutation writes together);
- the id;
- the MFA secret, link and codes.

`ls` is localStorage. Its `welcome` field is `namespacesWelcome`: `Absent`, or the tenants of its JSON object. `SetShowWelcomeScreen` throws on an absent item, because `JSON.parse("")` fails before the `|| {}` fallback, so it is enabled only when the item is there. The modal flags that the MFA actions toggle are left out, since no property reads them. The HTTP layer is outside `src/`; it sends the token from localStorage, so a call is answered for that user.

## Runs

| Run | cfg | Expect | What it shows |
|---|---|---|---|
| broker_safety | SessionBroker.cfg | pass | `TypeOK`, which includes: a channel gets at most one pipe goroutine. Its mutant drops `started = true` from the program case. `ImplementsSessionChannel`: the handler refines the design's state machine. |
| broker_liveness | SessionBrokerLive.cfg | pass | `TeardownCompletes`: once the context is cancelled, every handler returns and every pipe ends. |
| broker_wantreply | SessionBrokerWantReply.cfg | violation | `AgentProgramHasPipe`: the agent runs a shell requested without want-reply, but no pipe starts and `started` stays false. |
| broker_two_channels | SessionBrokerTwoChannels.cfg | violation | `FinishAtMostOnce`: two channels on one connection call `sess.Finish` twice. |
| auth_single_rename | Authenticator.cfg | pass | `TypeOK`. `KeyAuthorizedForTarget`: with at most one rename, every accepted ordinary key is registered and allowed on the device the client named. |
| auth_rename_swap | AuthenticatorSwap.cfg | violation | `KeyAuthorizedForTarget`: two renames between GetDevice and DeviceLookup make k1 accepted for a login referencing d2. |
| connector_safety | Connector.cfg | pass | `TypeOK`, which includes: a tenant in the connections map never has the status `"nil"`, whatever the order of /connect and /disconnect requests. |
| connector_listener_leak | ConnectorListener.cfg | violation | `ListenerEnds`: a Listen goroutine that fails after its Start returned on a stop stays blocked on `cherr` forever. |
| ns_safety | NamespaceService.cfg | pass | `TypeOK`, which includes: a deleted namespace has no owner and no members, over every interleaving of two requests. `RolesNested`: between any two members of a namespace, the one of the higher role holds every permission of the other in the hand-kept tables. The mutant drops `DeviceAccept` from the administrator table. It is caught once a request has made someone an operator. |
| ui_auth_store | AuthStore.cfg | pass | `TypeOK`. `NoMixedIdentity`: over any order in which three calls start and settle, with logouts between, the user fields and the id never describe two users. `LoginSettles`: the status always leaves `"loading"`. |
| workers_safety | Workers.cfg | pass | `TypeOK`, which includes: the heartbeat worker leaves its loop only once the channel is closed. `ImplementsRetention`: the workers implement `Retention`. A frame is deleted only once it is `Retention` days old. Every older frame is eventually deleted unless the API is stopping, while heartbeat tasks occupy and release the shared handler goroutines. A mutant that adds the retention to the cutoff breaks the safety part. A mutant whose guard reads `<= 1` breaks the liveness part. `SignalEndsProcess`: a SIGINT or SIGTERM ends the process wherever it meets main. That can be during `NewWorkers`, between `e.Close` and `e.Start`, or while serving. Its mutant starts the closer goroutine after the blocking `e.Start`. |
| workers_heartbeat_closed | WorkersHeartbeat.cfg | violation | `HeartbeatApplied`: after main closes the heartbeat channel, an enqueued heartbeat never marks its device online, though the API is not stopping. |

Eleven more properties are stated in the modules and are violated by the code. No run lists them. Each violation but the last reproduces by checking the property alone under the pass run's cfg:

- `ZeroDimensionsIgnored` (SessionBroker.cfg, as a PROPERTY): a zero pty-req or window-change field overwrites the stored dimension.
- `AtMostOneStart` (Connector.cfg): two /start requests on one connection both start a Start goroutine.
- `MemberOnce` (NamespaceService.cfg): two concurrent AddNamespaceUser calls for one user both pass the duplicate check.
- `ServesWithoutWorkers` (Workers.cfg, as its only INVARIANT): when NewWorkers fails, main only logs a warning and then panics in `wrks.Init`.
- `StartedMeansRunning` (Connector.cfg): a stale stop token leaves a tenant `started` with no Start loop.
- `UniqueNames` (NamespaceService.cfg): EditNamespace, or two concurrent creations, give two namespaces one name.
- `WithinLimit` (NamespaceService.cfg with `MaxNamespaces = 2`): two concurrent creations overrun the limit.
- `SessionIsolation` (AuthStore.cfg, as its only INVARIANT and with no PROPERTY): the logout mutation leaves `state.id` and the MFA secret and recovery codes of the previous user.
- `WelcomeReadable` (AuthStore.cfg, as its only INVARIANT and with no PROPERTY): a getUserInfo started before a logout shows the user again after namespacesWelcome was removed, so setShowWelcomeScreen throws.
- `ReloadConsistent` (the same way): a failed loginToken leaves its token in localStorage beside the previous user, so a reload mixes them.
- `OwnerKept` (NamespaceService.cfg with three requests, restricted to the three of the trace): the owner's remove of the administrator reads and passes. The owner deletes the namespace, and the administrator creates it again under the same tenant ID. The stale remove then pulls the new owner. Over two requests it holds, but only the HasAuthority guard is exercised. Over all three-request interleavings TLC does not finish in fifteen minutes.

### Bounds

The safety run uses one channel with these bounds:

- three client requests, so that a pty-req and two program requests, or a program request, its repeat and a window-change, all fit;
- one agent request;
- one global request, either a keepalive or another type.

`ProgramTypes` is `{"shell"}`. Shell, exec and subsystem take the same branch; only `Announce`, which is not modelled, differs.

The pty payloads are:

- a well-formed 80×24;
- a malformed all-zero payload.

The window-change payload is 100×0.

The liveness run uses two client requests, which is enough for a blocked want-reply send and a program start before a cancel.

Two channels are used only where the question is the sharing between handlers. The safety properties are per channel, and the handlers share nothing else but `sess.Pty`, the global requests and `conn`.

For the authenticator, `MaxRenames = 1` is the largest bound under which the property holds. A single rename can only make the lookup fail. It takes a swap, two renames, to misdirect it.

The connector runs use one tenant, four request goroutines, four connection objects and two Start goroutines. That is enough for:

- a /connect, a /start, a /stop and a second /start or /disconnect to interleave;
- a second Start loop to run on the same connection.

Every request takes a fresh object: `ConnIds` holds one per request. The safety runs use symmetry over objects, goroutines and requests. The liveness run uses three requests (connect, start, stop) and no symmetry. Five requests and three Start goroutines take more than ten minutes.

The namespace runs use three users, three tenants, two names and two concurrent requests. The store starts with one namespace: an owner and one administrator. Two requests are the least that can interleave, and each checked property here is about a pair of requests. A three-request run over every request does not finish in fifteen minutes (12 million states at depth 7).

The UI store run uses two users, one with MFA, and three calls. That allows a login, an MFA or info call of that user, and a login of the other user to be in flight together, with any number of logouts between them. Calls are not reused: a page lifetime has three.

The workers run uses two devices, two handler goroutines, a retention of one day over the days 0 to 2, one retry, store calls that may fail, a listen that may fail, and one signal at any point. A signal can come in any state of the workers, which multiplies the states by eight. Three days keep the run near 330,000 states and forty seconds. Three days are enough for:

- a frame younger and one older than the retention at the time of a cleanup, and two expired frames deleted by one cleanup;
- both handlers held by heartbeat tasks, retried after the close, while a cleanup waits;
- a task retried and then archived;
- the signal before the closer goroutine, between `e.Close` and `e.Start`, and while serving, with handlers in flight during `srv.Shutdown`.

The heartbeat violation run stops the clock at day 0 and turns off store failures, so that its counterexample is the channel close alone.

### Fairness

Go's `select` chooses uniformly at random among ready cases. A case that is ready infinitely often is therefore eventually taken, so the closing cases get strong fairness:

- `OnCancel`
- `OnGlobalClosed`
- `OnClientClosed`
- `OnAgentClosed`

Weak fairness covers four things:

- the goroutine's prologue (`Setup`);
- a blocked `SendRequest` returning, since the SSH peers answer or close;
- a pipe goroutine returning once its transport is closed;
- nothing of the environment, which may stop at any point.

In the connector, `ListenerEnds` is checked under this fairness:

- weak fairness for `ConnectStore` (the engine answers the connect), for Start's ping, and for the Listen goroutine's steps;
- strong fairness for the two cases of Start's `select` and for a blocked `Stop` send, since the partner of a channel operation may become ready and unready again.

The violation needs no unfairness: in the trace no action of the blocked goroutine is ever enabled again.

In the UI store, each call's resume step has weak fairness. Axios settles every promise it returns, by resolving or rejecting it. Logouts and the start of new calls are the user's choice, so they get no fairness.

In the workers, these steps are weakly fair: the timer, the asynq aggregation, scheduling and handing out of tasks, the handler sends, the worker's loop exit, the clock, and the steps of main, the signal goroutine, the closer goroutine and `asynqScheduler`. Goroutines that can run do run, and the timer fires. A cleanup's store call is strongly fair: a call made again and again eventually succeeds, since the store does not fail for ever. Heartbeats, recordings and signals come from outside and get no fairness.

## Findings

`PROJECT.json` lists five findings:

- **Program request without want-reply.** Such a request is forwarded, but the code neither marks the channel started nor starts a pipe (`publickey.go:308`). The design says it does both.
- **`sess.Finish` on several channels.** Every session channel's handler defers `sess.Finish` and `conn.Close` on the one session (`publickey.go:201`, 210).
- **Second lookup by name.** For a direct device reference, the authenticator looks the device up a second time by name (`publickey.go:85`). A concurrent rename can then make it evaluate the key on another device.
- **Listen goroutine leak.** After Start returns on a stop, Listen's `cherr <- err` blocks forever (`part_000:117`). The NOTE at line 115 says listening stops.
- **Heartbeat channel closed.** main closes the heartbeat channel ten seconds after start (`namespace.go:466`). The heartbeat worker stops, and every later heartbeat handler panics on its send, so no device is marked online again.

Two earlier findings now appear only as hazards: the double /start (`part_000:308`) and the duplicate member (`namespace.go:250`, 258). The eleven violated properties listed under Runs are recorded as hazards in `PROJECT.json`.

## Not modelled yet, and the plan

The remaining modules, in order:

1. **A three-request namespace run** for the tenant reuse hazard. A member request is checked against a deleted namespace and written into its re-creation. The trace is known (`OwnerKept` above). A run over every request needs a run slot and a faster model.
2. **The workers' restart**: tasks left in Redis by a shutdown, and the cleanup's fixed TaskID met again by the next scheduler.

These are not modelled and are not planned:

- the HTTP routes, the migration, and the request structs other than the namespace validation tags used by NamespaceService (no behaviour);
- the shell scripts and the Dockerfile (process and file I/O);
- `Announce`, the data bytes of the pipe, and all logging.
