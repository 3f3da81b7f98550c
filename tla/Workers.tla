------------------------------ MODULE Workers ------------------------------
(***************************************************************************)
(* The task workers of the API server: src/unnamed/part_003 (package       *)
(* workers: NewWorkers, the asynq handlers, Init), src/api/workers/        *)
(* worker.go (HeartBeatWorker, CleanUpWorker) and the lines of the API's   *)
(* main that start them (src/api/services/namespace.go 418-479).           *)
(*                                                                         *)
(* Workers.Init makes one unbuffered channel per worker and runs each      *)
(* worker's Init loop on a goroutine of its own.  The asynq server runs    *)
(* the handlers on several goroutines (Concurrency: NumCPU): a handler     *)
(* sends the task on the worker's channel and blocks until the worker      *)
(* takes it.  Ten seconds after start main closes the heartbeat channel.   *)
(*                                                                         *)
(* The same process: main's signal goroutine cancels the context on        *)
(* SIGINT or SIGTERM; asynqScheduler then shuts the asynq server and the   *)
(* scheduler down, and startServer's closer goroutine closes the HTTP      *)
(* server, whose e.Start returns and ends the process.  Assumed of echo    *)
(* and net/http: e.Start after e.Close returns ErrServerClosed at once.    *)
(*                                                                         *)
(* Outside src/ and modelled from what the code asks of it: asynq (group   *)
(* aggregation, retries of a failed task up to MaxRetry and then the       *)
(* archive, the recovery of a panicking handler, the scheduler refusing a  *)
(* task whose TaskID is taken), the devices' heartbeat enqueue and the     *)
(* recording of session frames.  A device sends one heartbeat (bound);     *)
(* a payload line names the device it came from.  Time is counted in days, *)
(* the unit of SHELLHUB_RECORD_RETENTION.                                  *)
(***************************************************************************)
EXTENDS Integers, FiniteSets

CONSTANTS
  Devices,     \* devices that send a heartbeat
  Handlers,    \* asynq handler goroutines (Concurrency)
  Retention,   \* SessionRecordCleanupRetention, in days
  MaxDay,      \* bound: days the clock advances
  MaxRetry,    \* asynq's retry limit of a failed task
  StoreFails,  \* whether a store call may return an error
  BindFails,   \* whether e.Start may fail to listen on :8080
  MongoFails   \* whether mongo.Connect or mongo.NewStore may fail

ASSUME Retention \in Int /\ MaxDay \in Nat /\ MaxRetry \in Nat
ASSUME StoreFails \in BOOLEAN /\ BindFails \in BOOLEAN /\ MongoFails \in BOOLEAN

Days == 0 .. MaxDay

Idle == [kind |-> "idle", devs |-> {}, retried |-> 0]

VARIABLES
  phase,      \* the process: "boot", "running", "fatal" (log.Fatal on a
              \* MongoDB error), "crashed" (wrks.Init on nil) or "exited"
              \* (RunE returned)
  sig,        \* the sigs channel (capacity 1): "none", "queued", "taken"
  ctxDone,    \* cancel() was called
  main,       \* main in startServer: "setup", "start" (calling e.Start),
              \* "serving" (blocked in e.Start)
  closer,     \* startServer's goroutine waiting on ctx.Done was started
  httpClosed, \* e.Close was called
  asynq,      \* asynqScheduler: "running", "draining" (in srv.Shutdown),
              \* "srvdown", "stopped" (after scheduler.Shutdown)
  hbOpen,     \* Channels["heartbeat"] is open
  hbWorker,   \* HeartBeatWorker.Init: "ranging" or "exited"
  beaten,     \* devices whose heartbeat was enqueued
  group,      \* devices whose heartbeat task waits in the asynq group
  pending,    \* aggregated heartbeat tasks waiting for a handler
  archived,   \* heartbeat tasks asynq gave up on
  online,     \* devices DeviceSetOnline marked online
  cleanTask,  \* the scheduled TaskSessionCleanup task waits for a handler
  hand,       \* the task each handler goroutine runs
  now,        \* the day
  frames      \* days of the recorded session frames in the store

hb == <<hbOpen, hbWorker, beaten, group, pending, archived, online>>
cl == <<cleanTask, now, frames>>
life == <<sig, ctxDone, main, closer, httpClosed, asynq>>
vars == <<phase, sig, ctxDone, main, closer, httpClosed, asynq, hbOpen, hbWorker, beaten, group, pending, archived, online,
          cleanTask, hand, now, frames>>

Free(h) == hand' = [hand EXCEPT ![h] = Idle]

\* Goroutines run only while the process does.
Alive == phase = "running"

\* The asynq server fetches and aggregates tasks until srv.Shutdown.
Serving == Alive /\ asynq = "running"

\* Mutation of StartServer: the goroutine closing the server on ctx.Done
\* is written after the blocking e.Start, so it is never started.
StartServerNoCloser ==
  /\ main' = "start"
  /\ UNCHANGED <<sig, ctxDone, closer, httpClosed, asynq>>

\* startServer up to e.Start: Sentry, the locator, the service, the router
\* and its middleware, and the goroutine that waits on ctx.Done.  None of
\* it touches the workers, so it is taken in the step of main that starts
\* them.
StartServer ==
  /\ main' = "start" /\ closer' = TRUE
  /\ UNCHANGED <<sig, ctxDone, httpClosed, asynq>>

-----------------------------------------------------------------------------
(* main, after signal.Notify: the Redis cache's error is only logged and  *)
(* the API goes on without it; an error of mongo.Connect or of            *)
(* mongo.NewStore is log.Fatal, which exits the process.  NewWorkers'     *)
(* error is only logged; wrks.Init on a nil *Workers panics and ends the  *)
(* process (as log.Fatal does when the GeoIP locator fails).  Otherwise   *)
(* main starts the heartbeat timer and the signal goroutine, and runs     *)
(* startServer.                                                           *)

Boot ==
  /\ phase = "boot"
  /\ \/ MongoFails /\ phase' = "fatal" /\ UNCHANGED life
     \/ phase' = "crashed" /\ UNCHANGED life
     \/ phase' = "running" /\ StartServer
  /\ UNCHANGED <<hb, cl, hand>>

\* time.AfterFunc(10*time.Second, close(wrks.Channels["heartbeat"])).
CloseHeartbeat ==
  /\ phase = "running" /\ hbOpen
  /\ hbOpen' = FALSE
  /\ UNCHANGED <<phase, life, hbWorker, beaten, group, pending, archived, online, cl, hand>>

-----------------------------------------------------------------------------
(* Heartbeats.                                                             *)

\* A device's heartbeat, received by the HTTP server, enters its asynq group.
Heartbeat(d) ==
  /\ phase = "running" /\ ~httpClosed /\ d \notin beaten
  /\ beaten' = beaten \cup {d}
  /\ group' = group \cup {d}
  /\ UNCHANGED <<phase, life, hbOpen, hbWorker, pending, archived, online, cl, hand>>

\* GroupAggregator: one TaskHeartbeat whose payload has a line per task.
Aggregate ==
  /\ Serving /\ group # {}
  /\ pending' = pending \cup {[devs |-> group, retried |-> 0]}
  /\ group' = {}
  /\ UNCHANGED <<phase, life, hbOpen, hbWorker, beaten, archived, online, cl, hand>>

\* The TaskHeartbeat handler starts on an idle handler goroutine.
HeartbeatHandle(h) ==
  /\ Serving /\ hand[h] = Idle
  /\ \E t \in pending :
       /\ hand' = [hand EXCEPT ![h] = [kind |-> "heartbeat", devs |-> t.devs,
                                       retried |-> t.retried]]
       /\ pending' = pending \ {t}
  /\ UNCHANGED <<phase, life, hbOpen, hbWorker, beaten, group, archived, online, cl>>

\* One turn of HeartBeatWorker.Init's loop: parse the payload's lines into
\* ConnectedDevices and DeviceSetOnline them; a store error is only logged.
SetOnline(devs) ==
  \/ online' = online \cup devs
  \/ StoreFails /\ UNCHANGED online

\* tasks <- Task{...} on the open channel: the worker takes it, the handler
\* returns nil and asynq completes the task.
HeartbeatSend(h) ==
  /\ Alive /\ hand[h].kind = "heartbeat"
  /\ hbOpen /\ hbWorker = "ranging"
  /\ SetOnline(hand[h].devs)
  /\ Free(h)
  /\ UNCHANGED <<phase, life, hbOpen, hbWorker, beaten, group, pending, archived, cl>>

\* The send on the closed channel panics; asynq recovers it as an error and
\* retries the task, or archives it after MaxRetry retries.
HeartbeatPanic(h) ==
  LET t == hand[h] IN
  /\ Alive /\ t.kind = "heartbeat" /\ ~hbOpen
  /\ IF t.retried < MaxRetry
     THEN /\ pending' = pending \cup {[devs |-> t.devs, retried |-> t.retried + 1]}
          /\ UNCHANGED archived
     ELSE /\ archived' = archived \cup {t.devs}
          /\ UNCHANGED pending
  /\ Free(h)
  /\ UNCHANGED <<phase, life, hbOpen, hbWorker, beaten, group, online, cl>>

\* Mutation of HeartbeatWorkerExit: the worker returns after a task
\* instead of ranging until the channel is closed.
HeartbeatWorkerReturns ==
  /\ Alive /\ hbWorker = "ranging"
  /\ hbWorker' = "exited"
  /\ UNCHANGED <<phase, life, hbOpen, beaten, group, pending, archived, online, cl, hand>>

\* `for task := range tasks` ends once the channel is closed.
HeartbeatWorkerExit ==
  /\ Alive /\ hbWorker = "ranging" /\ ~hbOpen
  /\ hbWorker' = "exited"
  /\ UNCHANGED <<phase, life, hbOpen, beaten, group, pending, archived, online, cl, hand>>

-----------------------------------------------------------------------------
(* Session record cleanup.                                                 *)

\* Mutation of CleanupRegistered: the guard reads `<= 1`.
CleanupRegisteredOffByOne == Retention > 1

\* registerSessionCleanup aborts when the retention is below one day.
CleanupRegistered == Retention >= 1

\* The scheduler enqueues the task; its fixed TaskID refuses a second one
\* while the first waits or runs.
CleanupSchedule ==
  /\ Alive /\ asynq # "stopped" /\ CleanupRegistered
  /\ ~cleanTask /\ \A h \in Handlers : hand[h].kind # "cleanup"
  /\ cleanTask' = TRUE
  /\ UNCHANGED <<phase, life, hb, hand, now, frames>>

CleanupHandle(h) ==
  /\ Serving /\ hand[h] = Idle /\ cleanTask
  /\ hand' = [hand EXCEPT ![h] = [Idle EXCEPT !.kind = "cleanup"]]
  /\ cleanTask' = FALSE
  /\ UNCHANGED <<phase, life, hb, now, frames>>

\* Mutation of CleanUp: the retention is added to now instead of
\* subtracted.
CleanUpSignLost ==
  LET lte == now + Retention IN
  frames' = {f \in frames : f > lte}

\* One turn of CleanUpWorker.Init's loop: SessionDeleteRecordFrameByDate
\* with lte = now minus the retention.
CleanUp ==
  LET lte == now - Retention IN
  frames' = {f \in frames : f > lte}

\* tasks <- Task{}: the worker takes it and runs CleanUp; the handler
\* returns nil.  The store call may fail, and is then only logged.
CleanupRun(h) ==
  /\ Alive /\ hand[h].kind = "cleanup"
  /\ CleanUp
  /\ Free(h)
  /\ UNCHANGED <<phase, life, hb, cleanTask, now>>

CleanupRunFails(h) ==
  /\ Alive /\ StoreFails /\ hand[h].kind = "cleanup"
  /\ Free(h)
  /\ UNCHANGED <<phase, life, hb, cl>>

\* The session recorder stores a frame of today through the HTTP server.
Record ==
  /\ phase = "running" /\ ~httpClosed /\ now \notin frames
  /\ frames' = frames \cup {now}
  /\ UNCHANGED <<phase, life, hb, cleanTask, now, hand>>

\* Days pass while the API runs; its shutdown takes seconds.
Tick ==
  /\ Alive /\ ~ctxDone /\ now < MaxDay
  /\ now' = now + 1
  /\ UNCHANGED <<phase, life, hb, cleanTask, frames, hand>>

-----------------------------------------------------------------------------
(* The end of the process: main's signal goroutine, startServer, and the    *)
(* shutdown of asynqScheduler.                                             *)

\* signal.Notify into the buffered sigs channel; a signal finding it full
\* is dropped.
Signal ==
  /\ phase \in {"boot", "running"} /\ sig = "none"
  /\ sig' = "queued"
  /\ UNCHANGED <<phase, ctxDone, main, closer, httpClosed, asynq, hb, cl, hand>>

\* The goroutine started after the heartbeat timer: sig := <-sigs; cancel().
Cancel ==
  /\ Alive /\ sig = "queued"
  /\ sig' = "taken" /\ ctxDone' = TRUE
  /\ UNCHANGED <<phase, main, closer, httpClosed, asynq, hb, cl, hand>>

\* err = e.Start(":8080"): ErrServerClosed at once after e.Close, a listen
\* error, or serving.  Either error is only logged, startServer returns
\* nil and so does RunE: the process exits.
EStart ==
  /\ Alive /\ main = "start"
  /\ \/ httpClosed /\ phase' = "exited" /\ UNCHANGED main
     \/ ~httpClosed /\ BindFails /\ phase' = "exited" /\ UNCHANGED main
     \/ ~httpClosed /\ main' = "serving" /\ UNCHANGED phase
  /\ UNCHANGED <<sig, ctxDone, closer, httpClosed, asynq, hb, cl, hand>>

\* The closer goroutine: <-ctx.Done(); e.Close().
EClose ==
  /\ Alive /\ closer /\ ctxDone /\ ~httpClosed
  /\ httpClosed' = TRUE
  /\ UNCHANGED <<phase, sig, ctxDone, main, closer, asynq, hb, cl, hand>>

\* e.Start returns ErrServerClosed once the server is closed.
ServeReturns ==
  /\ Alive /\ main = "serving" /\ httpClosed
  /\ phase' = "exited"
  /\ UNCHANGED <<life, hb, cl, hand>>

\* asynqScheduler: <-ctx.Done(); srv.Shutdown() stops fetching tasks ...
SrvShutdownBegin ==
  /\ Alive /\ ctxDone /\ asynq = "running"
  /\ asynq' = "draining"
  /\ UNCHANGED <<phase, sig, ctxDone, main, closer, httpClosed, hb, cl, hand>>

\* ... and returns once the handlers in flight have returned.
SrvShutdownEnd ==
  /\ Alive /\ asynq = "draining" /\ \A h \in Handlers : hand[h] = Idle
  /\ asynq' = "srvdown"
  /\ UNCHANGED <<phase, sig, ctxDone, main, closer, httpClosed, hb, cl, hand>>

\* scheduler.Shutdown(): no more cleanup tasks are enqueued.
SchedulerShutdown ==
  /\ Alive /\ asynq = "srvdown"
  /\ asynq' = "stopped"
  /\ UNCHANGED <<phase, sig, ctxDone, main, closer, httpClosed, hb, cl, hand>>

-----------------------------------------------------------------------------

Init ==
  /\ phase = "boot"
  /\ sig = "none" /\ ctxDone = FALSE /\ main = "setup" /\ closer = FALSE
  /\ httpClosed = FALSE /\ asynq = "running"
  /\ hbOpen = TRUE /\ hbWorker = "ranging"
  /\ beaten = {} /\ group = {} /\ pending = {} /\ archived = {} /\ online = {}
  /\ cleanTask = FALSE
  /\ hand = [h \in Handlers |-> Idle]
  /\ now = 0 /\ frames = {}

\* The process ended: log.Fatal, the panic of wrks.Init, or RunE returning.
Halted == phase \in {"fatal", "crashed", "exited"} /\ UNCHANGED vars

\* The clock at its bound with no task waiting or running: the workers
\* idle until a heartbeat or a recording comes.
Quiet ==
  /\ now = MaxDay /\ group = {} /\ pending = {} /\ ~cleanTask
  /\ \A h \in Handlers : hand[h] = Idle
  /\ UNCHANGED vars

Next ==
  \/ Boot \/ CloseHeartbeat \/ Aggregate \/ HeartbeatWorkerExit
  \/ \E d \in Devices : Heartbeat(d)
  \/ \E h \in Handlers :
       \/ HeartbeatHandle(h) \/ HeartbeatSend(h) \/ HeartbeatPanic(h)
       \/ CleanupHandle(h) \/ CleanupRun(h) \/ CleanupRunFails(h)
  \/ CleanupSchedule \/ Record \/ Tick
  \/ Signal \/ Cancel \/ EStart \/ EClose \/ ServeReturns
  \/ SrvShutdownBegin \/ SrvShutdownEnd \/ SchedulerShutdown
  \/ Halted \/ Quiet

(* Goroutines that are runnable run: the timer fires, asynq aggregates,   *)
(* schedules and hands out tasks, the worker goroutines take what is sent *)
(* to them, and main, the signal, closer and asynqScheduler goroutines    *)
(* take their next step.  Heartbeats, recordings and signals come from    *)
(* outside and need not happen.  A cleanup's store call that keeps being  *)
(* made eventually succeeds (strong fairness): the store does not fail    *)
(* for ever.                                                               *)
Spec ==
  /\ Init /\ [][Next]_vars
  /\ WF_vars(Boot) /\ WF_vars(CloseHeartbeat) /\ WF_vars(Aggregate)
  /\ WF_vars(HeartbeatWorkerExit) /\ WF_vars(CleanupSchedule) /\ WF_vars(Tick)
  /\ WF_vars(Cancel) /\ WF_vars(EStart)
  /\ WF_vars(EClose) /\ WF_vars(ServeReturns)
  /\ WF_vars(SrvShutdownBegin) /\ WF_vars(SrvShutdownEnd)
  /\ WF_vars(SchedulerShutdown)
  /\ \A h \in Handlers :
       /\ WF_vars(HeartbeatHandle(h)) /\ WF_vars(HeartbeatSend(h))
       /\ WF_vars(HeartbeatPanic(h))
       /\ WF_vars(CleanupHandle(h)) /\ SF_vars(CleanupRun(h))

-----------------------------------------------------------------------------
(* Properties.                                                             *)

(* Types, and: the heartbeat worker leaves its range loop only once the   *)
(* channel is closed, so no handler waits on a channel nobody reads.      *)
TypeOK ==
  /\ phase \in {"boot", "running", "fatal", "crashed", "exited"}
  /\ sig \in {"none", "queued", "taken"} /\ ctxDone = (sig = "taken")
  /\ main \in {"setup", "start", "serving"}
  /\ httpClosed \in BOOLEAN
  /\ asynq \in {"running", "draining", "srvdown", "stopped"}
  /\ hbOpen \in BOOLEAN /\ hbWorker \in {"ranging", "exited"}
  /\ {beaten, group, online} \subseteq SUBSET Devices
  /\ pending \subseteq [devs : SUBSET Devices, retried : 0 .. MaxRetry]
  /\ archived \subseteq SUBSET Devices
  /\ cleanTask \in BOOLEAN
  /\ hand \in [Handlers -> [kind : {"idle", "heartbeat", "cleanup"},
                            devs : SUBSET Devices, retried : 0 .. MaxRetry]]
  /\ now \in Days /\ frames \subseteq Days
  /\ hbWorker = "exited" => ~hbOpen

\* The API was told to stop, or has stopped: nothing more is promised.
Stopping == ctxDone \/ phase = "exited"

\* The retention promise, with the workers' clock and store.
Abstract == INSTANCE Retention WITH stopping <- Stopping

(* The workers keep the retention promise of Retention: CleanUpWorker     *)
(* deletes a frame only once it is Retention days old (the cutoff it      *)
(* computes from the clock when it takes the task, and the guard of       *)
(* registerSessionCleanup), and every older frame is eventually deleted   *)
(* unless the API is stopping: the scheduler, a handler goroutine and     *)
(* CleanUpWorker keep the cleanup going, whatever the heartbeat side does *)
(* with the shared handlers.                                               *)
ImplementsRetention == Abstract!Spec

(* Every enqueued heartbeat eventually marks its device online, unless   *)
(* the API is stopping: what the comment of HeartBeatWorker promises.    *)
HeartbeatApplied == \A d \in Devices : d \in beaten ~> (d \in online \/ Stopping)

(* NewWorkers failing is only logged as a warning: the API keeps running *)
(* without workers.                                                        *)
ServesWithoutWorkers == phase # "crashed"


(* A SIGINT or SIGTERM always ends the process, whenever it arrives: while *)
(* main connects to the stores or NewWorkers runs, before startServer has started its closer goroutine,   *)
(* between e.Close and e.Start, or while the server is serving.           *)
SignalEndsProcess == sig # "none" ~> phase \in {"fatal", "crashed", "exited"}

====
