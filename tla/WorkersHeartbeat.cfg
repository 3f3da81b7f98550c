\* The heartbeat channel closed ten seconds after start: heartbeats enqueued
\* after it, or still in flight, never reach DeviceSetOnline.  Store calls
\* do not fail, so the close alone is to blame.
CONSTANTS
  d1 = d1  d2 = d2  h1 = h1  h2 = h2
  Devices <- MCDevices
  Handlers <- MCHandlers
  Retention = 1
  MaxDay = 0
  MaxRetry = 1
  StoreFails = FALSE
  BindFails = FALSE
  MongoFails = FALSE
SPECIFICATION Spec
PROPERTY
  HeartbeatApplied
