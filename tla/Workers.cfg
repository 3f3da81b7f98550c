\* Two devices, two handler goroutines, a one-day retention over three days,
\* one retry, and store calls that may fail.
CONSTANTS
  d1 = d1  d2 = d2  h1 = h1  h2 = h2
  Devices <- MCDevices
  Handlers <- MCHandlers
  Retention = 1
  MaxDay = 2
  MaxRetry = 1
  StoreFails = TRUE
  BindFails = TRUE
  MongoFails = TRUE
SPECIFICATION Spec
INVARIANTS
  TypeOK
PROPERTY
  ImplementsRetention
  SignalEndsProcess
