----------------------------- MODULE Retention -----------------------------
(***************************************************************************)
(* What the session-record cleanup of the API promises, apart from how    *)
(* the workers keep it (SHELLHUB_RECORD_RETENTION, src/unnamed/part_003   *)
(* registerSessionCleanup and src/api/workers/worker.go CleanUpWorker):   *)
(* a recorded frame is kept for Retention days; after that it may be      *)
(* deleted at any time, alone or with other old frames, and as long as    *)
(* the API is not stopping every old frame is eventually deleted.         *)
(*                                                                         *)
(* Workers implements this specification: see ImplementsRetention there.  *)
(***************************************************************************)
EXTENDS Integers

CONSTANTS
  Retention,  \* days a frame is kept
  MaxDay      \* bound: days the clock advances

VARIABLES
  frames,     \* days of the recorded frames still stored
  now,        \* the day
  stopping    \* the API was told to stop, or has stopped

vars == <<frames, now, stopping>>

Days == 0 .. MaxDay

\* The frames the policy allows to delete today.
Expired == {f \in frames : now - f >= Retention}

Init == frames = {} /\ now = 0 /\ stopping = FALSE

Record ==
  /\ now \notin frames
  /\ frames' = frames \cup {now}
  /\ UNCHANGED <<now, stopping>>

Tick ==
  /\ now < MaxDay
  /\ now' = now + 1
  /\ UNCHANGED <<frames, stopping>>

\* Some expired frames are deleted together.
Delete(F) ==
  /\ F # {} /\ F \subseteq Expired
  /\ frames' = frames \ F
  /\ UNCHANGED <<now, stopping>>

Stop ==
  /\ ~stopping
  /\ stopping' = TRUE
  /\ UNCHANGED <<frames, now>>

Next ==
  \/ Record \/ Tick \/ Stop
  \/ \E F \in SUBSET Expired : Delete(F)

\* A deletion that takes the expired frame f, while the API runs.
Purge(f) ==
  /\ ~stopping
  /\ \E F \in SUBSET Expired : f \in F /\ Delete(F)

(* Nothing forces frames to be recorded, days to pass or the API to stop; *)
(* an expired frame of a running API is eventually deleted.              *)
Spec == Init /\ [][Next]_vars /\ \A f \in Days : WF_vars(Purge(f))

====
