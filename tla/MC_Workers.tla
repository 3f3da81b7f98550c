----------------------------- MODULE MC_Workers -----------------------------
(***************************************************************************)
(* Model values and bounds for Workers.                                    *)
(***************************************************************************)
EXTENDS Workers

CONSTANTS d1, d2, h1, h2

MCDevices == {d1, d2}
MCHandlers == {h1, h2}

=============================================================================
