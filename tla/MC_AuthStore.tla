---------------------------- MODULE MC_AuthStore ----------------------------
(***************************************************************************)
(* Model values and bounds for AuthStore.                                  *)
(***************************************************************************)
EXTENDS AuthStore

CONSTANTS a, b, c1, c2, c3

MCIdents == {a, b}
MCMfaOn == {a}
MCCalls == {c1, c2, c3}

=============================================================================
