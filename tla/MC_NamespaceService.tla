------------------------ MODULE MC_NamespaceService ------------------------
(***************************************************************************)
(* Model values and bounds for NamespaceService.                           *)
(***************************************************************************)
EXTENDS NamespaceService, TLC

CONSTANTS u1, u2, u3, t1, t2, t3, n1, n2, r1, r2, r3

MCUsers == {u1, u2, u3}
MCTenants == {t1, t2, t3}
MCNames == {n1, n2}
MCReqs == {r1, r2, r3}
MCTwoReqs == {r1, r2}

\* auth.Role (pkg/api/auth, outside src/): the role codes and
\* HasAuthority, "greater or equal authority, never over the owner".
RoleCode == [owner |-> 4, administrator |-> 3, operator |-> 2, observer |-> 1]

MCHasAuthority(active, passive) ==
  passive # "owner" /\ RoleCode[active] >= RoleCode[passive]

MCSymmetry ==
  Permutations(MCUsers) \cup Permutations(MCTenants)
    \cup Permutations(MCNames) \cup Permutations(MCReqs)

=============================================================================
