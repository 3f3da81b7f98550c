\* Types and the role tables, over two concurrent requests.
CONSTANTS
  u1 = u1  u2 = u2  u3 = u3
  t1 = t1  t2 = t2  t3 = t3
  n1 = n1  n2 = n2
  r1 = r1  r2 = r2  r3 = r3
  Users <- MCUsers
  Tenants <- MCTenants
  Names <- MCNames
  Reqs <- MCTwoReqs
  HasAuthority <- MCHasAuthority
  MaxNamespaces = 3
INIT Init
NEXT Next
SYMMETRY MCSymmetry
INVARIANTS TypeOK RolesNested
