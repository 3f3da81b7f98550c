\* Every endpoint, goroutine step and blocking point of the connector with
\* one tenant, four requests and two Start goroutines.
CONSTANTS
  o1 = o1  o2 = o2  o3 = o3  o4 = o4  s1 = s1  s2 = s2
  r1 = r1  r2 = r2  r3 = r3  r4 = r4
  Tenants = {t1}
  ConnIds <- MCConnIds
  StartIds <- MCStartIds
  Reqs <- MCReqs
SYMMETRY MCSymmetry
INIT Init
NEXT Next
INVARIANT TypeOK
