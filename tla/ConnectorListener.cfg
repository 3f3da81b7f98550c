\* The NOTE of Start (line 115): once Start returns, its Listen goroutine
\* ends.  Three requests (connect, start, stop), no symmetry (liveness).
CONSTANTS
  o1 = o1  o2 = o2  o3 = o3  o4 = o4  s1 = s1  s2 = s2
  r1 = r1  r2 = r2  r3 = r3  r4 = r4
  Tenants = {t1}
  ConnIds <- MCFewConnIds
  StartIds <- MCStartIds
  Reqs <- MCFewReqs
SPECIFICATION Spec
PROPERTY ListenerEnds
