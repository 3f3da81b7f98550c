\* Two users, one with MFA; three calls of any action in flight at once.
CONSTANTS
  a = a  b = b  c1 = c1  c2 = c2  c3 = c3
  Idents <- MCIdents
  MfaOn <- MCMfaOn
  Calls <- MCCalls
SPECIFICATION Spec
INVARIANTS TypeOK NoMixedIdentity
PROPERTY LoginSettles
