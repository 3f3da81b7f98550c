\* The public-key callback with at most one device rename during the
\* handshake: a single rename can only make the lookup fail, so every
\* accepted ordinary key is authorized on the device the client named.
CONSTANTS
  d1 = d1
  d2 = d2
  Devices <- MCDevices
  Names = {n1, n2, n3}
  Keys <- MCKeys
  Magic = magic
  Registered <- MCRegistered
  Allowed <- MCAllowed
  MaxRenames = 1
SPECIFICATION Spec
INVARIANTS TypeOK KeyAuthorizedForTarget
