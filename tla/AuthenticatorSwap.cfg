\* Two renames inside the handshake (a swap of names) make DeviceLookup
\* return another device than the one GetDevice resolved by reference.
CONSTANTS
  d1 = d1
  d2 = d2
  Devices <- MCDevices
  Names = {n1, n2, n3}
  Keys <- MCKeys
  Magic = magic
  Registered <- MCRegistered
  Allowed <- MCAllowed
  MaxRenames = 2
SPECIFICATION Spec
INVARIANT KeyAuthorizedForTarget
