-------------------------- MODULE MC_Authenticator --------------------------
(* Two devices of one namespace, three names so that a device can be      *)
(* renamed to a free one, a key registered and allowed on d1 only, a key  *)
(* registered and allowed nowhere, one unknown key and the magic key.     *)
EXTENDS Authenticator

CONSTANTS d1, d2

MCDevices    == {d1, d2}
MCKeys       == {"k1", "k2", "k3"}
MCRegistered == {"k1", "k2"}
MCAllowed    == {<<"k1", d1>>}

=============================================================================
