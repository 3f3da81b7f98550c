---------------------------- MODULE Authenticator ----------------------------
(***************************************************************************)
(* The public-key callback of the SSH server: PublicKey in                 *)
(* src/ssh/server/handler/publickey.go.  gliderssh calls it during the     *)
(* handshake for a presented key.  It resolves the login identifier to a   *)
(* device, through the internal API, and accepts the magic key or a key    *)
(* the API both knows for the device's tenant and evaluates as allowed.    *)
(*                                                                         *)
(* Every API call is a step of its own: the API's device table may change  *)
(* between two calls (a device renamed by a namespace administrator).      *)
(* The devices live in one namespace, whose names are unique.             *)
(***************************************************************************)
EXTENDS Naturals

CONSTANTS
  Devices,      \* device UIDs
  Names,        \* device names of the namespace
  Keys,         \* fingerprints of ordinary public keys
  Magic,        \* fingerprint of the process-wide magic key
  Registered,   \* keys GetPublicKey finds for the namespace's tenant
  Allowed,      \* <<key, device>> pairs EvaluateKey answers true for
  MaxRenames    \* bound: device renames during one handshake

ASSUME Magic \notin Keys
ASSUME Registered \subseteq Keys /\ Allowed \subseteq Keys \X Devices

NoDevice == "no-device"
NoName   == "no-name"

\* The login identifier, as target.NewTarget and SplitSSHID read it: a
\* direct device reference, a composite SSHID naming a device, an SSHID
\* SplitSSHID cannot split, an unparsable string, or no user in the context.
Identifiers ==
       [kind : {"ref"}, dev : Devices]
  \cup [kind : {"sshid"}, name : Names]
  \cup [kind : {"sshid-bad", "malformed", "missing"}]

Phases == {"start", "lookup", "check", "evaluate", "accepted", "rejected"}

VARIABLES
  apc,          \* where the callback is
  ident,        \* the login identifier of the handshake
  key,          \* fingerprint of the presented key
  lookupName,   \* the "name" of the lookup map passed to DeviceLookup
  device,       \* the device DeviceLookup returned
  devName,      \* the API's device table: name of each device
  renames       \* renames done so far

vars == <<apc, ident, key, lookupName, device, devName, renames>>

\* The device DeviceLookup finds under a name of the namespace.
Named(n) == {d \in Devices : devName[d] = n}

Reject == apc' = "rejected"

-----------------------------------------------------------------------------
(* Target resolution: user from the context, NewTarget, SplitSSHID, or     *)
(* GetDevice by reference; the result is the name to look up.              *)

Resolve ==
  /\ apc = "start"
  /\ \/ /\ ident.kind \in {"missing", "malformed", "sshid-bad"}
        /\ Reject /\ UNCHANGED lookupName
     \/ /\ ident.kind = "sshid"
        /\ lookupName' = ident.name
        /\ apc' = "lookup"
     \/ /\ ident.kind = "ref"            \* GetDevice fails
        /\ Reject /\ UNCHANGED lookupName
     \/ /\ ident.kind = "ref"            \* GetDevice returns the device
        /\ lookupName' = devName[ident.dev]
        /\ apc' = "lookup"
  /\ UNCHANGED <<ident, key, device, devName, renames>>

\* Mutation of Lookup: a lookup that finds no device is not an error, and
\* the callback goes on with a nil device.
LookupIgnoresNotFound ==
  /\ apc = "lookup"
  /\ \/ Reject /\ UNCHANGED device
     \/ /\ Named(lookupName) = {}
        /\ device' = NoDevice
        /\ apc' = "check"
     \/ \E d \in Named(lookupName) : device' = d /\ apc' = "check"
  /\ UNCHANGED <<ident, key, lookupName, devName, renames>>

\* DeviceLookup(domain, name): an API error or no such device rejects.
Lookup ==
  /\ apc = "lookup"
  /\ \/ Reject /\ UNCHANGED device
     \/ /\ Named(lookupName) = {}
        /\ Reject /\ UNCHANGED device
     \/ \E d \in Named(lookupName) : device' = d /\ apc' = "check"
  /\ UNCHANGED <<ident, key, lookupName, devName, renames>>

\* The magic key is accepted here; any other key must be known to
\* GetPublicKey(fingerprint, device.TenantID).
Check ==
  /\ apc = "check"
  /\ \/ key = Magic /\ apc' = "accepted"
     \/ key # Magic /\ key \in Registered /\ apc' = "evaluate"
     \/ key # Magic /\ Reject            \* not found, or API error
  /\ UNCHANGED <<ident, key, lookupName, device, devName, renames>>

\* Mutation of Evaluate: `!ok && err != nil` in place of `!ok || err != nil`.
EvaluateAcceptsFalse ==
  /\ apc = "evaluate"
  /\ \/ apc' = "accepted"
     \/ Reject
  /\ UNCHANGED <<ident, key, lookupName, device, devName, renames>>

\* EvaluateKey(fingerprint, device, username): accept only on true, nil.
Evaluate ==
  /\ apc = "evaluate"
  /\ \/ <<key, device>> \in Allowed /\ apc' = "accepted"
     \/ Reject                           \* false, or API error
  /\ UNCHANGED <<ident, key, lookupName, device, devName, renames>>

-----------------------------------------------------------------------------
(* Environment: an administrator renames a device to a free name.          *)

Rename ==
  /\ renames < MaxRenames
  /\ \E d \in Devices, n \in Names :
       /\ Named(n) = {}
       /\ devName' = [devName EXCEPT ![d] = n]
  /\ renames' = renames + 1
  /\ UNCHANGED <<apc, ident, key, lookupName, device>>

Init ==
  /\ apc = "start"
  /\ ident \in Identifiers
  /\ key \in Keys \cup {Magic}
  /\ lookupName = NoName
  /\ device = NoDevice
  /\ devName \in {f \in [Devices -> Names] :
                    \A d, e \in Devices : d # e => f[d] # f[e]}
  /\ renames = 0

\* The callback has returned its answer to the handshake.
Decided ==
  /\ apc \in {"accepted", "rejected"}
  /\ UNCHANGED vars

Next == Resolve \/ Lookup \/ Check \/ Evaluate \/ Rename \/ Decided

Spec == Init /\ [][Next]_vars

-----------------------------------------------------------------------------
(* Properties.                                                             *)

TypeOK ==
  /\ apc \in Phases
  /\ ident \in Identifiers
  /\ key \in Keys \cup {Magic}
  /\ lookupName \in Names \cup {NoName}
  /\ device \in (IF apc \in {"check", "evaluate", "accepted"} /\ key # Magic
                 THEN Devices ELSE Devices \cup {NoDevice})
  /\ devName \in [Devices -> Names]
  /\ renames \in 0..MaxRenames

\* The device the client asked for: the referenced one, or the one the
\* SSHID's name resolved to.
TargetDevice == IF ident.kind = "ref" THEN ident.dev ELSE device

(* Design 4.2 steps 4-6: an ordinary key is accepted only if the API knows *)
(* it for the tenant and evaluates it as allowed on the device the login   *)
(* identifier names; for a direct reference that is the referenced device, *)
(* although the callback evaluates the device it looked up again by name.  *)
KeyAuthorizedForTarget ==
  (apc = "accepted" /\ key # Magic) =>
     key \in Registered /\ <<key, TargetDevice>> \in Allowed

=============================================================================
