-------------------------- MODULE NamespaceService --------------------------
(***************************************************************************)
(* The namespace services of the API server: CreateNamespace,              *)
(* DeleteNamespace, EditNamespace, AddNamespaceUser, RemoveNamespaceUser,  *)
(* EditNamespaceUser and EditSessionRecordStatus in                        *)
(* src/api/services/namespace.go, over the store                           *)
(* interface of src/api/store/namespace.go.                                *)
(*                                                                         *)
(* Echo serves every HTTP request on a goroutine of its own, and every     *)
(* store call is a MongoDB operation of its own: requests interleave       *)
(* between store calls.  A request is a process whose steps are its store  *)
(* calls; the reads of the users collection, which no request here        *)
(* changes, are merged with the namespace read they follow.                *)
(*                                                                         *)
(* Not in src/ and taken as parameters: Role.HasAuthority, and the route   *)
(* guard, modelled as the requester's role in the namespace holding the    *)
(* permission of the guard/permissions.go tables.  The store is assumed   *)
(* to keep tenant IDs unique (a NamespaceCreate on a taken tenant fails)   *)
(* and NamespaceEdit to leave a field the request omits.                   *)
(***************************************************************************)
EXTENDS Naturals, FiniteSets

CONSTANTS
  Users,          \* user IDs
  Tenants,        \* tenant IDs (uuid.Generate draws fresh ones)
  Names,          \* valid namespace names
  Reqs,           \* HTTP request goroutines
  HasAuthority(_, _), \* auth.Role.HasAuthority(active, passive)
  MaxNamespaces   \* user.MaxNamespaces of every user (< 0: no limit)

NoName == "no-name"
NoUser == "no-user"
NoTenant == "no-tenant"

\* The settings.session_record of a NamespaceEdit: "true", "false", or
\* omitted (a nil *bool).
Keep == "keep"

Roles == {"owner", "administrator", "operator", "observer"}

\* requests.RoleBody: validate:"required,oneof=administrator operator observer".
RoleBody == {"administrator", "operator", "observer"}

\* The role tables of guard/permissions.go, entry for entry (DeviceUpdate,
\* listed twice in the administrator and owner tables, counts once).
DeviceTagPerms == {"DeviceCreateTag", "DeviceUpdateTag", "DeviceRemoveTag",
                   "DeviceRenameTag", "DeviceDeleteTag"}
FirewallTagPerms == {"FirewallAddTag", "FirewallRemoveTag", "FirewallUpdateTag"}
PublicKeyTagPerms == {"PublicKeyAddTag", "PublicKeyRemoveTag", "PublicKeyUpdateTag"}

observerPermissions == {"DeviceConnect", "DeviceDetails", "SessionDetails"}

operatorPermissions ==
  {"DeviceAccept", "DeviceReject", "DeviceConnect", "DeviceRename",
   "DeviceDetails", "DeviceUpdate", "SessionDetails"} \cup DeviceTagPerms

\* adminPermissions with DeviceAccept left out of the list.
adminPermissionsNoAccept ==
  {"DeviceReject", "DeviceRemove", "DeviceConnect", "DeviceRename",
   "DeviceDetails", "DeviceUpdate", "SessionPlay", "SessionClose",
   "SessionRemove", "SessionDetails", "FirewallCreate", "FirewallEdit",
   "FirewallRemove", "PublicKeyCreate", "PublicKeyEdit", "PublicKeyRemove",
   "NamespaceUpdate", "NamespaceAddMember", "NamespaceRemoveMember",
   "NamespaceEditMember", "NamespaceEnableSessionRecord", "APIKeyCreate",
   "APIKeyEdit", "APIKeyDelete", "ConnectorUpdate", "ConnectorSet",
   "ConnectorStatus", "ConnectorAction"}
  \cup DeviceTagPerms \cup FirewallTagPerms \cup PublicKeyTagPerms

adminPermissions ==
  {"DeviceAccept", "DeviceReject", "DeviceRemove", "DeviceConnect", "DeviceRename",
   "DeviceDetails", "DeviceUpdate", "SessionPlay", "SessionClose",
   "SessionRemove", "SessionDetails", "FirewallCreate", "FirewallEdit",
   "FirewallRemove", "PublicKeyCreate", "PublicKeyEdit", "PublicKeyRemove",
   "NamespaceUpdate", "NamespaceAddMember", "NamespaceRemoveMember",
   "NamespaceEditMember", "NamespaceEnableSessionRecord", "APIKeyCreate",
   "APIKeyEdit", "APIKeyDelete", "ConnectorUpdate", "ConnectorSet",
   "ConnectorStatus", "ConnectorAction"}
  \cup DeviceTagPerms \cup FirewallTagPerms \cup PublicKeyTagPerms

ownerPermissions ==
  {"DeviceAccept", "DeviceReject", "DeviceRemove", "DeviceConnect", "DeviceRename",
   "DeviceDetails", "DeviceUpdate", "SessionPlay", "SessionClose",
   "SessionRemove", "SessionDetails", "FirewallCreate", "FirewallEdit",
   "FirewallRemove", "PublicKeyCreate", "PublicKeyEdit", "PublicKeyRemove",
   "NamespaceUpdate", "NamespaceAddMember", "NamespaceRemoveMember",
   "NamespaceEditMember", "NamespaceEnableSessionRecord", "NamespaceDelete",
   "BillingCreateCustomer", "BillingChooseDevices", "BillingAddPaymentMethod",
   "BillingUpdatePaymentMethod", "BillingRemovePaymentMethod",
   "BillingCancelSubscription", "BillingCreateSubscription",
   "BillingGetSubscription", "APIKeyCreate", "APIKeyEdit", "APIKeyDelete",
   "ConnectorUpdate", "ConnectorSet", "ConnectorStatus", "ConnectorAction"}
  \cup DeviceTagPerms \cup FirewallTagPerms \cup PublicKeyTagPerms

Permissions ==
  [observer |-> observerPermissions, operator |-> operatorPermissions,
   administrator |-> adminPermissions, owner |-> ownerPermissions]

\* The requests the routes hand to the services, after validation.
Requests ==
       [op : {"create"}, user : Users, name : Names, tenant : Tenants \cup {NoTenant}]
  \cup [op : {"delete"}, user : Users, tenant : Tenants]
  \cup [op : {"edit"}, user : Users, tenant : Tenants, name : Names \cup {NoName},
        record : {"true", "false", Keep}]
  \cup [op : {"record"}, user : Users, tenant : Tenants, record : BOOLEAN]
  \cup [op : {"add", "editm"}, user : Users, tenant : Tenants,
        member : Users, role : RoleBody]
  \cup [op : {"remove"}, user : Users, tenant : Tenants, member : Users]

NoReq == [op |-> "none"]

\* The first store call of each service.
FirstPc == [create |-> "limit", delete |-> "get", edit |-> "edit",
            add |-> "read", remove |-> "read", editm |-> "read",
            record |-> "record"]

Pcs == {"idle", "limit", "byname", "store", "get", "delete", "edit",
        "read", "write", "record", "done"}

VARIABLES
  live,      \* tenants of the namespaces in the store
  used,      \* tenants ever created (uuid.Generate does not repeat)
  nsName,    \* Namespace.Name
  owner,     \* Namespace.Owner
  members,   \* Namespace.Members, as a set of <<ID, Role>> entries
  record,    \* Namespace.Settings.SessionRecord
  rpc,       \* where each request is
  rq         \* the request each goroutine serves

store == <<live, used, nsName, owner, members, record>>
vars == <<live, used, nsName, owner, members, record, rpc, rq>>

\* The roles of the entries of user u in namespace t.
RoleOf(t, u) == {m[2] : m \in {e \in members[t] : e[1] = u}}

\* Namespace.FindMember: the role of an entry of u, or "none".
FoundRole(t, u) == IF RoleOf(t, u) = {} THEN {"none"} ELSE RoleOf(t, u)

\* The route guard, for the role FindMember gave the requester.
Allowed(ar, perm) == ar \in Roles /\ perm \in Permissions[ar]

\* user.Namespaces: the namespaces the user owns.
Owned(u) == {t \in live : owner[t] = u}

Goto(r, pc) == rpc' = [rpc EXCEPT ![r] = pc]
Finish(r) == Goto(r, "done")

-----------------------------------------------------------------------------
(* CreateNamespace: UserGetByID and the limit, NamespaceGetByName,         *)
(* NamespaceCreate.                                                        *)

CreateLimit(r) ==
  LET q == rq[r] IN
  /\ rpc[r] = "limit"
  /\ IF MaxNamespaces > 0 /\ MaxNamespaces <= Cardinality(Owned(q.user))
     THEN Finish(r) ELSE Goto(r, "byname")
  /\ UNCHANGED <<store, rq>>

CreateByName(r) ==
  LET q == rq[r] IN
  /\ rpc[r] = "byname"
  /\ \/ Finish(r)                          \* a store error
     \/ IF \E t \in live : nsName[t] = q.name
        THEN Finish(r) ELSE Goto(r, "store")
  /\ UNCHANGED <<store, rq>>

CreateStore(r) ==
  LET q == rq[r] IN
  /\ rpc[r] = "store"
  /\ \/ /\ UNCHANGED store                 \* NamespaceCreate fails
     \/ \E t \in IF q.tenant = NoTenant THEN Tenants \ used   \* uuid.Generate
                ELSE {q.tenant} \ live :
          /\ live' = live \cup {t}
          /\ used' = used \cup {t}
          /\ nsName' = [nsName EXCEPT ![t] = q.name]
          /\ owner' = [owner EXCEPT ![t] = q.user]
          /\ members' = [members EXCEPT ![t] = {<<q.user, "owner">>}]
          /\ record' = [record EXCEPT ![t] = TRUE]
  /\ Finish(r)
  /\ UNCHANGED rq

-----------------------------------------------------------------------------
(* DeleteNamespace: NamespaceGet, NamespaceDelete (billing is cloud only). *)

DeleteGet(r) ==
  LET q == rq[r] IN
  /\ rpc[r] = "get"
  /\ \E ar \in FoundRole(q.tenant, q.user) :
       IF q.tenant \in live /\ Allowed(ar, "NamespaceDelete")
       THEN Goto(r, "delete") ELSE Finish(r)
  /\ UNCHANGED <<store, rq>>

DeleteStore(r) ==
  LET t == rq[r].tenant IN
  /\ rpc[r] = "delete"
  /\ live' = live \ {t}
  /\ nsName' = [nsName EXCEPT ![t] = NoName]
  /\ owner' = [owner EXCEPT ![t] = NoUser]
  /\ members' = [members EXCEPT ![t] = {}]
  /\ record' = [record EXCEPT ![t] = FALSE]
  /\ Finish(r)
  /\ UNCHANGED <<used, rq>>

\* EditNamespace: NamespaceEdit sets the name and the session record
\* setting the request gives; the NamespaceGet after it only reads.
EditNamespace(r) ==
  LET q == rq[r] IN
  /\ rpc[r] = "edit"
  /\ \E ar \in FoundRole(q.tenant, q.user) :
       IF q.tenant \in live /\ Allowed(ar, "NamespaceUpdate")
       THEN /\ nsName' = IF q.name = NoName THEN nsName
                         ELSE [nsName EXCEPT ![q.tenant] = q.name]
            /\ record' = IF q.record = Keep THEN record
                         ELSE [record EXCEPT ![q.tenant] = (q.record = "true")]
       ELSE UNCHANGED <<nsName, record>>
  /\ Finish(r)
  /\ UNCHANGED <<live, used, owner, members, rq>>

\* EditSessionRecordStatus: NamespaceSetSessionRecord, behind the guard of
\* NamespaceEnableSessionRecord; no namespace is found for a deleted tenant.
EditSessionRecordStatus(r) ==
  LET q == rq[r] IN
  /\ rpc[r] = "record"
  /\ \E ar \in FoundRole(q.tenant, q.user) :
       IF q.tenant \in live /\ Allowed(ar, "NamespaceEnableSessionRecord")
       THEN record' = [record EXCEPT ![q.tenant] = q.record]
       ELSE UNCHANGED record
  /\ Finish(r)
  /\ UNCHANGED <<live, used, nsName, owner, members, rq>>

-----------------------------------------------------------------------------
(* AddNamespaceUser: NamespaceGet and the user reads, then                 *)
(* NamespaceAddMember.                                                     *)

AddRead(r) ==
  LET q == rq[r] IN
  /\ rpc[r] = "read" /\ q.op = "add"
  /\ \E ar \in FoundRole(q.tenant, q.user) :
       IF /\ q.tenant \in live
          /\ Allowed(ar, "NamespaceAddMember")
          /\ FoundRole(q.tenant, q.member) = {"none"}    \* not a member yet
          /\ HasAuthority(ar, q.role)
       THEN Goto(r, "write") ELSE Finish(r)
  /\ UNCHANGED <<store, rq>>

\* Mutation of AddWrite: the store adds the member without finding the
\* namespace, which a concurrent DeleteNamespace removed.
AddWriteUnchecked(r) ==
  LET q == rq[r] IN
  /\ rpc[r] = "write" /\ q.op = "add"
  /\ members' = [members EXCEPT ![q.tenant] = @ \cup {<<q.member, q.role>>}]
  /\ Finish(r)
  /\ UNCHANGED <<live, used, nsName, owner, record, rq>>

\* NamespaceAddMember appends the entry; a namespace deleted meanwhile
\* is not found.
AddWrite(r) ==
  LET q == rq[r] IN
  /\ rpc[r] = "write" /\ q.op = "add"
  /\ members' = IF q.tenant \in live
                THEN [members EXCEPT ![q.tenant] = @ \cup {<<q.member, q.role>>}]
                ELSE members
  /\ Finish(r)
  /\ UNCHANGED <<live, used, nsName, owner, record, rq>>

-----------------------------------------------------------------------------
(* RemoveNamespaceUser and EditNamespaceUser: NamespaceGet and the user    *)
(* reads, FindMember of both, HasAuthority over the member's role; then    *)
(* the store write and AuthUncacheToken.                                   *)

MemberActRead(r, op, perm) ==
  LET q == rq[r] IN
  /\ rpc[r] = "read" /\ q.op = op
  /\ \E ar \in FoundRole(q.tenant, q.user), pr \in FoundRole(q.tenant, q.member) :
       IF /\ q.tenant \in live
          /\ Allowed(ar, perm)
          /\ pr \in Roles
          /\ HasAuthority(ar, pr)
       THEN Goto(r, "write") ELSE Finish(r)
  /\ UNCHANGED <<store, rq>>

RemoveRead(r) == MemberActRead(r, "remove", "NamespaceRemoveMember")

\* NamespaceRemoveMember pulls the member's entries.
RemoveWrite(r) ==
  LET q == rq[r] IN
  /\ rpc[r] = "write" /\ q.op = "remove"
  /\ members' = [members EXCEPT ![q.tenant] = {m \in @ : m[1] # q.member}]
  /\ Finish(r)
  /\ UNCHANGED <<live, used, nsName, owner, record, rq>>

EditMemberRead(r) == MemberActRead(r, "editm", "NamespaceEditMember")

\* NamespaceEditMember sets the role of an entry of the member to
\* RoleFromString(memberNewRole); none is left if it was removed meanwhile.
EditMemberWrite(r) ==
  LET q == rq[r] IN
  /\ rpc[r] = "write" /\ q.op = "editm"
  /\ \/ /\ RoleOf(q.tenant, q.member) = {}
        /\ UNCHANGED members
     \/ \E m \in members[q.tenant] :
          /\ m[1] = q.member
          /\ members' = [members EXCEPT ![q.tenant] =
                           (@ \ {m}) \cup {<<q.member, q.role>>}]
  /\ Finish(r)
  /\ UNCHANGED <<live, used, nsName, owner, record, rq>>

-----------------------------------------------------------------------------
(* A request reaches the service.                                          *)

Arrive(r) ==
  /\ rpc[r] = "idle"
  /\ \E q \in Requests : rq' = [rq EXCEPT ![r] = q] /\ Goto(r, FirstPc[q.op])
  /\ UNCHANGED store

Init ==
  /\ \E t \in Tenants, u \in Users, n \in Names :
       /\ live = {t}
       /\ used = {t}
       /\ nsName = [x \in Tenants |-> IF x = t THEN n ELSE NoName]
       /\ owner = [x \in Tenants |-> IF x = t THEN u ELSE NoUser]
       /\ \E admin \in Users \ {u} :
            members = [x \in Tenants |->
                         IF x = t THEN {<<u, "owner">>, <<admin, "administrator">>}
                         ELSE {}]
       /\ record = [x \in Tenants |-> x = t]
  /\ rpc = [r \in Reqs |-> "idle"]
  /\ rq = [r \in Reqs |-> NoReq]

\* Every request has been served.
Served ==
  /\ \A r \in Reqs : rpc[r] = "done"
  /\ UNCHANGED vars

Next ==
  \/ \E r \in Reqs :
       \/ Arrive(r)
       \/ CreateLimit(r) \/ CreateByName(r) \/ CreateStore(r)
       \/ DeleteGet(r) \/ DeleteStore(r) \/ EditNamespace(r)
       \/ EditSessionRecordStatus(r)
       \/ AddRead(r) \/ AddWrite(r)
       \/ RemoveRead(r) \/ RemoveWrite(r)
       \/ EditMemberRead(r) \/ EditMemberWrite(r)
  \/ Served

Spec == Init /\ [][Next]_vars

-----------------------------------------------------------------------------
(* Properties.                                                             *)

TypeOK ==
  /\ live \subseteq used /\ used \subseteq Tenants
  /\ nsName \in [Tenants -> Names \cup {NoName}]
  /\ owner \in [Tenants -> Users \cup {NoUser}]
  /\ members \in [Tenants -> SUBSET (Users \X Roles)]
  /\ record \in [Tenants -> BOOLEAN]
  /\ \A t \in Tenants \ live : owner[t] = NoUser /\ members[t] = {}
  /\ rpc \in [Reqs -> Pcs]
  /\ rq \in [Reqs -> Requests \cup {NoReq}]

(* CreateNamespace makes the creator the owner, and no member operation    *)
(* may act over the owner: in every namespace the owner stays a member,    *)
(* with the owner role and no other, and nobody else holds that role,      *)
(* whatever the order of concurrent add, remove and edit requests.         *)
OwnerKept ==
  \A t \in live :
     /\ RoleOf(t, owner[t]) = {"owner"}
     /\ \A m \in members[t] : m[2] = "owner" => m[1] = owner[t]

(* The guard's tables are four literal lists of guard/permissions.go,     *)
(* kept by hand.  Between any two members of a namespace, the one of the   *)
(* higher role (observer < operator < administrator < owner) may do        *)
(* everything the other may, whatever roles the member requests gave them. *)
RolesNested ==
  LET rank == [observer |-> 1, operator |-> 2, administrator |-> 3, owner |-> 4]
  IN \A t \in live : \A m, n \in members[t] :
        rank[m[2]] >= rank[n[2]] => Permissions[n[2]] \subseteq Permissions[m[2]]

(* AddNamespaceUser refuses a user who is already a member                 *)
(* (NewErrNamespaceMemberDuplicated): a user has one entry per namespace.  *)
MemberOnce ==
  \A t \in live, u \in Users : Cardinality(RoleOf(t, u)) <= 1

(* CreateNamespace refuses a name another namespace has                    *)
(* (NewErrNamespaceDuplicated): namespace names are unique.                *)
UniqueNames ==
  \A t1, t2 \in live : t1 # t2 => nsName[t1] # nsName[t2]

(* CreateNamespace refuses a namespace beyond user.MaxNamespaces.          *)
WithinLimit ==
  MaxNamespaces > 0 => \A u \in Users : Cardinality(Owned(u)) <= MaxNamespaces

====
