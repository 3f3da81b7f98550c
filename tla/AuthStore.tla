----------------------------- MODULE AuthStore -----------------------------
(***************************************************************************)
(* The auth module of the UI's Vuex store: src/ui/src/store/modules/       *)
(* auth.ts.  JavaScript runs one callback at a time, so an action is       *)
(* atomic up to its `await` and atomic again after it: an async action is  *)
(* a Start step (its synchronous prefix, which issues the HTTP call) and a *)
(* Resume step (the continuation, when the promise settles).  Calls of     *)
(* several actions may be in flight at once and settle in any order.       *)
(*                                                                         *)
(* The data is abstracted to the identity it belongs to: a token, the      *)
(* user fields (user, name, tenant, email, role), the id, and the MFA      *)
(* secret, link and recovery codes are each the identity of the response   *)
(* that wrote them, or None.  The HTTP layer (outside src/) sends the      *)
(* token of localStorage: a call is answered for that identity.            *)
(***************************************************************************)
EXTENDS FiniteSets

CONSTANTS
  Idents,   \* users whose credentials or tokens the UI may hold
  MfaOn,    \* users with MFA enabled (data.mfa.enable)
  Calls     \* bound: action calls of one page lifetime

ASSUME MfaOn \subseteq Idents

None == ""

Maybe(S) == S \cup {None}

\* The async actions.
Async == {"login", "loginToken", "disableMfa", "enableMfa", "validateMfa",
          "generateMfa", "getUserInfo", "recoverLoginMfa"}

Statuses == {"", "loading", "success", "error"}

VARIABLES
  status,    \* state.status
  token,     \* state.token
  who,       \* state.user, name, tenant, email, role
  id,        \* state.id
  mfaEnable, \* state.mfa.enable
  mfaInfo,   \* state.secret, link_mfa, recoveryCodes
  ls,        \* localStorage: token, user fields, id, mfa, namespacesWelcome
  call       \* each call: the action, where it is, whom it is answered for

ui == <<status, token, who, id, mfaEnable, mfaInfo>>
vars == <<status, token, who, id, mfaEnable, mfaInfo, ls, call>>

\* namespacesWelcome: absent, or <<the tenants of the JSON object>>.
Absent == <<>>

\* localStorage after a successful login or loginToken for x.
Stored(x) == [token |-> x, who |-> x, id |-> x,
              mfa |-> IF x \in MfaOn THEN "true" ELSE "false",
              welcome |-> <<{}>>]

Cleared == [token |-> None, who |-> None, id |-> None, mfa |-> None,
            welcome |-> Absent]

-----------------------------------------------------------------------------
(* Mutations.                                                              *)

\* Mutation of authSuccess: state.id is not written.
AuthSuccessKeepsId(x) ==
  /\ status' = "success"
  /\ token' = x /\ who' = x
  /\ mfaEnable' = (x \in MfaOn)
  /\ UNCHANGED <<id, mfaInfo>>

AuthSuccess(x) ==
  /\ status' = "success"
  /\ token' = x /\ who' = x /\ id' = x
  /\ mfaEnable' = (x \in MfaOn)
  /\ UNCHANGED mfaInfo

AuthError ==
  /\ status' = "error"
  /\ UNCHANGED <<token, who, id, mfaEnable, mfaInfo>>

-----------------------------------------------------------------------------
(* Starting an action: the code before its await.                          *)

Begin(c, act, x) == call' = [call EXCEPT ![c] = [act |-> act, pc |-> "pending", as |-> x]]

\* login: commit authRequest, then apiAuth.login with the credentials of x.
LoginStart(c) ==
  /\ call[c].pc = "idle"
  /\ \E x \in Idents : Begin(c, "login", x)
  /\ status' = "loading"
  /\ UNCHANGED <<token, who, id, mfaEnable, mfaInfo, ls>>

\* loginToken: commit authRequest, store the token, then apiAuth.info.
LoginTokenStart(c) ==
  /\ call[c].pc = "idle"
  /\ \E x \in Idents :
       /\ Begin(c, "loginToken", x)
       /\ ls' = [ls EXCEPT !.token = x]
  /\ status' = "loading"
  /\ UNCHANGED <<token, who, id, mfaEnable, mfaInfo>>

\* The other async actions call the API with the stored token.
CallStart(c) ==
  /\ call[c].pc = "idle"
  /\ \E act \in Async \ {"login", "loginToken"} : Begin(c, act, ls.token)
  /\ UNCHANGED <<ui, ls>>

-----------------------------------------------------------------------------
(* Resuming an action: the code after its await.  A call with no token,    *)
(* or any failed call, goes to the catch: commit authError.                *)

Settle(c) == call' = [call EXCEPT ![c].pc = "done"]

Pending(c, act) == call[c].pc = "pending" /\ call[c].act = act

Fails(c) == AuthError /\ UNCHANGED ls

\* Mutation of LoginResume: the catch does not commit authError.
LoginResumeNoError(c) ==
  /\ Pending(c, "login")
  /\ \/ ls' = Stored(call[c].as) /\ AuthSuccess(call[c].as)
     \/ UNCHANGED <<ui, ls>>
  /\ Settle(c)

LoginResume(c) ==
  /\ Pending(c, "login")
  /\ \/ ls' = Stored(call[c].as) /\ AuthSuccess(call[c].as)
     \/ Fails(c)
  /\ Settle(c)

\* The token stored before the await stays after a failure.
LoginTokenResume(c) ==
  /\ Pending(c, "loginToken")
  /\ \/ ls' = Stored(call[c].as) /\ AuthSuccess(call[c].as)
     \/ Fails(c)
  /\ Settle(c)

DisableMfaResume(c) ==
  LET x == call[c].as IN
  /\ Pending(c, "disableMfa")
  /\ \/ /\ x # None
        /\ mfaEnable' = FALSE
        /\ ls' = [ls EXCEPT !.mfa = "false"]
        /\ UNCHANGED <<status, token, who, id, mfaInfo>>
     \/ Fails(c)
  /\ Settle(c)

\* enableMfa: commit mfaToken, store the token and "true", commit
\* mfaEnabled(true) (and toggle the congratulations modal).
EnableMfaResume(c) ==
  LET x == call[c].as IN
  /\ Pending(c, "enableMfa")
  /\ \/ /\ x # None
        /\ token' = x
        /\ ls' = [ls EXCEPT !.token = x, !.mfa = "true"]
        /\ mfaEnable' = TRUE
        /\ UNCHANGED <<status, who, id, mfaInfo>>
     \/ Fails(c)
  /\ Settle(c)

\* validateMfa and recoverLoginMfa: store the token, commit mfaToken
\* (recoverLoginMfa also toggles the recovery modal).
TokenResume(c, act) ==
  LET x == call[c].as IN
  /\ Pending(c, act)
  /\ \/ /\ x # None
        /\ ls' = [ls EXCEPT !.token = x]
        /\ token' = x
        /\ UNCHANGED <<status, who, id, mfaEnable, mfaInfo>>
     \/ Fails(c)
  /\ Settle(c)

ValidateMfaResume(c) == TokenResume(c, "validateMfa")

RecoverLoginMfaResume(c) == TokenResume(c, "recoverLoginMfa")

\* generateMfa: commit mfaGenerateInfo.
GenerateMfaResume(c) ==
  LET x == call[c].as IN
  /\ Pending(c, "generateMfa")
  /\ \/ /\ x # None
        /\ mfaInfo' = x
        /\ UNCHANGED <<status, token, who, id, mfaEnable, ls>>
     \/ Fails(c)
  /\ Settle(c)

\* getUserInfo: commit userInfo, which writes every field but status and
\* nothing to localStorage.
GetUserInfoResume(c) ==
  LET x == call[c].as IN
  /\ Pending(c, "getUserInfo")
  /\ \/ /\ x # None
        /\ mfaInfo' = x /\ token' = x /\ who' = x /\ id' = x
        /\ mfaEnable' = (x \in MfaOn)
        /\ UNCHANGED <<status, ls>>
     \/ Fails(c)
  /\ Settle(c)

-----------------------------------------------------------------------------
(* Synchronous actions.                                                     *)

\* logout: commit logout, which leaves id, mfa.validate and the MFA
\* secret, link and codes; remove the stored items.
Logout ==
  /\ status' = "" /\ token' = None /\ who' = None
  /\ mfaEnable' = FALSE
  /\ ls' = Cleared
  /\ UNCHANGED <<id, mfaInfo, call>>

\* changeUserData: the profile form of the user shown stores and commits
\* new name, username and email of that same user.
ChangeUserData ==
  /\ who # None
  /\ ls' = [ls EXCEPT !.who = who]
  /\ UNCHANGED <<ui, call>>

\* setShowWelcomeScreen for the tenant shown: JSON.parse(getItem || "")
\* throws on a missing item, and nothing is written.
SetShowWelcomeScreen ==
  /\ who # None
  /\ ls.welcome # Absent
  /\ ls' = [ls EXCEPT !.welcome = <<@[1] \cup {who}>>]
  /\ UNCHANGED <<ui, call>>

\* localStorage.getItem of a removed item.
NullItem == "null"

\* Mutation of Init: the state reads localStorage without the `|| ""`
\* defaults, so a removed item is null.
InitWithoutDefaults ==
  LET read(v) == IF v = None THEN NullItem ELSE v IN
  /\ ls \in {Cleared} \cup {Stored(x) : x \in Idents}
  /\ status = ""
  /\ token = read(ls.token) /\ who = read(ls.who) /\ id = read(ls.id)
  /\ mfaEnable = FALSE
  /\ mfaInfo = None
  /\ call = [c \in Calls |-> [act |-> "none", pc |-> "idle", as |-> None]]

\* The state as the module is loaded: read from localStorage.
Init ==
  /\ ls \in {Cleared} \cup {Stored(x) : x \in Idents}
  /\ status = ""
  /\ token = ls.token /\ who = ls.who /\ id = ls.id
  /\ mfaEnable = FALSE
  /\ mfaInfo = None
  /\ call = [c \in Calls |-> [act |-> "none", pc |-> "idle", as |-> None]]

Resume(c) ==
  \/ LoginResume(c) \/ LoginTokenResume(c)
  \/ DisableMfaResume(c) \/ EnableMfaResume(c)
  \/ ValidateMfaResume(c) \/ RecoverLoginMfaResume(c)
  \/ GenerateMfaResume(c) \/ GetUserInfoResume(c)

Next ==
  \/ \E c \in Calls : LoginStart(c) \/ LoginTokenStart(c) \/ CallStart(c) \/ Resume(c)
  \/ Logout
  \/ ChangeUserData
  \/ SetShowWelcomeScreen

\* Every HTTP request settles: axios resolves or rejects its promise.
Spec == Init /\ [][Next]_vars /\ \A c \in Calls : WF_vars(Resume(c))

-----------------------------------------------------------------------------
(* Properties.                                                             *)

TypeOK ==
  /\ status \in Statuses
  /\ {token, who, id, mfaInfo} \subseteq Maybe(Idents)
  /\ mfaEnable \in BOOLEAN
  /\ ls \in [token : Maybe(Idents), who : Maybe(Idents), id : Maybe(Idents),
             mfa : {"true", "false", None},
             welcome : {Absent} \cup {<<w>> : w \in SUBSET Idents}]
  /\ call \in [Calls -> [act : Async \cup {"none"}, pc : {"idle", "pending", "done"},
                         as : Maybe(Idents)]]

(* The user fields and state.id describe one user: authSuccess and         *)
(* userInfo write them together and logout clears the user fields, so a    *)
(* logged-in user is never shown with another user's id, over any order    *)
(* of logins, logouts and settling calls.                                  *)
NoMixedIdentity == who # None /\ id # None => who = id

(* Every action that commits authRequest settles its call and commits      *)
(* authSuccess or authError: the login spinner (status "loading") stops    *)
(* for good once the calls in flight settle.                               *)
LoginSettles == <>[](status # "loading")

(* After logout nothing of the previous user is left in the store: no     *)
(* token, no id, no MFA secret or recovery codes.                          *)
SessionIsolation == who = None => token = None /\ id = None /\ mfaInfo = None

(* With no call in flight, a reload of the page (the state read back from  *)
(* localStorage) shows the user and the token the store holds.             *)
ReloadConsistent ==
  (\A c \in Calls : call[c].pc # "pending") => ls.token = token /\ ls.who = who

(* While the store shows a user, namespacesWelcome is in localStorage, so *)
(* setShowWelcomeScreen can parse it: every action that shows a user also *)
(* stores the welcome object, and logout removes both together.           *)
WelcomeReadable == who # None => ls.welcome # Absent

====
