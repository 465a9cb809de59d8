------------------------------- MODULE Access -------------------------------
(***************************************************************************)
(* Users, roles and SDK keys, and who may do what                          *)
(* (auth_service.py, rbac_service.py, dependencies.py, routers/auth.py,    *)
(* routers/roles.py).                                                      *)
(*                                                                         *)
(* A request is admitted by what the tables say when it begins, and        *)
(* commits later, whatever has been revoked meanwhile.  Passwords, hashes  *)
(* and the wording of tokens are left out; of the seeded roles there are   *)
(* the first user's and everybody else's, the others differ from the       *)
(* latter in their permissions only.                                       *)
(***************************************************************************)
EXTENDS Requests

CONSTANTS
    Accounts,       \* users of the platform: an email address and a username
    CustomRoles     \* keys of roles that administrators create

Manage      == "users:manage"
Permissions == {Manage, "flags:read"}
Scopes      == {"events:write", "flags:read"}
Roles       == {"admin", "viewer"} \cup CustomRoles

User == [active : BOOLEAN, founder : BOOLEAN]
Key  == [id : Nat, owner : Accounts, active : BOOLEAN, all : BOOLEAN]

ASSUME AccessAssumption ==
    /\ {"admin", "viewer"} \cap CustomRoles = {}
    /\ Absent \notin User

VARIABLES
    users,          \* users[u]: the row of u; is_admin is founder
    roles,          \* roles[r]: the permissions of the role r there is (role_permissions)
    userRoles,      \* user_roles
    tokens,         \* the users somebody holds a valid JWT of
    keys            \* api_keys

accessVars == <<users, roles, userRoles, tokens, keys>>
allAccessVars == <<accessVars, requestVars>>

\* ROLE_PERMISSIONS, as seeded.
ROLE_PERMISSIONS == [admin |-> Permissions, viewer |-> {"flags:read"}]

AccessInit ==
    /\ users = [u \in Accounts |-> Absent]
    /\ roles = ROLE_PERMISSIONS
    /\ userRoles = {} /\ tokens = {} /\ keys = {}
    /\ InitRequests

-----------------------------------------------------------------------------
(* Who may do what.                                                          *)

Registered == {u \in Accounts : users[u] # Absent}
Founders   == {u \in Registered : users[u].founder}

Active(u) == u \in Registered /\ users[u].active

\* get_user_permissions
PermissionsOf(u) == UNION {roles[r] : r \in {x \in DOMAIN roles : <<u, x>> \in userRoles}}

\* get_current_user: a token, and an account that is active now.
CurrentUser(u) == u \in tokens /\ Active(u)

\* Mutant: the permissions go with the token.
HoldsByToken(u, p) == u \in tokens /\ p \in PermissionsOf(u)

\* require_permission
Holds(u, p) == CurrentUser(u) /\ p \in PermissionsOf(u)

\* Mutant: the owner of the key is not looked at.
KeyAdmitsAnyOwner(k, scope) == k.active /\ (k.all \/ scope = "events:write")

\* require_sdk_scope, with a key; DEFAULT_API_KEY_SCOPES have no flags:read.
KeyAdmits(k, scope) == k.active /\ Active(k.owner) /\ (k.all \/ scope = "events:write")

-----------------------------------------------------------------------------
(* Accounts and tokens.                                                      *)

\* register: 400 for an address that is taken; create_user counts the users.
AskRegister(c) ==
    /\ \E u \in Accounts \ Registered :
          Begin(c, [op |-> "register", by |-> u], Absent, Registered)
    /\ UNCHANGED accessVars

\* Mutant: the account itself is counted, too.
FirstOfTwo(counted) == Cardinality(counted) < 2

First(counted) == counted = {}

\* create_user: the unique constraints keep a second row of the address out.
Register(c) ==
    LET t == txn[c] IN
    /\ Doing(c, "register")
    /\ users[t.ask.by] = Absent
    /\ users' = [users EXCEPT ![t.ask.by] = [active |-> TRUE, founder |-> First(t.kids)]]
    /\ userRoles' = userRoles \cup {<<t.ask.by, IF First(t.kids) THEN "admin" ELSE "viewer">>}
    /\ Done(c)
    /\ UNCHANGED <<roles, tokens, keys>>

\* login: authenticate_user refuses an account that is not active.
Login(u) ==
    /\ Active(u) /\ u \notin tokens
    /\ tokens' = tokens \cup {u}
    /\ UNCHANGED <<users, roles, userRoles, keys, requestVars>>

\* The token is of 24 hours; nothing else ends it.
Expire(u) ==
    /\ u \in tokens
    /\ tokens' = tokens \ {u}
    /\ UNCHANGED <<users, roles, userRoles, keys, requestVars>>

-----------------------------------------------------------------------------
(* What users:manage allows (routers/roles).                                 *)

ManageOps == {"create_role", "update_role", "update_user", "assign_role", "revoke_role"}

ManageAsks(u) ==
    [op : {"create_role"}, by : {u}, role : CustomRoles, permissions : SUBSET Permissions]
      \cup [op : {"update_role"}, by : {u}, role : DOMAIN roles, permissions : SUBSET Permissions]
      \cup [op : {"update_user"}, by : {u}, user : Registered, active : BOOLEAN]
      \cup [op : {"assign_role", "revoke_role"}, by : {u}, user : Registered, role : DOMAIN roles]

\* The rows that are loaded: the permissions of the role, the roles the user
\* has.
Hanging(a) ==
    CASE a.op = "update_role" -> roles[a.role]
      [] a.op = "assign_role" -> {r \in DOMAIN roles : <<a.user, r>> \in userRoles}
      [] OTHER -> {}

AskManage(c) ==
    /\ \E u \in Accounts :
          /\ Holds(u, Manage)
          /\ \E a \in ManageAsks(u) :
                Begin(c, a, IF a.op = "update_user" THEN users[a.user] ELSE Absent, Hanging(a))
    /\ UNCHANGED accessVars

\* create_role: 409 for a key that is taken.
CreateRole(c) ==
    LET t == txn[c] IN
    /\ Doing(c, "create_role")
    /\ t.ask.role \notin DOMAIN roles
    /\ roles' = [r \in DOMAIN roles \cup {t.ask.role} |->
                   IF r = t.ask.role THEN t.ask.permissions ELSE roles[r]]
    /\ Done(c)
    /\ UNCHANGED <<users, userRoles, tokens, keys>>

\* update_role replaces the permissions that it has loaded: SQLAlchemy deletes
\* those that are not asked for and inserts those that are new, which fails on
\* one that another request has inserted meanwhile.
Replaced(now, loaded, wanted) == (now \ (loaded \ wanted)) \cup (wanted \ loaded)

UpdateRole(c) ==
    LET t == txn[c] IN
    /\ Doing(c, "update_role")
    /\ (t.ask.permissions \ t.kids) \cap roles[t.ask.role] = {}
    /\ roles' = [roles EXCEPT ![t.ask.role] = Replaced(@, t.kids, t.ask.permissions)]
    /\ Done(c)
    /\ UNCHANGED <<users, userRoles, tokens, keys>>

\* set_user_active
WrittenUser(row, loaded, a) == [row EXCEPT !.active = Column(@, loaded.active, a.active)]

\* update_user, of any account: one's own, too, and the last that can manage
\* users.
UpdateUser(c) ==
    LET t == txn[c] IN
    /\ Doing(c, "update_user")
    /\ users' = [users EXCEPT ![t.ask.user] = WrittenUser(@, t.row, t.ask)]
    /\ Done(c)
    /\ UNCHANGED <<roles, userRoles, tokens, keys>>

\* assign_role: a row that was there when it looked is answered as it is, one
\* that was inserted meanwhile is a conflict.
AssignRole(c) ==
    LET t   == txn[c]
        had == t.ask.role \in t.kids
    IN
    /\ Doing(c, "assign_role")
    /\ ~had => <<t.ask.user, t.ask.role>> \notin userRoles
    /\ userRoles' = IF had THEN userRoles ELSE userRoles \cup {<<t.ask.user, t.ask.role>>}
    /\ Done(c)
    /\ UNCHANGED <<users, roles, tokens, keys>>

\* revoke_role: 404 when there is no row to delete.
RevokeRole(c) ==
    LET t == txn[c] IN
    /\ Doing(c, "revoke_role")
    /\ <<t.ask.user, t.ask.role>> \in userRoles
    /\ userRoles' = userRoles \ {<<t.ask.user, t.ask.role>>}
    /\ Done(c)
    /\ UNCHANGED <<users, roles, tokens, keys>>

-----------------------------------------------------------------------------
(* SDK keys: everybody has a right to some.                                  *)

\* create_key and delete_key of routers/auth; 404 for a key of somebody else.
AskKey(c) ==
    /\ \E u \in Accounts :
          /\ CurrentUser(u)
          /\ \/ \E all \in BOOLEAN : Begin(c, [op |-> "create_key", by |-> u, all |-> all], Absent, {})
             \/ \E k \in keys :
                   /\ k.owner = u
                   /\ Begin(c, [op |-> "revoke_key", by |-> u, key |-> k.id], k, {})
    /\ UNCHANGED accessVars

\* create_api_key
CreateKey(c) ==
    LET t == txn[c] IN
    /\ Doing(c, "create_key")
    /\ keys' = keys \cup {[id |-> t.n, owner |-> t.ask.by, active |-> TRUE, all |-> t.ask.all]}
    /\ Done(c)
    /\ UNCHANGED <<users, roles, userRoles, tokens>>

\* revoke_api_key
RevokeKey(c) ==
    LET t == txn[c] IN
    /\ Doing(c, "revoke_key")
    /\ keys' = {IF k.id = t.ask.key THEN [k EXCEPT !.active = FALSE] ELSE k : k \in keys}
    /\ Done(c)
    /\ UNCHANGED <<users, roles, userRoles, tokens>>

\* require_sdk_scope: a key with the scope, or any token.
AskSdk(c) ==
    /\ \E u \in Accounts, scope \in Scopes :
          /\ CurrentUser(u) \/ \E k \in keys : k.owner = u /\ KeyAdmits(k, scope)
          /\ Begin(c, [op |-> "sdk_call", by |-> u], Absent, {})
    /\ UNCHANGED accessVars

SdkCall(c) == Doing(c, "sdk_call") /\ Done(c) /\ UNCHANGED accessVars

-----------------------------------------------------------------------------
GiveUpAccess(c) == Fail(c) /\ UNCHANGED accessVars

AccessStep(c) ==
    \/ AskRegister(c) \/ Register(c)
    \/ AskManage(c) \/ CreateRole(c) \/ UpdateRole(c) \/ UpdateUser(c) \/ AssignRole(c) \/ RevokeRole(c)
    \/ AskKey(c) \/ CreateKey(c) \/ RevokeKey(c)
    \/ AskSdk(c) \/ SdkCall(c)
    \/ GiveUpAccess(c)

AccessNext == (\E c \in Clients : AccessStep(c)) \/ (\E u \in Accounts : Login(u) \/ Expire(u))

AccessSpec == AccessInit /\ [][AccessNext]_allAccessVars

-----------------------------------------------------------------------------
TypeOK ==
    /\ users \in [Accounts -> User \cup {Absent}]
    /\ DOMAIN roles \in SUBSET Roles /\ roles \in [DOMAIN roles -> SUBSET Permissions]
    /\ userRoles \subseteq Registered \X DOMAIN roles
    /\ tokens \subseteq Registered
    /\ keys \subseteq Key
    /\ \A k \in keys : k.owner \in Registered

\* "The first registered user gets the role admin, all later ones viewer": a
\* platform with users has had an administrator, and a second one of this
\* kind only comes from registrations that overlap, which make one.
FirstIsAdmin ==
    /\ Registered # {} => Founders # {}
    /\ ~overlap => \A u, v \in Founders : u = v

\* The tables of access hang together and began with one administrator.
AccessIntact == TypeOK /\ FirstIsAdmin

Begun(c) == txn[c] = Idle /\ txn'[c] # Idle

InFlight(op) == \E c \in Clients : Doing(c, op)

\* Nobody who is active can manage users, no request that was admitted before
\* is still under way, and the next registration makes no manager either.
Locked ==
    /\ Registered # {}
    /\ \A u \in Accounts : Active(u) => Manage \notin PermissionsOf(u)
    /\ \A op \in ManageOps : ~InFlight(op)
    /\ \A c \in Clients : Doing(c, "register") => txn[c].kids # {}
    /\ Manage \notin roles["viewer"]

\* No power from nowhere: users:manage comes from somebody who has it. The
\* other side of it: when the last administrator has been deactivated or has
\* lost the role, which nothing prevents, no request ever brings one back.
NoPowerFromNowhere == [][Locked => Locked']_allAccessVars

\* A user who is deactivated and has nothing under way.
Out(u) ==
    /\ u \in Registered /\ ~users[u].active
    /\ \A c \in Clients : txn[c] # Idle => txn[c].ask.by # u
    /\ ~\E c \in Clients : Doing(c, "update_user") /\ txn[c].ask.user = u

\* Out is out, by every door: with an old token, a new login, an SDK key made
\* before, nothing begins in the name of such a user, until somebody else
\* asks for the account to be changed.
OutIsOut ==
    [][\A u \in Accounts : Out(u) /\ ~Out(u)' =>
         \E c \in Clients : /\ Begun(c)
                            /\ txn'[c].ask.op = "update_user" /\ txn'[c].ask.user = u
                            /\ txn'[c].ask.by # u]_allAccessVars

=============================================================================
