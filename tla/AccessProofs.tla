---------------------------- MODULE AccessProofs ----------------------------
(***************************************************************************)
(* What holds of accounts, roles and keys for any number of clients, users *)
(* and requests.                                                           *)
(*                                                                         *)
(* A request acts on what it loaded when it began.  What it may rely on    *)
(* later: accounts and roles do not disappear (TxnOK), and as long as no   *)
(* two requests are in flight, a registration that counted nobody is still *)
(* the first (AloneOK).                                                    *)
(***************************************************************************)
EXTENDS Access, TLAPS

Asks ==
    {NoAsk}
      \cup [op : {"register", "sdk_call"}, by : Accounts]
      \cup [op : {"create_role", "update_role"}, by : Accounts, role : Roles,
            permissions : SUBSET Permissions]
      \cup [op : {"update_user"}, by : Accounts, user : Accounts, active : BOOLEAN]
      \cup [op : {"assign_role", "revoke_role"}, by : Accounts, user : Accounts, role : Roles]
      \cup [op : {"create_key"}, by : Accounts, all : BOOLEAN]
      \cup [op : {"revoke_key"}, by : Accounts, key : Nat]

Txn == [ask : Asks, row : User \cup Key \cup {Absent},
        kids : SUBSET (Accounts \cup Permissions \cup Roles), n : Nat]

TxnOK(c) ==
    LET t == txn[c] IN
    /\ t.ask.op = "register" => t.kids \subseteq Registered
    /\ t.ask.op = "create_role" => t.ask.role \in CustomRoles
    /\ t.ask.op = "update_role" => t.ask.role \in DOMAIN roles /\ t.kids \subseteq Permissions
    /\ t.ask.op = "update_user" => t.ask.user \in Registered /\ t.row \in User
    /\ t.ask.op \in {"assign_role", "revoke_role"} =>
         t.ask.user \in Registered /\ t.ask.role \in DOMAIN roles
    /\ t.ask.op = "create_key" => t.ask.by \in Registered

RequestsOK ==
    /\ txn \in [Clients -> Txn] /\ asked \in Nat /\ overlap \in BOOLEAN
    /\ \A c \in Clients : TxnOK(c)
    /\ {"admin", "viewer"} \subseteq DOMAIN roles

\* As long as requests do not overlap there is one at most, and what it has
\* counted is what is there.
AloneOK ==
    ~overlap =>
        /\ \A c, d \in Clients : txn[c] # Idle /\ txn[d] # Idle => c = d
        /\ \A c \in Clients : Doing(c, "register") => txn[c].kids = Registered

IInv == TypeOK /\ RequestsOK /\ FirstIsAdmin /\ AloneOK

-----------------------------------------------------------------------------
LEMMA Fields ==
    ASSUME NEW t \in Txn
    PROVE  /\ t.ask.op = "none" <=> t.ask = NoAsk
           /\ t.ask.op \in {"none", "register", "sdk_call", "create_role", "update_role",
                            "update_user", "assign_role", "revoke_role", "create_key", "revoke_key"}
           /\ t.ask.op # "none" => t.ask.by \in Accounts
           /\ t.ask.op \in {"create_role", "update_role"} =>
                t.ask.role \in Roles /\ t.ask.permissions \in SUBSET Permissions
           /\ t.ask.op = "update_user" => t.ask.user \in Accounts /\ t.ask.active \in BOOLEAN
           /\ t.ask.op \in {"assign_role", "revoke_role"} => t.ask.user \in Accounts /\ t.ask.role \in Roles
           /\ t.ask.op = "create_key" => t.ask.all \in BOOLEAN
           /\ t.n \in Nat
  BY DEF Txn, Asks, NoAsk

LEMMA IdleIsTxn == Idle \in Txn
  BY DEF Idle, Txn, Asks, NoAsk

LEMMA InitOK == AccessInit => IInv
<1> SUFFICES ASSUME AccessInit PROVE IInv
  OBVIOUS
<1> USE AccessAssumption, RequestsAssumption DEF AccessInit, InitRequests
<1>1. TypeOK
  BY DEF TypeOK, ROLE_PERMISSIONS, Roles, Permissions, Manage, Registered
<1>2. RequestsOK
  BY IdleIsTxn DEF RequestsOK, TxnOK, Idle, NoAsk, ROLE_PERMISSIONS
<1>3. FirstIsAdmin /\ AloneOK
  BY DEF FirstIsAdmin, AloneOK, Registered, Founders, Doing, Idle, NoAsk
<1> QED
  BY <1>1, <1>2, <1>3 DEF IInv

-----------------------------------------------------------------------------
\* A request that begins without changing a table.
LEMMA Begins ==
    ASSUME IInv, NEW c \in Clients, NEW a \in Asks \ {NoAsk},
           NEW row \in User \cup Key \cup {Absent},
           NEW kids \in SUBSET (Accounts \cup Permissions \cup Roles),
           Begin(c, a, row, kids), UNCHANGED accessVars,
           a.op = "register" => kids = Registered,
           a.op = "create_role" => a.role \in CustomRoles,
           a.op = "update_role" => a.role \in DOMAIN roles /\ kids \subseteq Permissions,
           a.op = "update_user" => a.user \in Registered /\ row \in User,
           a.op \in {"assign_role", "revoke_role"} => a.user \in Registered /\ a.role \in DOMAIN roles,
           a.op = "create_key" => a.by \in Registered
    PROVE  IInv'
<1>1. TypeOK'
  BY DEF IInv, TypeOK, accessVars, Registered
<1> DEFINE t == [ask |-> a, row |-> row, kids |-> kids, n |-> asked + 1]
<1>2. t \in Txn
  BY DEF Txn, IInv, RequestsOK
<1>3. txn' = [txn EXCEPT ![c] = t] /\ asked' = asked + 1 /\ Registered' = Registered
      /\ roles' = roles
  BY DEF Begin, accessVars, Registered
<1>4. txn'[c] = t /\ \A d \in Clients \ {c} : txn'[d] = txn[d]
  BY <1>3 DEF IInv, RequestsOK
<1>5. ASSUME NEW d \in Clients PROVE TxnOK(d)'
  <2>1. CASE d = c
    BY <1>3, <1>4, <2>1 DEF TxnOK
  <2>2. CASE d # c
    BY <1>3, <1>4, <2>2 DEF TxnOK, IInv, RequestsOK
  <2> QED
    BY <2>1, <2>2
<1>6. overlap' \in BOOLEAN
  BY DEF Begin, IInv, RequestsOK
<1>7. RequestsOK'
  BY <1>2, <1>3, <1>5, <1>6 DEF IInv, RequestsOK
<1>8. FirstIsAdmin'
  BY <1>3 DEF Begin, IInv, FirstIsAdmin, Registered, Founders, accessVars
<1>9. AloneOK'
  <2> SUFFICES ASSUME ~overlap'
               PROVE  /\ \A d, e \in Clients : txn'[d] # Idle /\ txn'[e] # Idle => d = e
                      /\ \A d \in Clients : txn'[d].ask.op = "register" => txn'[d].kids = Registered'
    BY DEF AloneOK, Doing
  <2>1. ~overlap /\ \A d \in Clients : txn[d] = Idle
    BY DEF Begin, IInv, RequestsOK
  <2>2. \A d \in Clients \ {c} : txn'[d] = Idle
    BY <1>4, <2>1
  <2>3. Idle.ask.op = "none"
    BY DEF Idle, NoAsk
  <2>4. t.ask.op = "register" => t.kids = Registered'
    BY <1>3
  <2> HIDE DEF t
  <2> QED
    BY <1>4, <2>2, <2>3, <2>4
<1> QED
  BY <1>1, <1>7, <1>8, <1>9 DEF IInv

\* A request that ends, whatever it has written: accounts and roles stay.
LEMMA Ends ==
    ASSUME IInv, NEW c \in Clients, txn[c] # Idle, Done(c),
           Registered \subseteq Registered', DOMAIN roles \subseteq DOMAIN roles'
    PROVE  RequestsOK' /\ AloneOK'
<1>1. txn'[c] = Idle /\ \A d \in Clients \ {c} : txn'[d] = txn[d]
  BY DEF Done, IInv, RequestsOK
<1>2. Idle.ask.op = "none"
  BY DEF Idle, NoAsk
<1>3. \A d \in Clients : TxnOK(d)'
  <2> SUFFICES ASSUME NEW d \in Clients PROVE TxnOK(d)'
    OBVIOUS
  <2>1. CASE d = c
    BY <1>1, <1>2, <2>1 DEF TxnOK
  <2>2. CASE d # c
    BY <1>1, <2>2 DEF TxnOK, IInv, RequestsOK
  <2> QED
    BY <2>1, <2>2
<1>4. RequestsOK'
  BY <1>3, IdleIsTxn DEF Done, IInv, RequestsOK
<1>5. AloneOK'
  <2> SUFFICES ASSUME ~overlap'
               PROVE  /\ \A d, e \in Clients : txn'[d] # Idle /\ txn'[e] # Idle => d = e
                      /\ \A d \in Clients : txn'[d].ask.op = "register" => txn'[d].kids = Registered'
    BY DEF AloneOK, Doing
  <2>1. \A d \in Clients \ {c} : txn[d] = Idle
    BY DEF Done, IInv, AloneOK
  <2> QED
    BY <1>1, <1>2, <2>1
<1> QED
  BY <1>4, <1>5

\* A request that ends and leaves the accounts alone.
LEMMA EndsElsewhere ==
    ASSUME IInv, NEW c \in Clients, txn[c] # Idle, Done(c), TypeOK',
           UNCHANGED users, DOMAIN roles \subseteq DOMAIN roles'
    PROVE  IInv'
<1>1. Registered' = Registered /\ Founders' = Founders /\ overlap' = overlap
  BY DEF Registered, Founders, Done
<1>2. FirstIsAdmin'
  BY <1>1 DEF IInv, FirstIsAdmin
<1> QED
  BY <1>1, <1>2, Ends DEF IInv

LEMMA Busy == ASSUME NEW c, NEW op, op # "none", Doing(c, op) PROVE txn[c] # Idle
  BY DEF Doing, Idle, NoAsk

LEMMA RegisterOK == ASSUME IInv, NEW c \in Clients, Register(c) PROVE IInv'
<1> USE AccessAssumption
<1> DEFINE u == txn[c].ask.by
           row == [active |-> TRUE, founder |-> First(txn[c].kids)]
<1>1. u \in Accounts /\ users[u] = Absent /\ txn[c] # Idle
  <2>1. txn[c] \in Txn /\ txn[c].ask.op = "register"
    BY DEF Register, Doing, IInv, RequestsOK
  <2>2. u \in Accounts
    BY <2>1, Fields
  <2>3. txn[c] # Idle
    BY <2>1, Busy DEF Doing
  <2> QED
    BY <2>2, <2>3 DEF Register
<1>2. row \in User /\ row # Absent
  <2>1. First(txn[c].kids) \in BOOLEAN
    BY DEF First
  <2>2. row \in User
    BY <2>1 DEF User
  <2> QED
    BY <2>2
<1>3. users' = [users EXCEPT ![u] = row] /\ users \in [Accounts -> User \cup {Absent}]
  BY DEF Register, IInv, TypeOK
<1>4. Registered' = Registered \cup {u} /\ u \notin Registered
  BY <1>1, <1>2, <1>3 DEF Registered
<1>5. TypeOK'
  <2>1. users' \in [Accounts -> User \cup {Absent}]
    BY <1>1, <1>2, <1>3
  <2>2. userRoles' \subseteq Registered' \X DOMAIN roles'
    BY <1>4 DEF Register, First, IInv, TypeOK, RequestsOK
  <2> QED
    BY <1>4, <2>1, <2>2 DEF Register, IInv, TypeOK
<1>6. Founders' = IF txn[c].kids = {} THEN Founders \cup {u} ELSE Founders
  <2>1. \A v \in Accounts \ {u} : users'[v] = users[v]
    BY <1>1, <1>3
  <2>2. users'[u].founder = (txn[c].kids = {})
    BY <1>1, <1>3 DEF First
  <2> QED
    BY <1>4, <2>1, <2>2 DEF Founders, Registered
<1>7. txn[c].kids \subseteq Registered
  BY DEF Register, Doing, IInv, RequestsOK, TxnOK
<1>8. FirstIsAdmin'
  <2>1. Founders' # {}
    BY <1>6, <1>7 DEF IInv, FirstIsAdmin
  <2>2. ASSUME ~overlap', NEW v \in Founders', NEW w \in Founders' PROVE v = w
    <3>1. ~overlap /\ txn[c].kids = Registered
      BY <2>2 DEF Register, Done, IInv, AloneOK
    <3>2. Registered = {} => Founders = {}
      BY DEF Founders
    <3> QED
      BY <1>6, <2>2, <3>1, <3>2 DEF IInv, FirstIsAdmin
  <2> QED
    BY <2>1, <2>2 DEF FirstIsAdmin
<1>9. RequestsOK' /\ AloneOK'
  BY <1>1, <1>4, Ends DEF Register
<1> QED
  BY <1>5, <1>8, <1>9 DEF IInv

LEMMA UpdateUserOK == ASSUME IInv, NEW c \in Clients, UpdateUser(c) PROVE IInv'
<1> USE AccessAssumption
<1> DEFINE u == txn[c].ask.user
           row == WrittenUser(users[u], txn[c].row, txn[c].ask)
<1>1. u \in Registered /\ txn[c].row \in User /\ txn[c].ask.active \in BOOLEAN /\ txn[c] # Idle
  BY Fields, Busy DEF UpdateUser, Doing, IInv, RequestsOK, TxnOK
<1>2. u \in Accounts /\ users[u] \in User
  BY <1>1 DEF Registered, IInv, TypeOK
<1>3. row \in User /\ row.founder = users[u].founder /\ row # Absent
  BY <1>1, <1>2 DEF WrittenUser, Column, User
<1>4. users' = [users EXCEPT ![u] = row] /\ users \in [Accounts -> User \cup {Absent}]
  BY DEF UpdateUser, IInv, TypeOK
<1>5. users'[u] = row /\ \A v \in Accounts \ {u} : users'[v] = users[v]
  BY <1>2, <1>4
<1> HIDE DEF row
<1>6. Registered' = Registered
  BY <1>1, <1>2, <1>3, <1>5 DEF Registered
<1>7. Founders' = Founders
  BY <1>3, <1>5, <1>6 DEF Founders, Registered
<1>8. TypeOK'
  <2>1. users' \in [Accounts -> User \cup {Absent}]
    BY <1>2, <1>3, <1>4
  <2> QED
    BY <1>6, <2>1 DEF UpdateUser, IInv, TypeOK
<1>9. FirstIsAdmin'
  BY <1>6, <1>7 DEF UpdateUser, Done, IInv, FirstIsAdmin
<1>10. RequestsOK' /\ AloneOK'
  BY <1>1, <1>6, Ends DEF UpdateUser
<1> QED
  BY <1>8, <1>9, <1>10 DEF IInv

\* The steps of requests that leave the accounts alone.
LEMMA ElsewhereOK ==
    ASSUME IInv, NEW c \in Clients,
           \/ CreateRole(c) \/ UpdateRole(c) \/ AssignRole(c) \/ RevokeRole(c)
           \/ CreateKey(c) \/ RevokeKey(c) \/ SdkCall(c) \/ GiveUpAccess(c)
    PROVE  IInv'
<1> DEFINE t == txn[c]
<1>0. t \in Txn /\ TypeOK /\ TxnOK(c)
  BY DEF IInv, RequestsOK
<1>1. CASE CreateRole(c)
  <2>1. t # Idle /\ t.ask.role \in CustomRoles /\ t.ask.permissions \in SUBSET Permissions
    BY <1>0, <1>1, Fields, Busy DEF CreateRole, Doing, TxnOK
  <2>2. DOMAIN roles' = DOMAIN roles \cup {t.ask.role}
    BY <1>1 DEF CreateRole
  <2>3. /\ DOMAIN roles' \in SUBSET Roles
        /\ roles' \in [DOMAIN roles' -> SUBSET Permissions]
    BY <1>0, <1>1, <2>1, <2>2 DEF CreateRole, TypeOK, Roles
  <2>4. userRoles' \subseteq Registered \X DOMAIN roles'
    BY <1>0, <1>1, <2>2 DEF CreateRole, TypeOK
  <2>5. TypeOK'
    BY <1>0, <1>1, <2>3, <2>4 DEF CreateRole, TypeOK, Registered
  <2> QED
    BY <1>1, <2>1, <2>2, <2>5, EndsElsewhere DEF CreateRole
<1>2. CASE UpdateRole(c)
  <2>1. /\ t # Idle /\ t.ask.role \in DOMAIN roles /\ t.ask.permissions \in SUBSET Permissions
        /\ t.kids \subseteq Permissions
    BY <1>0, <1>2, Fields, Busy DEF UpdateRole, Doing, TxnOK
  <2>2. Replaced(roles[t.ask.role], t.kids, t.ask.permissions) \in SUBSET Permissions
    BY <1>0, <2>1 DEF Replaced, TypeOK
  <2>3. DOMAIN roles' = DOMAIN roles /\ roles' \in [DOMAIN roles -> SUBSET Permissions]
    BY <1>0, <1>2, <2>1, <2>2 DEF UpdateRole, TypeOK
  <2>4. TypeOK'
    BY <1>0, <1>2, <2>3 DEF UpdateRole, TypeOK, Registered
  <2> QED
    BY <1>2, <2>1, <2>3, <2>4, EndsElsewhere DEF UpdateRole
<1>3. CASE AssignRole(c)
  <2>1. t # Idle /\ t.ask.user \in Registered /\ t.ask.role \in DOMAIN roles
    BY <1>0, <1>3, Busy DEF AssignRole, Doing, TxnOK
  <2>2. TypeOK'
    BY <1>0, <1>3, <2>1 DEF AssignRole, TypeOK, Registered
  <2> QED
    BY <1>3, <2>1, <2>2, EndsElsewhere DEF AssignRole
<1>4. CASE RevokeRole(c)
  <2>1. t # Idle
    BY <1>4, Busy DEF RevokeRole
  <2>2. TypeOK'
    BY <1>0, <1>4 DEF RevokeRole, TypeOK, Registered
  <2> QED
    BY <1>4, <2>1, <2>2, EndsElsewhere DEF RevokeRole
<1>5. CASE CreateKey(c)
  <2>1. t # Idle /\ t.ask.by \in Registered /\ t.ask.all \in BOOLEAN /\ t.n \in Nat
    BY <1>0, <1>5, Fields, Busy DEF CreateKey, Doing, TxnOK
  <2> DEFINE new == [id |-> t.n, owner |-> t.ask.by, active |-> TRUE, all |-> t.ask.all]
  <2>2. new \in Key /\ new.owner \in Registered /\ keys' = keys \cup {new}
    BY <1>5, <2>1 DEF CreateKey, Key, Registered
  <2> HIDE DEF new
  <2>3. keys' \subseteq Key /\ \A k \in keys' : k.owner \in Registered
    BY <1>0, <2>2 DEF TypeOK
  <2>4. TypeOK'
    BY <1>0, <1>5, <2>3 DEF CreateKey, TypeOK, Registered
  <2> QED
    BY <1>5, <2>1, <2>4, EndsElsewhere DEF CreateKey
<1>6. CASE RevokeKey(c)
  <2>1. t # Idle
    BY <1>6, Busy DEF RevokeKey
  <2>2. \A k \in Key : [k EXCEPT !.active = FALSE] \in Key /\ [k EXCEPT !.active = FALSE].owner = k.owner
    BY DEF Key
  <2>3. keys' \subseteq Key /\ \A k \in keys' : k.owner \in Registered
    BY <1>0, <1>6, <2>2 DEF RevokeKey, TypeOK
  <2>4. TypeOK'
    BY <1>0, <1>6, <2>3 DEF RevokeKey, TypeOK, Registered
  <2> QED
    BY <1>6, <2>1, <2>4, EndsElsewhere DEF RevokeKey
<1>7. CASE SdkCall(c) \/ GiveUpAccess(c)
  <2>1. t # Idle /\ Done(c) /\ UNCHANGED accessVars
    BY <1>7, Busy DEF SdkCall, GiveUpAccess, Fail
  <2>2. TypeOK'
    BY <1>0, <2>1 DEF accessVars, TypeOK, Registered
  <2> QED
    BY <2>1, <2>2, EndsElsewhere DEF accessVars
<1> QED
  BY <1>1, <1>2, <1>3, <1>4, <1>5, <1>6, <1>7

\* The steps in which a request begins.
LEMMA AsksOK ==
    ASSUME IInv, NEW c \in Clients,
           AskRegister(c) \/ AskManage(c) \/ AskKey(c) \/ AskSdk(c)
    PROVE  IInv'
<1> USE AccessAssumption
<1>0. TypeOK /\ RequestsOK /\ Registered \subseteq Accounts /\ \A u \in Registered : users[u] \in User
  BY DEF IInv, TypeOK, Registered
<1>1. CASE AskRegister(c)
  <2>1. PICK u \in Accounts \ Registered :
           Begin(c, [op |-> "register", by |-> u], Absent, Registered)
    BY <1>1 DEF AskRegister
  <2>2. [op |-> "register", by |-> u] \in Asks \ {NoAsk}
    BY DEF Asks, NoAsk
  <2>3. Registered \in SUBSET (Accounts \cup Permissions \cup Roles)
    BY <1>0
  <2> QED
    BY <1>1, <2>1, <2>2, <2>3, Begins DEF AskRegister
<1>2. CASE AskManage(c)
  <2>1. PICK u \in Accounts : \E a \in ManageAsks(u) :
           Begin(c, a, IF a.op = "update_user" THEN users[a.user] ELSE Absent, Hanging(a))
    BY <1>2 DEF AskManage
  <2>2. PICK a \in ManageAsks(u) :
           Begin(c, a, IF a.op = "update_user" THEN users[a.user] ELSE Absent, Hanging(a))
    BY <2>1
  <2>3. /\ a.op \in ManageOps
        /\ a.op = "create_role" => a.role \in CustomRoles
        /\ a.op = "update_role" => a.role \in DOMAIN roles
        /\ a.op = "update_user" => a.user \in Registered
        /\ a.op \in {"assign_role", "revoke_role"} => a.user \in Registered /\ a.role \in DOMAIN roles
    BY DEF ManageAsks, ManageOps
  <2>4. a \in Asks \ {NoAsk}
    BY <1>0 DEF ManageAsks, Asks, NoAsk, TypeOK, Roles
  <2>5. (IF a.op = "update_user" THEN users[a.user] ELSE Absent) \in User \cup Key \cup {Absent}
    BY <1>0, <2>3
  <2>6. a.op = "update_role" => Hanging(a) \subseteq Permissions
    BY <1>0, <2>3 DEF Hanging, TypeOK
  <2>7. Hanging(a) \in SUBSET (Accounts \cup Permissions \cup Roles)
    BY <1>0, <2>3, <2>6 DEF Hanging, ManageOps, TypeOK
  <2>8. UNCHANGED accessVars
    BY <1>2 DEF AskManage
  <2>9. a.op = "update_user" => (IF a.op = "update_user" THEN users[a.user] ELSE Absent) \in User
    BY <1>0, <2>3
  <2>10. a.op # "register" /\ a.op # "create_key"
    BY <2>3 DEF ManageOps
  <2> QED
    BY <2>2, <2>3, <2>4, <2>5, <2>6, <2>7, <2>8, <2>9, <2>10, Begins
<1>3. CASE AskKey(c)
  <2>1. PICK u \in Accounts :
           /\ CurrentUser(u)
           /\ \/ \E all \in BOOLEAN :
                     Begin(c, [op |-> "create_key", by |-> u, all |-> all], Absent, {})
              \/ \E k \in keys :
                    /\ k.owner = u
                    /\ Begin(c, [op |-> "revoke_key", by |-> u, key |-> k.id], k, {})
    BY <1>3 DEF AskKey
  <2>2. u \in Registered
    BY <2>1 DEF CurrentUser, Active
  <2>3. UNCHANGED accessVars
    BY <1>3 DEF AskKey
  <2>4. ASSUME NEW all \in BOOLEAN,
               Begin(c, [op |-> "create_key", by |-> u, all |-> all], Absent, {})
        PROVE  IInv'
    <3>1. [op |-> "create_key", by |-> u, all |-> all] \in Asks \ {NoAsk}
      BY DEF Asks, NoAsk
    <3> QED
      BY <2>2, <2>3, <2>4, <3>1, Begins
  <2>5. ASSUME NEW k \in keys, Begin(c, [op |-> "revoke_key", by |-> u, key |-> k.id], k, {})
        PROVE  IInv'
    <3>1. k \in Key /\ k.id \in Nat
      BY <1>0 DEF TypeOK, Key
    <3>2. [op |-> "revoke_key", by |-> u, key |-> k.id] \in Asks \ {NoAsk}
      BY <3>1 DEF Asks, NoAsk
    <3> QED
      BY <2>3, <2>5, <3>1, <3>2, Begins
  <2> QED
    BY <2>1, <2>4, <2>5
<1>4. CASE AskSdk(c)
  <2>1. PICK u \in Accounts : Begin(c, [op |-> "sdk_call", by |-> u], Absent, {})
    BY <1>4 DEF AskSdk
  <2>2. [op |-> "sdk_call", by |-> u] \in Asks \ {NoAsk}
    BY DEF Asks, NoAsk
  <2> QED
    BY <1>4, <2>1, <2>2, Begins DEF AskSdk
<1> QED
  BY <1>1, <1>2, <1>3, <1>4

LEMMA TokensOK == ASSUME IInv, NEW u \in Accounts, Login(u) \/ Expire(u) PROVE IInv'
<1>1. UNCHANGED <<users, roles, userRoles, keys, requestVars>> /\ tokens' \subseteq Registered
  BY DEF Login, Expire, Active, IInv, TypeOK
<1>2. Registered' = Registered /\ Founders' = Founders
  BY <1>1 DEF Registered, Founders
<1> QED
  BY <1>1, <1>2 DEF requestVars, IInv, TypeOK, RequestsOK, TxnOK, FirstIsAdmin, AloneOK, Doing

LEMMA StutterOK == ASSUME IInv, UNCHANGED allAccessVars PROVE IInv'
<1>1. Registered' = Registered /\ Founders' = Founders
  BY DEF allAccessVars, accessVars, Registered, Founders
<1> QED
  BY <1>1 DEF allAccessVars, accessVars, requestVars, IInv, TypeOK, RequestsOK, TxnOK, FirstIsAdmin, AloneOK, Doing

LEMMA Inductive == AccessSpec => []IInv
<1>1. IInv /\ [AccessNext]_allAccessVars => IInv'
  BY RegisterOK, UpdateUserOK, ElsewhereOK, AsksOK, TokensOK, StutterOK DEF AccessNext, AccessStep
<1> QED
  BY InitOK, <1>1, PTL DEF AccessSpec

-----------------------------------------------------------------------------
\* Roles, keys and tokens belong to accounts, and the platform began with one
\* administrator: a second founder only comes from registrations that
\* overlap (create_user counts the users and inserts later).
THEOREM TablesAreIntact == AccessSpec => []AccessIntact
  BY Inductive, PTL DEF IInv, AccessIntact

-----------------------------------------------------------------------------
(* The action properties need only the types.                                *)

\* What a request that begins is and by whom it is asked.
LEMMA WhoBegins ==
    ASSUME IInv, NEW c \in Clients, AccessStep(c)
    PROVE  \/ Done(c) /\ txn[c] # Idle
           \/ /\ UNCHANGED accessVars /\ txn[c] = Idle
              /\ \E u, row, kids, a :
                    /\ u \in Accounts
                    /\ Begin(c, a, row, kids) /\ a.by = u /\ a.op # "none"
                    /\ a.op \in ManageOps => Holds(u, Manage)
                    /\ a.op = "register" => u \notin Registered /\ kids = Registered
                    /\ a.op # "register" => Active(u)
<1> USE DEF ManageOps
<1>1. CASE AskRegister(c)
  <2>1. PICK u \in Accounts \ Registered :
           Begin(c, [op |-> "register", by |-> u], Absent, Registered)
    BY <1>1 DEF AskRegister
  <2>2. PICK a : a = [op |-> "register", by |-> u]
    OBVIOUS
  <2>3. a.by = u /\ a.op = "register"
    BY <2>2
  <2>4. txn[c] = Idle
    BY <2>1 DEF Begin
  <2> QED
    BY <1>1, <2>1, <2>2, <2>3, <2>4 DEF AskRegister
<1>2. CASE AskManage(c)
  <2>1. PICK u \in Accounts : Holds(u, Manage) /\ \E a \in ManageAsks(u) :
           Begin(c, a, IF a.op = "update_user" THEN users[a.user] ELSE Absent, Hanging(a))
    BY <1>2 DEF AskManage
  <2>2. PICK a \in ManageAsks(u) :
           Begin(c, a, IF a.op = "update_user" THEN users[a.user] ELSE Absent, Hanging(a))
    BY <2>1
  <2>3. a.by = u /\ a.op \in ManageOps
    BY DEF ManageAsks
  <2>4. Active(u)
    BY <2>1 DEF Holds, CurrentUser
  <2> QED
    BY <1>2, <2>1, <2>2, <2>3, <2>4 DEF AskManage, Begin
<1>3. CASE AskKey(c)
  <2>1. PICK u \in Accounts :
           /\ CurrentUser(u)
           /\ \/ \E all \in BOOLEAN :
                     Begin(c, [op |-> "create_key", by |-> u, all |-> all], Absent, {})
              \/ \E k \in keys :
                    /\ k.owner = u
                    /\ Begin(c, [op |-> "revoke_key", by |-> u, key |-> k.id], k, {})
    BY <1>3 DEF AskKey
  <2>2. Active(u)
    BY <2>1 DEF CurrentUser
  <2>3. PICK row, kids, a :
           Begin(c, a, row, kids) /\ a.by = u /\ a.op \in {"create_key", "revoke_key"}
    <3>1. ASSUME NEW all \in BOOLEAN,
                 Begin(c, [op |-> "create_key", by |-> u, all |-> all], Absent, {})
          PROVE  \E row, kids, a :
                    Begin(c, a, row, kids) /\ a.by = u /\ a.op \in {"create_key", "revoke_key"}
      <4>1. PICK a : a = [op |-> "create_key", by |-> u, all |-> all]
        OBVIOUS
      <4> QED
        BY <3>1, <4>1
    <3>2. ASSUME NEW k \in keys, Begin(c, [op |-> "revoke_key", by |-> u, key |-> k.id], k, {})
          PROVE  \E row, kids, a :
                    Begin(c, a, row, kids) /\ a.by = u /\ a.op \in {"create_key", "revoke_key"}
      <4>1. PICK a : a = [op |-> "revoke_key", by |-> u, key |-> k.id]
        OBVIOUS
      <4> QED
        BY <3>2, <4>1
    <3> QED
      BY <2>1, <3>1, <3>2
  <2>4. txn[c] = Idle
    BY <2>3 DEF Begin
  <2> QED
    BY <1>3, <2>2, <2>3, <2>4 DEF AskKey
<1>4. CASE AskSdk(c)
  <2>1. PICK u \in Accounts, scope \in Scopes :
           /\ CurrentUser(u) \/ \E k \in keys : k.owner = u /\ KeyAdmits(k, scope)
           /\ Begin(c, [op |-> "sdk_call", by |-> u], Absent, {})
    BY <1>4 DEF AskSdk
  <2>2. Active(u)
    BY <2>1 DEF CurrentUser, KeyAdmits
  <2>3. PICK a : a = [op |-> "sdk_call", by |-> u]
    OBVIOUS
  <2>4. a.by = u /\ a.op = "sdk_call"
    BY <2>3
  <2>5. txn[c] = Idle
    BY <2>1 DEF Begin
  <2> QED
    BY <1>4, <2>1, <2>2, <2>3, <2>4, <2>5 DEF AskSdk
<1>5. CASE \/ Register(c) \/ CreateRole(c) \/ UpdateRole(c) \/ UpdateUser(c) \/ AssignRole(c)
           \/ RevokeRole(c) \/ CreateKey(c) \/ RevokeKey(c) \/ SdkCall(c) \/ GiveUpAccess(c)
  <2>1. Done(c)
    BY <1>5 DEF Register, CreateRole, UpdateRole, UpdateUser, AssignRole, RevokeRole, CreateKey,
       RevokeKey, SdkCall, GiveUpAccess, Fail
  <2>2. txn[c] # Idle
    BY <1>5, Busy DEF Register, CreateRole, UpdateRole, UpdateUser, AssignRole, RevokeRole, CreateKey,
       RevokeKey, SdkCall, GiveUpAccess, Fail
  <2> QED
    BY <2>1, <2>2
<1> QED
  BY <1>1, <1>2, <1>3, <1>4, <1>5 DEF AccessStep

\* Who is locked out stays locked out: no request in flight changes accounts,
\* roles or permissions, and none of that kind begins.
LEMMA LockedKept == ASSUME IInv, Locked, [AccessNext]_allAccessVars PROVE Locked'
<1>0. /\ TypeOK /\ RequestsOK
      /\ \A c \in Clients : txn[c].ask.op \notin ManageOps
  BY DEF IInv, Locked, InFlight, Doing
<1>1. ASSUME UNCHANGED <<users, roles, userRoles>>,
             \A c \in Clients : txn'[c].ask.op \notin ManageOps,
             \A c \in Clients : txn'[c].ask.op = "register" => txn'[c].kids # {}
      PROVE  Locked'
  <2>1. Registered' = Registered /\ \A u \in Accounts : Active(u)' = Active(u)
    BY <1>1 DEF Registered, Active
  <2>2. \A u \in Accounts : PermissionsOf(u)' = PermissionsOf(u)
    BY <1>1 DEF PermissionsOf
  <2> QED
    BY <1>1, <2>1, <2>2 DEF Locked, InFlight, Doing
<1>2. ASSUME UNCHANGED <<users, roles, userRoles, txn>> PROVE Locked'
  BY <1>0, <1>1, <1>2 DEF Locked, Doing
<1>3. ASSUME NEW c \in Clients, AccessStep(c) PROVE Locked'
  <2>1. CASE Done(c) /\ UNCHANGED <<users, roles, userRoles>>
    <3>1. txn'[c] = Idle /\ \A d \in Clients \ {c} : txn'[d] = txn[d]
      BY <1>0, <2>1 DEF Done, RequestsOK
    <3>2. Idle.ask.op = "none" /\ "none" \notin ManageOps
      BY DEF Idle, NoAsk, ManageOps
    <3> QED
      BY <1>0, <1>1, <2>1, <3>1, <3>2 DEF Locked, Doing
  <2>2. CASE Register(c)
    <3>1. txn[c].kids # {} /\ ~First(txn[c].kids)
      BY <2>2 DEF Register, Locked, First
    <3>2. PICK u \in Accounts : u = txn[c].ask.by /\ users[u] = Absent
      <4>1. txn[c] \in Txn /\ txn[c].ask.op = "register"
        BY <1>0, <2>2 DEF Register, Doing, RequestsOK
      <4> QED
        BY <2>2, <4>1, Fields DEF Register
    <3>3. userRoles' = userRoles \cup {<<u, "viewer">>} /\ roles' = roles
      BY <2>2, <3>1, <3>2 DEF Register
    <3>4. \A x : <<u, x>> \notin userRoles
      BY <1>0, <3>2 DEF TypeOK, Registered
    <3>5. Manage \notin PermissionsOf(u)'
      <4>1. {x \in DOMAIN roles' : <<u, x>> \in userRoles'} \subseteq {"viewer"}
        BY <3>3, <3>4
      <4>2. Manage \notin roles'["viewer"]
        BY <3>3 DEF Locked
      <4> QED
        BY <4>1, <4>2 DEF PermissionsOf
    <3>6. \A v \in Accounts \ {u} : PermissionsOf(v)' = PermissionsOf(v)
      BY <3>3 DEF PermissionsOf
    <3>7. \A v \in Accounts \ {u} : users'[v] = users[v]
      BY <1>0, <2>2, <3>2 DEF Register, TypeOK
    <3>8. \A v \in Accounts : Active(v)' => Manage \notin PermissionsOf(v)'
      <4> SUFFICES ASSUME NEW v \in Accounts, Active(v)' PROVE Manage \notin PermissionsOf(v)'
        OBVIOUS
      <4>1. CASE v = u
        BY <3>5, <4>1
      <4>2. CASE v # u
        <5>1. Active(v) /\ PermissionsOf(v)' = PermissionsOf(v)
          BY <3>6, <3>7, <4>2 DEF Active, Registered
        <5> QED
          BY <5>1 DEF Locked
      <4> QED
        BY <4>1, <4>2
    <3>9. Registered' # {}
      BY <3>2, <3>7 DEF Locked, Registered
    <3>10. txn'[c] = Idle /\ \A d \in Clients \ {c} : txn'[d] = txn[d]
      BY <1>0, <2>2 DEF Register, Done, RequestsOK
    <3>11. Idle.ask.op = "none" /\ "none" \notin ManageOps
      BY DEF Idle, NoAsk, ManageOps
    <3> QED
      BY <1>0, <3>3, <3>8, <3>9, <3>10, <3>11 DEF Locked, InFlight, Doing
  <2>3. CASE CreateRole(c) \/ UpdateRole(c) \/ UpdateUser(c) \/ AssignRole(c) \/ RevokeRole(c)
    BY <1>0, <2>3 DEF CreateRole, UpdateRole, UpdateUser, AssignRole, RevokeRole, Doing, ManageOps
  <2>4. CASE CreateKey(c) \/ RevokeKey(c) \/ SdkCall(c) \/ GiveUpAccess(c)
    BY <2>1, <2>4 DEF CreateKey, RevokeKey, SdkCall, GiveUpAccess, Fail, accessVars
  <2>5. CASE UNCHANGED accessVars /\ txn[c] = Idle
    <3>1. PICK u, row, kids, a :
             /\ u \in Accounts
             /\ Begin(c, a, row, kids)
             /\ a.op \in ManageOps => Holds(u, Manage)
             /\ a.op = "register" => kids = Registered
      BY <1>3, <2>5, WhoBegins
    <3>2. ~Holds(u, Manage)
      BY <3>1 DEF Locked, Holds, CurrentUser
    <3>3. /\ txn'[c].ask = a /\ txn'[c].kids = kids
          /\ \A d \in Clients \ {c} : txn'[d] = txn[d]
      BY <1>0, <3>1 DEF Begin, RequestsOK
    <3> QED
      BY <1>0, <1>1, <2>5, <3>1, <3>2, <3>3 DEF Locked, Doing, accessVars
  <2>6. CASE AskRegister(c) \/ AskManage(c) \/ AskKey(c) \/ AskSdk(c)
    BY <2>5, <2>6 DEF AskRegister, AskManage, AskKey, AskSdk, Begin
  <2> QED
    BY <1>3, <2>2, <2>3, <2>4, <2>6 DEF AccessStep
<1>4. ASSUME NEW u \in Accounts, Login(u) \/ Expire(u) PROVE Locked'
  BY <1>2, <1>4 DEF Login, Expire, requestVars
<1>5. ASSUME UNCHANGED allAccessVars PROVE Locked'
  BY <1>2, <1>5 DEF allAccessVars, accessVars, requestVars
<1> QED
  BY <1>3, <1>4, <1>5 DEF AccessNext

\* users:manage comes from somebody who has it (require_permission); nothing
\* keeps the last one from losing it, and nothing brings it back.
THEOREM PowerHasASource == AccessSpec => NoPowerFromNowhere
<1>1. IInv /\ [AccessNext]_allAccessVars => [Locked => Locked']_allAccessVars
  BY LockedKept
<1> QED
  BY <1>1, Inductive, PTL DEF AccessSpec, NoPowerFromNowhere

\* No step lets a user in who is out, except one that somebody else begins.
LEMMA OutKept ==
    ASSUME IInv, NEW u \in Accounts, Out(u), [AccessNext]_allAccessVars,
           ~\E c \in Clients : /\ Begun(c)
                               /\ txn'[c].ask.op = "update_user" /\ txn'[c].ask.user = u
                               /\ txn'[c].ask.by # u
    PROVE  Out(u)'
<1>0. TypeOK /\ RequestsOK /\ u \in Registered /\ ~Active(u)
  BY DEF IInv, Out, Active
<1>1. ASSUME UNCHANGED <<users, txn>> PROVE Out(u)'
  BY <1>1 DEF Out, Registered, Doing
<1>2. ASSUME NEW c \in Clients, AccessStep(c) PROVE Out(u)'
  <2>1. ASSUME users'[u] = users[u], Done(c) PROVE Out(u)'
    <3>1. txn'[c] = Idle /\ \A d \in Clients \ {c} : txn'[d] = txn[d]
      BY <1>0, <2>1 DEF Done, RequestsOK
    <3>2. Idle.ask.op = "none"
      BY DEF Idle, NoAsk
    <3> QED
      BY <2>1, <3>1, <3>2 DEF Out, Registered, Doing
  <2>2. CASE Register(c)
    <3>1. txn[c].ask.by # u
      BY <1>0, <2>2, Busy DEF Register, Out
    <3> QED
      BY <1>0, <2>1, <2>2, <3>1 DEF Register, TypeOK
  <2>3. CASE UpdateUser(c)
    <3>1. txn[c].ask.user # u
      BY <2>3 DEF UpdateUser, Out
    <3> QED
      BY <1>0, <2>1, <2>3, <3>1 DEF UpdateUser, TypeOK
  <2>4. CASE CreateRole(c) \/ UpdateRole(c) \/ AssignRole(c) \/ RevokeRole(c)
             \/ CreateKey(c) \/ RevokeKey(c) \/ SdkCall(c) \/ GiveUpAccess(c)
    BY <2>1, <2>4 DEF CreateRole, UpdateRole, AssignRole, RevokeRole, CreateKey, RevokeKey,
       SdkCall, GiveUpAccess, Fail, accessVars
  <2>5. CASE UNCHANGED accessVars /\ txn[c] = Idle
    <3>1. PICK v, row, kids, a :
             /\ v \in Accounts
             /\ Begin(c, a, row, kids) /\ a.by = v /\ a.op # "none"
             /\ a.op = "register" => v \notin Registered
             /\ a.op # "register" => Active(v)
      BY <1>2, <2>5, WhoBegins
    <3>2. v # u
      BY <1>0, <3>1
    <3>3. txn'[c].ask = a /\ \A d \in Clients \ {c} : txn'[d] = txn[d]
      BY <1>0, <3>1 DEF Begin, RequestsOK
    <3>4. Begun(c)
      BY <2>5, <3>1, <3>3 DEF Begun, Idle, NoAsk
    <3>5. ~(a.op = "update_user" /\ a.user = u)
      BY <3>1, <3>2, <3>3, <3>4
    <3> QED
      BY <2>5, <3>1, <3>2, <3>3, <3>5 DEF Out, accessVars, Registered, Doing
  <2>6. CASE AskRegister(c) \/ AskManage(c) \/ AskKey(c) \/ AskSdk(c)
    BY <2>5, <2>6 DEF AskRegister, AskManage, AskKey, AskSdk, Begin
  <2> QED
    BY <1>2, <2>2, <2>3, <2>4, <2>6 DEF AccessStep
<1>3. ASSUME NEW v \in Accounts, Login(v) \/ Expire(v) PROVE Out(u)'
  BY <1>1, <1>3 DEF Login, Expire, requestVars
<1>4. ASSUME UNCHANGED allAccessVars PROVE Out(u)'
  BY <1>1, <1>4 DEF allAccessVars, accessVars, requestVars
<1> QED
  BY <1>2, <1>3, <1>4 DEF AccessNext

\* Nothing begins in the name of a user who is out (get_current_user and
\* require_sdk_scope look at the account each time), whatever the tokens, keys
\* and roles it still has; the way back is through somebody else.
THEOREM OutStaysOut == AccessSpec => OutIsOut
<1>1. IInv /\ [AccessNext]_allAccessVars =>
        [\A u \in Accounts : Out(u) /\ ~Out(u)' =>
           \E c \in Clients : /\ Begun(c)
                              /\ txn'[c].ask.op = "update_user" /\ txn'[c].ask.user = u
                              /\ txn'[c].ask.by # u]_allAccessVars
  BY OutKept
<1> QED
  BY <1>1, Inductive, PTL DEF AccessSpec, OutIsOut

=============================================================================
