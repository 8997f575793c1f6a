--------------------------- MODULE AccountsProofs ---------------------------
(***************************************************************************)
(* Theorems about Accounts, for every value of its constants: what it      *)
(* takes to lose the last administrator.                                   *)
(***************************************************************************)
EXTENDS Accounts, TLAPS

CreateRequest == [op : {"create"}, caller : Users, role : Roles]
RoleRequest == [op : {"role"}, caller : Users, user : Users, role : Roles]
RemoveRequest == [op : {"remove"}, caller : Users, user : Users]
UpdateRequest == [op : {"update"}, caller : Users, user : Users, role : Roles]

RequestTyped(request) ==
    \/ request = Idle
    \/ request \in CreateRequest
    \/ UpdateTakesRole /\ request \in UpdateRequest
    \/ (request \in RoleRequest \/ request \in RemoveRequest) /\ request.caller # request.user

LEMMA TypeParts ==
    TypeOK <=> /\ roles \in [Users -> Roles \cup {Null, Gone}]
               /\ sessions \subseteq {u \in Users : Exists(u)}
               /\ DOMAIN requests = Requests
               /\ \A q \in Requests : RequestTyped(requests[q])
  BY DEF TypeOK, RequestTyped, CreateRequest, RoleRequest, RemoveRequest, UpdateRequest

LEMMA RequestShapes ==
    ASSUME NEW request, RequestTyped(request)
    PROVE  /\ request.op = "create" => request \in CreateRequest
           /\ request.op = "role" => request \in RoleRequest /\ request.caller # request.user
           /\ request.op = "remove" => request \in RemoveRequest /\ request.caller # request.user
           /\ request.op = "update" => request \in UpdateRequest /\ UpdateTakesRole
  BY DEF RequestTyped, Idle, CreateRequest, RoleRequest, RemoveRequest, UpdateRequest

\* Only an update-user may be about its own caller.
LEMMA CallerOfRequest ==
    ASSUME TypeOK, NEW q \in Requests, requests[q].op \in {"role", "remove", "update"}
    PROVE  /\ requests[q].caller \in Users
           /\ requests[q].caller = requests[q].user => requests[q].op = "update" /\ UpdateTakesRole
  BY TypeParts, RequestShapes DEF RoleRequest, RemoveRequest, UpdateRequest

\* A request that begins is made by an administrator.
LEMMA Asked ==
    ASSUME TypeOK, NEW q \in Requests, Ask(q)
    PROVE  /\ UNCHANGED <<roles, sessions>>
           /\ \E request :
                 /\ requests' = [requests EXCEPT ![q] = request]
                 /\ RequestTyped(request)
                 /\ roles[request.caller] = "admin"
<1>1. ASSUME NEW request, Begin(q, request), request.caller \in Users
      PROVE  /\ UNCHANGED <<roles, sessions>>
             /\ requests' = [requests EXCEPT ![q] = request]
             /\ roles[request.caller] = "admin"
  BY <1>1 DEF Begin, May, Exists, Permissions, Roles
<1>2. PICK caller \in Users :
          \/ \E role \in Roles : BeginCreateUser(q, caller, role)
          \/ \E u \in Users, role \in Roles :
                BeginSetRole(q, caller, u, role) \/ BeginUpdateUser(q, caller, u, role)
          \/ \E u \in Users : BeginRemoveUser(q, caller, u)
  BY DEF Ask
<1>3. ASSUME NEW role \in Roles, BeginCreateUser(q, caller, role)
      PROVE  \E request : Begin(q, request) /\ request.caller \in Users /\ RequestTyped(request)
  BY <1>3 DEF BeginCreateUser, RequestTyped, CreateRequest
<1>4. ASSUME NEW u \in Users, NEW role \in Roles, BeginSetRole(q, caller, u, role)
      PROVE  \E request : Begin(q, request) /\ request.caller \in Users /\ RequestTyped(request)
  BY <1>4 DEF BeginSetRole, RequestTyped, RoleRequest
<1>5. ASSUME NEW u \in Users, BeginRemoveUser(q, caller, u)
      PROVE  \E request : Begin(q, request) /\ request.caller \in Users /\ RequestTyped(request)
  BY <1>5 DEF BeginRemoveUser, RequestTyped, RemoveRequest
<1>6. ASSUME NEW u \in Users, NEW role \in Roles, BeginUpdateUser(q, caller, u, role)
      PROVE  \E request : Begin(q, request) /\ request.caller \in Users /\ RequestTyped(request)
  BY <1>6 DEF BeginUpdateUser, RequestTyped, UpdateRequest
<1> QED
  BY <1>1, <1>2, <1>3, <1>4, <1>5, <1>6

\* A request that takes effect.
LEMMA Finished ==
    ASSUME TypeOK, NEW q \in Requests, Finish(q)
    PROVE  /\ requests' = [requests EXCEPT ![q] = Idle]
           /\ \/ /\ requests[q].op \in {"role", "update"} /\ UNCHANGED sessions
                 /\ roles' = IF Exists(requests[q].user)
                             THEN [roles EXCEPT ![requests[q].user] = requests[q].role] ELSE roles
              \/ /\ requests[q].op = "remove" /\ sessions' = sessions \ {requests[q].user}
                 /\ roles' = [roles EXCEPT ![requests[q].user] = Gone]
              \/ /\ requests[q].op = "create" /\ UNCHANGED sessions
                 /\ \E u \in Users : roles[u] = Null /\ roles' = [roles EXCEPT ![u] = requests[q].role]
  BY DEF Finish, SetRole, RemoveUser, CreateUser, End

-----------------------------------------------------------------------------
(* Type correctness. *)

LEMMA TypeInit == Init => TypeOK
<1> SUFFICES ASSUME Init PROVE TypeOK
  OBVIOUS
<1>1. roles \in [Users -> Roles \cup {Null, Gone}]
  BY DEF Init, Roles
<1> QED
  BY <1>1, TypeParts DEF Init, RequestTyped

LEMMA TypeNext ==
    ASSUME Null \notin Roles
    PROVE  TypeOK /\ [Next]_vars => TypeOK'
<1> SUFFICES ASSUME TypeOK, [Next]_vars PROVE TypeOK'
  OBVIOUS
<1>1. /\ roles \in [Users -> Roles \cup {Null, Gone}]
      /\ sessions \subseteq {u \in Users : Exists(u)}
      /\ DOMAIN requests = Requests
      /\ \A q \in Requests : RequestTyped(requests[q])
  BY TypeParts
<1> SUFFICES /\ roles' \in [Users -> Roles \cup {Null, Gone}]
             /\ sessions' \subseteq {u \in Users : roles'[u] \in Roles}
             /\ DOMAIN requests' = Requests
             /\ \A q \in Requests : RequestTyped(requests'[q])
  BY DEF TypeOK, Exists, RequestTyped, CreateRequest, RoleRequest, RemoveRequest, UpdateRequest
<1>2. ASSUME NEW u \in Users, SignIn(u) \/ SignOut(u)
      PROVE  /\ sessions' \subseteq {x \in Users : roles'[x] \in Roles}
             /\ UNCHANGED <<roles, requests>>
  BY <1>1, <1>2 DEF SignIn, SignOut, Exists
<1>3. ASSUME NEW u \in Users, Seed(u)
      PROVE  /\ roles' \in [Users -> Roles \cup {Null, Gone}]
             /\ sessions' \subseteq {x \in Users : roles'[x] \in Roles}
             /\ UNCHANGED requests
  BY <1>1, <1>3 DEF Seed, Exists, Roles
<1>4. ASSUME NEW q \in Requests, Ask(q)
      PROVE  /\ UNCHANGED <<roles, sessions>>
             /\ DOMAIN requests' = Requests
             /\ \A p \in Requests : RequestTyped(requests'[p])
  BY <1>1, <1>4, Asked
<1>5. ASSUME NEW q \in Requests, Finish(q)
      PROVE  /\ roles' \in [Users -> Roles \cup {Null, Gone}]
             /\ sessions' \subseteq {x \in Users : roles'[x] \in Roles}
             /\ DOMAIN requests' = Requests
             /\ \A p \in Requests : RequestTyped(requests'[p])
  <2>1. requests' = [requests EXCEPT ![q] = Idle]
    BY <1>5, Finished
  <2>2. DOMAIN requests' = Requests /\ \A p \in Requests : RequestTyped(requests'[p])
    BY <1>1, <2>1 DEF RequestTyped
  <2>3. CASE /\ requests[q].op \in {"role", "update"} /\ UNCHANGED sessions
             /\ roles' = IF Exists(requests[q].user)
                         THEN [roles EXCEPT ![requests[q].user] = requests[q].role] ELSE roles
    <3>1. requests[q].user \in Users /\ requests[q].role \in Roles
      BY <1>1, <2>3, RequestShapes DEF RoleRequest, UpdateRequest
    <3> QED
      BY <1>1, <2>2, <2>3, <3>1 DEF Exists
  <2>4. CASE /\ requests[q].op = "remove" /\ sessions' = sessions \ {requests[q].user}
             /\ roles' = [roles EXCEPT ![requests[q].user] = Gone]
    <3>1. requests[q].user \in Users
      BY <1>1, <2>4, RequestShapes DEF RemoveRequest
    <3> QED
      BY <1>1, <2>2, <2>4, <3>1 DEF Exists
  <2>5. CASE /\ requests[q].op = "create" /\ UNCHANGED sessions
             /\ \E u \in Users : roles[u] = Null /\ roles' = [roles EXCEPT ![u] = requests[q].role]
    <3>1. requests[q].role \in Roles
      BY <1>1, <2>5, RequestShapes DEF CreateRequest
    <3> QED
      BY <1>1, <2>2, <2>5, <3>1 DEF Exists
  <2> QED
    BY <1>5, <2>3, <2>4, <2>5, Finished
<1>6. ASSUME NEW q \in Requests, Fail(q)
      PROVE  /\ UNCHANGED <<roles, sessions>>
             /\ DOMAIN requests' = Requests
             /\ \A p \in Requests : RequestTyped(requests'[p])
  BY <1>1, <1>6 DEF Fail, End, RequestTyped
<1>7. CASE UNCHANGED vars
  BY <1>1, <1>7 DEF vars, Exists
<1> QED
  BY <1>1, <1>2, <1>3, <1>4, <1>5, <1>6, <1>7 DEF Next, Exists

\* TypeOK holds in every reachable state: only existing users have sessions,
\* and no request in progress is about its own caller but an update-user.
THEOREM TypeCorrect ==
    ASSUME Null \notin Roles
    PROVE  Spec => []TypeOK
  BY TypeInit, TypeNext, PTL DEF Spec

-----------------------------------------------------------------------------
(* Administrators. *)

\* A step keeps every administrator but the user of a request that takes effect.
LEMMA AdminsKept ==
    ASSUME Null \notin Roles, TypeOK, [Next]_vars, NEW a \in Users, roles[a] = "admin"
    PROVE  \/ roles'[a] = "admin"
           \/ \E q \in Requests :
                 /\ requests[q].op \in {"role", "remove", "update"} /\ requests'[q] = Idle
                 /\ requests[q].user = a
                 /\ \A b \in Users : roles[b] = "admin" /\ b # a => roles'[b] = "admin"
<1>1. /\ roles \in [Users -> Roles \cup {Null, Gone}]
      /\ DOMAIN requests = Requests
      /\ \A q \in Requests : RequestTyped(requests[q])
  BY TypeParts
<1>2. ASSUME NEW u \in Users, Seed(u)
      PROVE  roles'[a] = "admin"
  BY <1>1, <1>2 DEF Seed
<1>3. ASSUME NEW q \in Requests, Finish(q), roles'[a] # "admin"
      PROVE  /\ requests[q].op \in {"role", "remove", "update"} /\ requests'[q] = Idle
             /\ requests[q].user = a
             /\ \A b \in Users : roles[b] = "admin" /\ b # a => roles'[b] = "admin"
  <2>1. requests'[q] = Idle
    BY <1>1, <1>3, Finished
  <2>2. CASE /\ requests[q].op \in {"role", "update"}
             /\ roles' = IF Exists(requests[q].user)
                         THEN [roles EXCEPT ![requests[q].user] = requests[q].role] ELSE roles
    BY <1>1, <1>3, <2>1, <2>2
  <2>3. CASE /\ requests[q].op = "remove"
             /\ roles' = [roles EXCEPT ![requests[q].user] = Gone]
    BY <1>1, <1>3, <2>1, <2>3
  <2>4. CASE \E u \in Users : roles[u] = Null /\ roles' = [roles EXCEPT ![u] = requests[q].role]
    BY <1>1, <1>3, <2>4 DEF Roles
  <2> QED
    BY <1>3, <2>2, <2>3, <2>4, Finished
<1>4. CASE UNCHANGED roles
  BY <1>4
<1> QED
  BY <1>2, <1>3, <1>4, Asked DEF Next, SignIn, SignOut, Fail, vars

\* The last administrator is lost only to a request that a caller who was an
\* administrator began and is none any more (auth.ts:23-32), that is to two
\* requests of administrators against each other, or to an administrator's own
\* update-user (permissions.ts:27), however many users and requests there are.
THEOREM OnlyARaceOrUpdateLosesTheLastAdmin ==
    ASSUME Null \notin Roles
    PROVE  Spec => LastAdminIsLostByRaceOrUpdate
<1> DEFINE Loses(q) == /\ requests[q].op \in {"role", "remove", "update"} /\ requests'[q] = Idle
                       /\ Overtaken(q) \/ UpdatesItself(q)
           Lost == HasAdmin /\ ~HasAdmin' => \E q \in Requests : Loses(q)
<1>1. TypeOK /\ [Next]_vars => [Lost]_vars
  <2> SUFFICES ASSUME TypeOK, [Next]_vars, HasAdmin, ~HasAdmin'
               PROVE  \E q \in Requests : Loses(q)
    OBVIOUS
  <2>1. PICK a \in Users : roles[a] = "admin"
    BY DEF HasAdmin
  <2>2. \A b \in Users : roles'[b] # "admin"
    BY DEF HasAdmin
  <2>3. PICK q \in Requests :
            /\ requests[q].op \in {"role", "remove", "update"} /\ requests'[q] = Idle
            /\ requests[q].user = a
            /\ \A b \in Users : roles[b] = "admin" /\ b # a => roles'[b] = "admin"
    BY <2>1, <2>2, AdminsKept
  <2>4. /\ requests[q].caller \in Users
        /\ requests[q].caller = a => requests[q].op = "update" /\ UpdateTakesRole
    BY <2>3, CallerOfRequest
  <2> QED
    BY <2>2, <2>3, <2>4 DEF Overtaken, UpdatesItself
<1> QED
  BY <1>1, TypeInit, TypeNext, PTL
     DEF Spec, LastAdminIsLostByRaceOrUpdate, Overtaken, UpdatesItself

\* While only one administrator's request is in progress at a time, and
\* update-user does not take a role, an administrator is always left
\* (auth.ts:23, users.vue:146): the hook against changing one's own role, with
\* the plugin's against removing oneself, is enough then.
THEOREM OneRequestKeepsAnAdmin ==
    ASSUME Null \notin Roles, ~UpdateTakesRole, \A p, q \in Requests : p = q
    PROVE  Spec => []AnAdminIsLeft
<1> DEFINE CallersAreAdmins ==
             \A q \in Requests : requests[q] # Idle => roles[requests[q].caller] = "admin"
           Inv == TypeOK /\ HasAdmin /\ CallersAreAdmins
<1>1. Init => Inv
  <2> SUFFICES ASSUME Init PROVE Inv
    OBVIOUS
  <2>1. HasAdmin
    BY DEF Init, HasAdmin
  <2> QED
    BY <2>1, TypeInit DEF Init
<1>2. Inv /\ [Next]_vars => Inv'
  <2> SUFFICES ASSUME Inv, [Next]_vars PROVE Inv'
    OBVIOUS
  <2>1. TypeOK'
    BY TypeNext
  <2>2. HasAdmin'
    <3>1. PICK a \in Users : roles[a] = "admin"
      BY DEF HasAdmin
    <3>2. ASSUME NEW q \in Requests, requests[q].op \in {"role", "remove", "update"}, requests[q].user = a,
                 \A b \in Users : roles[b] = "admin" /\ b # a => roles'[b] = "admin"
          PROVE  HasAdmin'
      <4>1. requests[q].caller \in Users /\ requests[q].caller # a
        BY <3>2, CallerOfRequest
      <4>2. roles[requests[q].caller] = "admin"
        BY <3>2 DEF Idle
      <4> QED
        BY <3>2, <4>1, <4>2 DEF HasAdmin
    <3> QED
      BY <3>1, <3>2, AdminsKept DEF HasAdmin
  <2>3. CallersAreAdmins'
    <3>1. SUFFICES ASSUME NEW q \in Requests, requests'[q] # Idle
                   PROVE  roles'[requests'[q].caller] = "admin"
      OBVIOUS
    <3>2. CASE UNCHANGED requests
      <4>1. roles[requests[q].caller] = "admin" /\ requests[q].caller \in Users
        BY <3>1, <3>2, TypeParts DEF RequestTyped, CreateRequest, RoleRequest, RemoveRequest, UpdateRequest
      <4>2. \A p \in Requests : requests'[p] # Idle
        BY <3>1
      <4> QED
        BY <3>2, <4>1, <4>2, AdminsKept
    <3>3. CASE Ask(q)
      BY <3>3, Asked, TypeParts
    <3>4. CASE Finish(q) \/ Fail(q)
      BY <3>1, <3>4, Finished, TypeParts DEF Fail, End
    <3> QED
      BY <3>2, <3>3, <3>4 DEF Next, SignIn, SignOut, Seed, vars
  <2> QED
    BY <2>1, <2>2, <2>3
<1> QED
  BY <1>1, <1>2, PTL DEF Spec, AnAdminIsLeft
=============================================================================
