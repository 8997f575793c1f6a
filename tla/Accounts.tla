------------------------------ MODULE Accounts ------------------------------
(***************************************************************************)
(* Who may sign in and change things: users, their roles and sessions      *)
(* (auth.ts, permissions.ts, userAuth.ts), administered from the users     *)
(* page (users.vue).  better-auth does the work and is external: it looks  *)
(* at the caller's session and role first, and writes later.  Names,       *)
(* passwords and the rows the page shows are left out.                     *)
(***************************************************************************)
CONSTANTS
    Users,
    Requests,           \* administrators' requests that may be in progress together
    UpdateTakesRole,    \* TRUE if better-auth's update-user, which the page does not
                        \* use, takes a role
    Null, Gone          \* not created yet, removed

Roles == {"viewer", "editor", "admin"}

\* What a role grants.
Permissions(role) ==
    CASE role = "viewer" -> {}
      [] role = "editor" -> {"edit"}
      [] role = "admin" -> {"edit", "notifications", "users"}

VARIABLES
    roles,              \* by user
    sessions,           \* who is signed in
    requests            \* between a request's check and its write

vars == <<roles, sessions, requests>>

Exists(u) == roles[u] \in Roles
Idle == [op |-> "idle"]

\* The default administrator of the first start.
Init ==
    /\ \E first \in Users : roles = [u \in Users |-> IF u = first THEN "admin" ELSE Null]
    /\ sessions = {}
    /\ requests = [q \in Requests |-> Idle]

\* requirePermission: a session, and a role that grants it.
May(u, permission) == u \in sessions /\ Exists(u) /\ permission \in Permissions(roles[u])

-----------------------------------------------------------------------------
(* Sessions. *)

SignIn(u) ==
    /\ Exists(u)
    /\ sessions' = sessions \cup {u}
    /\ UNCHANGED <<roles, requests>>

\* Signed out, expired or revoked.
SignOut(u) ==
    /\ u \in sessions
    /\ sessions' = sessions \ {u}
    /\ UNCHANGED <<roles, requests>>

-----------------------------------------------------------------------------
(* The users page. *)

Begin(q, request) ==
    /\ requests[q] = Idle
    /\ May(request.caller, "users")
    /\ requests' = [requests EXCEPT ![q] = request]
    /\ UNCHANGED <<roles, sessions>>

BeginCreateUser(q, caller, role) ==
    Begin(q, [op |-> "create", caller |-> caller, role |-> role])

\* "An admin can't change their own role"
BeginSetRole(q, caller, u, role) ==
    /\ caller # u
    /\ Exists(u)
    /\ Begin(q, [op |-> "role", caller |-> caller, user |-> u, role |-> role])

\* user:update is granted too, and the hook looks at /admin/set-role only: an
\* administrator may send this request about anybody.
BeginUpdateUser(q, caller, u, role) ==
    /\ UpdateTakesRole
    /\ Exists(u)
    /\ Begin(q, [op |-> "update", caller |-> caller, user |-> u, role |-> role])

\* "Removing yourself is already refused by the admin plugin."
BeginRemoveUser(q, caller, u) ==
    /\ caller # u
    /\ Exists(u)
    /\ Begin(q, [op |-> "remove", caller |-> caller, user |-> u])

End(q) == requests' = [requests EXCEPT ![q] = Idle]

CreateUser(q, u) ==
    /\ requests[q].op = "create"
    /\ roles[u] = Null
    /\ roles' = [roles EXCEPT ![u] = requests[q].role]
    /\ End(q)
    /\ UNCHANGED sessions

\* set-role and update-user write alike.
SetRole(q) ==
    /\ requests[q].op \in {"role", "update"}
    /\ roles' = IF Exists(requests[q].user)
                THEN [roles EXCEPT ![requests[q].user] = requests[q].role] ELSE roles
    /\ End(q)
    /\ UNCHANGED sessions

\* The database takes the user's sessions along.
RemoveUser(q) ==
    /\ requests[q].op = "remove"
    /\ roles' = [roles EXCEPT ![requests[q].user] = Gone]
    /\ sessions' = sessions \ {requests[q].user}
    /\ End(q)

\* A request fails, or the API restarts.
Fail(q) ==
    /\ requests[q] # Idle
    /\ End(q)
    /\ UNCHANGED <<roles, sessions>>

\* The API starts: without any user, the default administrator is created.
Seed(u) ==
    /\ ~\E x \in Users : Exists(x)
    /\ roles[u] = Null
    /\ roles' = [roles EXCEPT ![u] = "admin"]
    /\ UNCHANGED <<sessions, requests>>

-----------------------------------------------------------------------------

Ask(q) ==
    \E caller \in Users :
        \/ \E role \in Roles : BeginCreateUser(q, caller, role)
        \/ \E u \in Users, role \in Roles :
              BeginSetRole(q, caller, u, role) \/ BeginUpdateUser(q, caller, u, role)
        \/ \E u \in Users : BeginRemoveUser(q, caller, u)

Finish(q) == SetRole(q) \/ RemoveUser(q) \/ \E u \in Users : CreateUser(q, u)

Next ==
    \/ \E u \in Users : SignIn(u) \/ SignOut(u) \/ Seed(u)
    \/ \E q \in Requests : Ask(q) \/ Finish(q) \/ Fail(q)

Spec == Init /\ [][Next]_vars

-----------------------------------------------------------------------------
(* Properties. *)

\* Type correctness; only users have sessions, and nobody sets their own role
\* or removes themselves but by update-user.
TypeOK ==
    /\ roles \in [Users -> Roles \cup {Null, Gone}]
    /\ sessions \subseteq {u \in Users : Exists(u)}
    /\ DOMAIN requests = Requests
    /\ \A q \in Requests :
          \/ requests[q] = Idle
          \/ requests[q] \in [op : {"create"}, caller : Users, role : Roles]
          \/ /\ UpdateTakesRole
             /\ requests[q] \in [op : {"update"}, caller : Users, user : Users, role : Roles]
          \/ /\ \/ requests[q] \in [op : {"role"}, caller : Users, user : Users, role : Roles]
                \/ requests[q] \in [op : {"remove"}, caller : Users, user : Users]
             /\ requests[q].caller # requests[q].user

HasAdmin == \E u \in Users : roles[u] = "admin"

\* "so there's always one admin left" (auth.ts:23, users.vue:146).
AnAdminIsLeft == HasAdmin

\* The last administrator is lost only to a request whose caller was an
\* administrator when it was checked and is none when it takes effect, or to
\* their own update-user where that takes a role (auth.ts's hook and the
\* plugin's own check of the caller).
Overtaken(q) == roles[requests[q].caller] # "admin"

UpdatesItself(q) ==
    UpdateTakesRole /\ requests[q].op = "update" /\ requests[q].caller = requests[q].user

LastAdminIsLostByRaceOrUpdate ==
    [][HasAdmin /\ ~HasAdmin' =>
          \E q \in Requests :
              /\ requests[q].op \in {"role", "remove", "update"} /\ requests'[q] = Idle
              /\ Overtaken(q) \/ UpdatesItself(q)]_vars
=============================================================================
