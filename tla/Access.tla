------------------------------- MODULE Access -------------------------------
(***************************************************************************)
(* Accounts, roles and access tokens: the Auth service registers users and *)
(* changes their roles, access tokens carry the role their user had, and   *)
(* the gateway's guards admit requests.  JwtAuthGuard asks the Auth service *)
(* for the user and falls back to the role in the token when the answer is *)
(* late or negative; it runs twice, once for the application and once for  *)
(* the route, with RolesGuard between.  Refresh tokens are in              *)
(* RefreshTokens.                                                          *)
(***************************************************************************)
EXTENDS Integers, FiniteSets

CONSTANTS
    Users,          \* the users, each with an email of its own
    Handlers,       \* bound: the requests and calls in flight together
    Registered,     \* the users stored at the start, with their roles
    Assigned,       \* the roles that registrations and role changes name
    Routes,         \* the routes that are requested
    Lifetime,       \* how long an access token is accepted (1 hour)
    MaxTokens,      \* bound: access tokens signed
    MaxTime,        \* bound: the last value of the clock
    Unreachable     \* whether the Auth service can fail to answer

UserRole == {"USER", "OPERATOR", "AUDITOR", "ADMIN"}
NoRole == "NONE"        \* a CreateUserDto without a role

\* The kinds of routes of the gateway that need a token.
Route == {"updateUserRole", "operate", "audit", "requestReward", "own"}

ASSUME UsersAssumption ==
    /\ DOMAIN Registered \subseteq Users
    /\ Registered \in [DOMAIN Registered -> UserRole]
    /\ Assigned \subseteq UserRole
    /\ Routes \subseteq Route
ASSUME BoundsAssumption ==
    /\ Lifetime \in Nat \ {0} /\ MaxTokens \in Nat /\ MaxTime \in Nat
    /\ Unreachable \in BOOLEAN

VARIABLES
    now,        \* the clock
    role,       \* the users collection: the role of each user stored
    tokens,     \* the access tokens signed so far
    lostAt,     \* history: when each user last stopped having each role
    call        \* the state of each request or call in flight

vars == <<now, role, tokens, lostAt, call>>

AccessToken == [user : Users, role : UserRole, signed : Nat]

Idle == [pc |-> "idle"]
Registration == [pc : {"create"}, user : Users, role : UserRole \cup {NoRole}]
Signing == [pc : {"compare"}, user : Users, role : UserRole]
\* role is the one of request.user, since the time of the first verification.
Request ==
    [pc : {"validate", "validateAgain", "serve"},
     token : AccessToken, route : Route, role : UserRole, since : Nat]
RoleChange ==
    [pc : {"findTarget", "saveRole"}, user : Users, since : Nat,
     target : Users, to : UserRole, read : UserRole]

Goto(h, c) == call' = [call EXCEPT ![h] = c]
Return(h) == Goto(h, Idle)

Init ==
    /\ now = 0
    /\ role = Registered
    /\ tokens = {}
    /\ lostAt = [u \in Users |-> [r \in UserRole |-> -1]]
    /\ call = [h \in Handlers |-> Idle]

-----------------------------------------------------------------------------
(***************************************************************************)
(* Registration and tokens                                                 *)
(***************************************************************************)

\* create: findOne by email, then the hash of the password.
Register(h, u, r) ==
    /\ call[h] = Idle
    /\ IF u \in DOMAIN role THEN call' = call
       ELSE Goto(h, [pc |-> "create", user |-> u, role |-> r])
    /\ UNCHANGED <<now, role, tokens, lostAt>>

\* Mutant: the role is stored as it was sent.
NewRoleAsSent(r) == r

NewRole(r) == IF r = NoRole THEN "USER" ELSE r

\* The unique index on email refuses a second account.
Created(u, r) ==
    IF u \in DOMAIN role THEN role
    ELSE [v \in DOMAIN role \cup {u} |-> IF v = u THEN NewRole(r) ELSE role[v]]

Create(h) ==
    /\ call[h].pc = "create"
    /\ role' = Created(call[h].user, call[h].role)
    /\ Return(h)
    /\ UNCHANGED <<now, tokens, lostAt>>

Sign(u, r) == tokens' = tokens \cup {[user |-> u, role |-> r, signed |-> now]}

SpareToken ==
    Cardinality(tokens) + Cardinality({h \in Handlers : call[h].pc = "compare"})
        < MaxTokens

\* login reads the user, compares the password, and signs what it has read.
Login(h, u) ==
    /\ call[h] = Idle
    /\ SpareToken
    /\ u \in DOMAIN role
    /\ Goto(h, [pc |-> "compare", user |-> u, role |-> role[u]])
    /\ UNCHANGED <<now, role, tokens, lostAt>>

SignLogin(h) ==
    /\ call[h].pc = "compare"
    /\ Sign(call[h].user, call[h].role)
    /\ Return(h)
    /\ UNCHANGED <<now, role, lostAt>>

\* refreshToken reads the user and signs the new token in one go.
Refresh(u) ==
    /\ \E t \in tokens : t.user = u
    /\ SpareToken
    /\ Sign(u, role[u])
    /\ UNCHANGED <<now, role, lostAt, call>>

-----------------------------------------------------------------------------
(***************************************************************************)
(* The guards of the gateway                                               *)
(***************************************************************************)
RolesOf(route) ==
    CASE route = "updateUserRole" -> {"ADMIN"}
      [] route = "operate" -> {"OPERATOR", "ADMIN"}
      [] route = "audit" -> {"OPERATOR", "AUDITOR", "ADMIN"}
      [] route = "requestReward" -> {"USER", "ADMIN"}
      [] route = "own" -> UserRole

\* Mutant: the application's RolesGuard is the only one.
RolesCheckedOnce(route, pc) == pc = "validate"

\* RolesGuard follows the application's JwtAuthGuard, and the route's own where
\* UseGuards names RolesGuard after it.
RolesChecked(route, pc) ==
    \/ pc = "validate"
    \/ route \in {"operate", "audit"}

\* Mutant: expiry is not checked.
VerifiesForever(t) == TRUE

\* jwtService.verify
Verifies(t) == now < t.signed + Lifetime

Arrive(h, t, route) ==
    /\ call[h] = Idle
    /\ IF Verifies(t)
       THEN Goto(h, [pc |-> "validate", token |-> t, route |-> route,
                     role |-> t.role, since |-> now])
       ELSE call' = call
    /\ UNCHANGED <<now, role, tokens, lostAt>>

Admits(c, r) == RolesChecked(c.route, c.pc) => r \in RolesOf(c.route)

\* JwtAuthGuard has its user, with role r: RolesGuard, then the second JwtAuth-
\* Guard, which verifies the token anew, or the handler.
Authenticated(h, r) ==
    /\ \/ /\ Admits(call[h], r) /\ call[h].pc = "validate" /\ Verifies(call[h].token)
          /\ Goto(h, [call[h] EXCEPT !.pc = "validateAgain", !.role = r])
       \/ /\ Admits(call[h], r) /\ call[h].pc = "validateAgain"
          /\ Goto(h, [call[h] EXCEPT !.pc = "serve", !.role = r])
       \/ /\ \/ ~Admits(call[h], r)
             \/ call[h].pc = "validate" /\ ~Verifies(call[h].token)
          /\ Return(h)
    /\ UNCHANGED <<now, role, tokens, lostAt>>

Validating(h) == call[h].pc \in {"validate", "validateAgain"}

\* The Auth service verifies the token too, and answers with the stored user.
ValidateToken(h) ==
    /\ Validating(h)
    /\ Verifies(call[h].token)
    /\ Authenticated(h, role[call[h].token.user])

\* No answer within 5 seconds, or a negative one: the guard takes the payload.
FallBack(h) ==
    /\ Validating(h)
    /\ Unreachable \/ ~Verifies(call[h].token)
    /\ Authenticated(h, call[h].token.role)

-----------------------------------------------------------------------------
(***************************************************************************)
(* What an admitted request does                                           *)
(***************************************************************************)
Serve(h) ==
    /\ call[h].pc = "serve"
    /\ call[h].route # "updateUserRole"
    /\ Return(h)
    /\ UNCHANGED <<now, role, tokens, lostAt>>

\* Mutant: the role that the gateway found is trusted.
IsAdminInToken(c) == c.role = "ADMIN"

IsAdmin(c) == role[c.token.user] = "ADMIN"

\* updateUserRole in the Auth service: findById of the caller.
UpdateUserRole(h, target, to) ==
    /\ call[h].pc = "serve"
    /\ call[h].route = "updateUserRole"
    /\ IF IsAdmin(call[h])
       THEN Goto(h, [pc |-> "findTarget", user |-> call[h].token.user,
                     since |-> call[h].since, target |-> target, to |-> to,
                     read |-> to])
       ELSE Return(h)
    /\ UNCHANGED <<now, role, tokens, lostAt>>

\* Mutant: admins may change their own role.
MayChangeAny(u, target) == target \in DOMAIN role

MayChange(u, target) == target \in DOMAIN role /\ target # u

FindTarget(h) ==
    /\ call[h].pc = "findTarget"
    /\ IF MayChange(call[h].user, call[h].target)
       THEN Goto(h, [call[h] EXCEPT !.pc = "saveRole",
                                    !.read = role[call[h].target]])
       ELSE Return(h)
    /\ UNCHANGED <<now, role, tokens, lostAt>>

\* save writes the fields that differ from what was read.
SaveRole(h) ==
    /\ call[h].pc = "saveRole"
    /\ LET u == call[h].target
           to == call[h].to
       IN  IF to = call[h].read THEN UNCHANGED <<role, lostAt>>
           ELSE /\ role' = [role EXCEPT ![u] = to]
                /\ lostAt' = IF to = role[u] THEN lostAt
                             ELSE [lostAt EXCEPT ![u] = [@ EXCEPT ![role[u]] = now]]
    /\ Return(h)
    /\ UNCHANGED <<now, tokens>>

\* A lost call or a crash ends a request where it is.
Fail(h) ==
    /\ Unreachable
    /\ call[h] # Idle
    /\ Return(h)
    /\ UNCHANGED <<now, role, tokens, lostAt>>

\* A tick, of the order of an hour, is longer than the comparison of a password.
Tick ==
    /\ now < MaxTime
    /\ \A h \in Handlers : call[h].pc # "compare"
    /\ now' = now + 1
    /\ UNCHANGED <<role, tokens, lostAt, call>>

Next ==
    \/ \E h \in Handlers :
          \/ \E u \in Users, r \in Assigned \cup {NoRole} : Register(h, u, r)
          \/ \E u \in Users : Login(h, u)
          \/ Create(h)
          \/ SignLogin(h)
          \/ \E t \in tokens, route \in Routes : Arrive(h, t, route)
          \/ ValidateToken(h)
          \/ FallBack(h)
          \/ Serve(h)
          \/ \E u \in Users, r \in Assigned : UpdateUserRole(h, u, r)
          \/ FindTarget(h)
          \/ SaveRole(h)
          \/ Fail(h)
    \/ \E u \in Users : Refresh(u)
    \/ Tick

Spec == Init /\ [][Next]_vars

-----------------------------------------------------------------------------
(***************************************************************************)
(* Properties                                                              *)
(***************************************************************************)

\* Documents, tokens and locals have the shape the code gives them; tokens and
\* requests are of users that are stored.
TypeOK ==
    /\ now \in 0..MaxTime
    /\ DOMAIN role \subseteq Users
    /\ role \in [DOMAIN role -> UserRole]
    /\ tokens \subseteq AccessToken
    /\ \A t \in tokens : t.user \in DOMAIN role
    /\ lostAt \in [Users -> [UserRole -> Int]]
    /\ call \in [Handlers -> {Idle} \cup Registration \cup Signing \cup Request
                               \cup RoleChange]
    /\ \A h \in Handlers :
          /\ call[h].pc \in {"compare", "findTarget"} => call[h].user \in DOMAIN role
          /\ call[h] \in Request => call[h].token \in tokens
          /\ call[h].pc = "saveRole" => call[h].target \in DOMAIN role

\* The last time at which the user had the role, -1 if never.
LastHeld(u, r) == IF role[u] = r THEN now ELSE lostAt[u][r]

\* Roles change while requests wait, and the guard may trust an old token.  But
\* whoever is served had one of the route's roles less than a token's lifetime
\* before the request was verified.
ServedAuthorised ==
    \A h \in Handlers :
        call[h].pc = "serve" =>
            \E r \in RolesOf(call[h].route) :
                /\ LastHeld(call[h].token.user, r) >= 0
                /\ LastHeld(call[h].token.user, r) > call[h].since - Lifetime

\* A route whose RolesGuard runs last serves only the role it asks for, although
\* the two validations of its request may see different roles.
ServedRoleChecked ==
    \A h \in Handlers :
        call[h].pc = "serve" /\ call[h].route \in {"operate", "audit"} =>
            call[h].role \in RolesOf(call[h].route)

\* The role of an account only changes on behalf of a user who was ADMIN, in the
\* users collection, after the request arrived: an old token is not enough, and
\* neither is a second registration with the same email.
RoleChangeAuthorised ==
    [][\A u \in DOMAIN role :
          role'[u] # role[u] =>
             \E h \in Handlers :
                /\ SaveRole(h) /\ call[h].target = u
                /\ LastHeld(call[h].user, "ADMIN") >= call[h].since]_vars

Admins == {u \in DOMAIN role : role[u] = "ADMIN"}

\* Nobody changes the own role, so an admin who is still one when the call ends
\* never takes the last admin away: only role changes that overlap can.  A call
\* that demotes the last admin was made by one who was demoted while it ran.
AdminRemains ==
    [][Admins # {} /\ Admins' = {} =>
          \E h \in Handlers :
             /\ SaveRole(h)
             /\ call[h].user \notin Admins
             /\ lostAt[call[h].user]["ADMIN"] >= call[h].since]_vars
=============================================================================
