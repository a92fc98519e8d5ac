---------------------------- MODULE AccessProofs ----------------------------
(***************************************************************************)
(* Proofs about Access, for every set of users, handlers and routes, every *)
(* lifetime of a token, and an Auth service that may fail to answer.       *)
(***************************************************************************)
EXTENDS Access, TLAPS

-----------------------------------------------------------------------------
(***************************************************************************)
(* Types                                                                   *)
(***************************************************************************)
Calls == {Idle} \cup Registration \cup Signing \cup Request \cup RoleChange

\* What the program counter of a handler says about its locals.
LEMMA CallShape ==
    ASSUME TypeOK, NEW h \in Handlers
    PROVE  /\ call[h] \in Calls
           /\ call[h].pc = "create" => call[h] \in Registration
           /\ call[h].pc = "compare" => call[h] \in Signing
           /\ call[h].pc \in {"validate", "validateAgain", "serve"} =>
                 call[h] \in Request /\ call[h].token \in tokens
           /\ call[h].pc \in {"findTarget", "saveRole"} => call[h] \in RoleChange
  BY DEF TypeOK, Calls, Registration, Signing, Request, RoleChange, Idle

\* What locals name: users that are stored and tokens that were signed.
NamesStored(c, users, signed) ==
    /\ c.pc \in {"compare", "findTarget"} => c.user \in users
    /\ c \in Request => c.token \in signed
    /\ c.pc = "saveRole" => c.target \in users

\* What a handler's next locals must be for its step to keep the types of call.
LEMMA GotoType ==
    ASSUME TypeOK, NEW h \in Handlers, NEW c \in Calls, Goto(h, c),
           DOMAIN role \subseteq DOMAIN role', tokens \subseteq tokens',
           NamesStored(c, DOMAIN role', tokens')
    PROVE  /\ call' \in [Handlers -> Calls]
           /\ \A g \in Handlers : NamesStored(call'[g], DOMAIN role', tokens')
<1>1. /\ call' \in [Handlers -> Calls] /\ call'[h] = c
      /\ \A g \in Handlers \ {h} : call'[g] = call[g]
  BY DEF Goto, TypeOK, Calls
<1>2. \A g \in Handlers : NamesStored(call[g], DOMAIN role, tokens)
  BY DEF TypeOK, NamesStored
<1> QED
  BY <1>1, <1>2 DEF NamesStored

\* A handler that is done names nothing.
LEMMA IdleNames ==
    ASSUME NEW users, NEW signed
    PROVE  Idle \in Calls /\ NamesStored(Idle, users, signed)
  BY DEF Idle, Calls, NamesStored, Request

\* A verification of a request leaves it a request for the same token, or ends it.
LEMMA AuthenticatedMoves ==
    ASSUME TypeOK, NEW h \in Handlers, NEW r \in UserRole, Validating(h), Authenticated(h, r)
    PROVE  \E c \in Calls :
              /\ Goto(h, c)
              /\ NamesStored(c, DOMAIN role, tokens)
              /\ c = Idle \/ (c \in Request /\ c.token = call[h].token
                              /\ c.since = call[h].since /\ c.route = call[h].route
                              /\ c.role = r /\ c.pc \in {"validateAgain", "serve"}
                              /\ Admits(call[h], r)
                              /\ (call[h].pc = "validate") = (c.pc = "validateAgain"))
<1>1. call[h] \in Request /\ call[h].token \in tokens
  BY CallShape DEF Validating
<1>2. CASE Goto(h, Idle)
  BY <1>2, IdleNames
<1>3. ASSUME NEW pc \in {"validateAgain", "serve"}, Admits(call[h], r),
             Goto(h, [call[h] EXCEPT !.pc = pc, !.role = r]),
             (call[h].pc = "validate") = (pc = "validateAgain")
      PROVE  \E c \in Calls :
                /\ Goto(h, c)
                /\ NamesStored(c, DOMAIN role, tokens)
                /\ c = Idle \/ (c \in Request /\ c.token = call[h].token
                                /\ c.since = call[h].since /\ c.route = call[h].route
                                /\ c.role = r /\ c.pc \in {"validateAgain", "serve"}
                                /\ Admits(call[h], r)
                                /\ (call[h].pc = "validate") = (c.pc = "validateAgain"))
  <2> DEFINE c == [call[h] EXCEPT !.pc = pc, !.role = r]
  <2>1. /\ c \in Request /\ c.pc = pc /\ c.role = r /\ c.token = call[h].token
        /\ c.since = call[h].since /\ c.route = call[h].route
    BY <1>1 DEF Request
  <2>2. Goto(h, c)
    BY <1>3
  <2> HIDE DEF c
  <2>3. c \in Calls /\ NamesStored(c, DOMAIN role, tokens)
    BY <1>1, <2>1 DEF Calls, NamesStored
  <2> QED
    BY <1>3, <2>1, <2>2, <2>3
<1> QED
  <2>1. \/ Goto(h, Idle)
        \/ /\ call[h].pc = "validate" /\ Admits(call[h], r)
           /\ Goto(h, [call[h] EXCEPT !.pc = "validateAgain", !.role = r])
        \/ /\ call[h].pc = "validateAgain" /\ Admits(call[h], r)
           /\ Goto(h, [call[h] EXCEPT !.pc = "serve", !.role = r])
    BY DEF Authenticated, Return
  <2> QED
    BY <1>2, <1>3, <2>1

\* The role that a verification finds is one of the roles.
LEMMA FoundRole ==
    ASSUME TypeOK, NEW h \in Handlers, Validating(h)
    PROVE  /\ call[h].token \in AccessToken /\ call[h].token.user \in DOMAIN role
           /\ role[call[h].token.user] \in UserRole /\ call[h].token.role \in UserRole
<1>1. call[h] \in Request /\ call[h].token \in tokens
  BY CallShape DEF Validating
<1> QED
  BY <1>1 DEF TypeOK, AccessToken

\* Every reachable state is well typed: tokens and requests are of stored users, and
\* roles are roles, whatever registrations, logins and role changes overlap.
THEOREM TypeCorrect == Spec => []TypeOK
<1> USE UsersAssumption, BoundsAssumption
<1>1. Init => TypeOK
  BY DEF Init, TypeOK, Idle, UserRole, Request
<1>2. TypeOK /\ [Next]_vars => TypeOK'
  <2> SUFFICES ASSUME TypeOK, [Next]_vars
               PROVE  TypeOK'
    OBVIOUS
  <2> DEFINE CallOK ==
        /\ call' \in [Handlers -> Calls]
        /\ \A g \in Handlers : NamesStored(call'[g], DOMAIN role', tokens')
  <2>0. ASSUME CallOK, UNCHANGED <<now, role, tokens, lostAt>>
        PROVE  TypeOK'
    BY <2>0 DEF TypeOK, Calls, NamesStored
  <2>1. ASSUME NEW h \in Handlers, Return(h), UNCHANGED <<now, role, tokens, lostAt>>
        PROVE  TypeOK'
    <3>1. CallOK
      BY <2>1, IdleNames, GotoType DEF Return
    <3> QED
      BY <2>0, <2>1, <3>1
  <2>2. ASSUME UNCHANGED vars
        PROVE  TypeOK'
    BY <2>2 DEF vars, TypeOK
  <2>3. ASSUME NEW h \in Handlers, NEW u \in Users, NEW r \in Assigned \cup {NoRole},
               Register(h, u, r)
        PROVE  TypeOK'
    <3>1. CASE u \in DOMAIN role
      BY <2>2, <2>3, <3>1 DEF Register, vars
    <3>2. CASE u \notin DOMAIN role
      <4> DEFINE c == [pc |-> "create", user |-> u, role |-> r]
      <4>1. c \in Calls /\ NamesStored(c, DOMAIN role, tokens)
        BY DEF Calls, Registration, NamesStored, Request
      <4>2. Goto(h, c) /\ UNCHANGED <<now, role, tokens, lostAt>>
        BY <2>3, <3>2 DEF Register
      <4> HIDE DEF c
      <4>3. CallOK
        BY <4>1, <4>2, GotoType
      <4> QED
        BY <2>0, <4>2, <4>3
    <3> QED
      BY <3>1, <3>2
  <2>4. ASSUME NEW h \in Handlers, NEW u \in Users, Login(h, u)
        PROVE  TypeOK'
    <3> DEFINE c == [pc |-> "compare", user |-> u, role |-> role[u]]
    <3>1. Goto(h, c) /\ u \in DOMAIN role /\ UNCHANGED <<now, role, tokens, lostAt>>
      BY <2>4 DEF Login
    <3>2. c \in Calls /\ NamesStored(c, DOMAIN role, tokens)
      BY <3>1 DEF Calls, Signing, NamesStored, Request, TypeOK
    <3> HIDE DEF c
    <3>3. CallOK
      BY <3>1, <3>2, GotoType
    <3> QED
      BY <2>0, <3>1, <3>3
  <2>5. ASSUME NEW h \in Handlers, Create(h)
        PROVE  TypeOK'
    <3>1. call[h] \in Registration
      BY <2>5, CallShape DEF Create
    <3>2. /\ DOMAIN role \subseteq DOMAIN role' /\ DOMAIN role' \subseteq Users
          /\ role' \in [DOMAIN role' -> UserRole]
      BY <2>5, <3>1 DEF Create, Created, NewRole, Registration, TypeOK, UserRole
    <3>3. CallOK
      BY <2>5, <3>2, IdleNames, GotoType DEF Create, Return
    <3> QED
      BY <2>5, <3>2, <3>3 DEF Create, TypeOK, Calls, NamesStored
  <2>6. ASSUME NEW u \in DOMAIN role, NEW r \in UserRole, Sign(u, r)
        PROVE  /\ tokens \subseteq tokens' /\ tokens' \subseteq AccessToken
               /\ \A t \in tokens' : t.user \in DOMAIN role
    BY <2>6 DEF Sign, AccessToken, TypeOK
  <2>7. ASSUME NEW h \in Handlers, SignLogin(h)
        PROVE  TypeOK'
    <3>1. call[h] \in Signing /\ call[h].user \in DOMAIN role /\ call[h].role \in UserRole
      BY <2>7, CallShape DEF SignLogin, TypeOK, Signing
    <3>2. /\ tokens \subseteq tokens' /\ tokens' \subseteq AccessToken
          /\ \A t \in tokens' : t.user \in DOMAIN role
      BY <2>6, <2>7, <3>1 DEF SignLogin
    <3>3. CallOK
      BY <2>7, <3>2, IdleNames, GotoType DEF SignLogin, Return
    <3> QED
      BY <2>7, <3>2, <3>3 DEF SignLogin, TypeOK, Calls, NamesStored
  <2>8. ASSUME NEW u \in Users, Refresh(u)
        PROVE  TypeOK'
    <3>1. u \in DOMAIN role /\ role[u] \in UserRole
      BY <2>8 DEF Refresh, TypeOK
    <3>2. /\ tokens \subseteq tokens' /\ tokens' \subseteq AccessToken
          /\ \A t \in tokens' : t.user \in DOMAIN role
      BY <2>6, <2>8, <3>1 DEF Refresh
    <3> QED
      BY <2>8, <3>2 DEF Refresh, TypeOK
  <2>9. ASSUME NEW h \in Handlers, NEW t \in tokens, NEW route \in Routes,
               Arrive(h, t, route)
        PROVE  TypeOK'
    <3>1. CASE Verifies(t)
      <4> DEFINE c == [pc |-> "validate", token |-> t, route |-> route, role |-> t.role,
                       since |-> now]
      <4>1. t \in AccessToken /\ route \in Route /\ now \in Nat
        BY DEF TypeOK
      <4>2. c \in Request /\ c.pc = "validate" /\ c.token = t
        BY <4>1 DEF Request, AccessToken
      <4>3. Goto(h, c) /\ UNCHANGED <<now, role, tokens, lostAt>>
        BY <2>9, <3>1 DEF Arrive
      <4> HIDE DEF c
      <4>4. c \in Calls /\ NamesStored(c, DOMAIN role, tokens)
        BY <4>2 DEF Calls, NamesStored
      <4>5. CallOK
        BY <4>3, <4>4, GotoType
      <4> QED
        BY <2>0, <4>3, <4>5
    <3>2. CASE ~Verifies(t)
      BY <2>2, <2>9, <3>2 DEF Arrive, vars
    <3> QED
      BY <3>1, <3>2
  <2>10. ASSUME NEW h \in Handlers, ValidateToken(h) \/ FallBack(h)
         PROVE  TypeOK'
    <3>1. PICK r \in UserRole : Validating(h) /\ Authenticated(h, r)
      BY <2>10, FoundRole DEF ValidateToken, FallBack
    <3>2. PICK c \in Calls : Goto(h, c) /\ NamesStored(c, DOMAIN role, tokens)
      BY <3>1, AuthenticatedMoves
    <3>3. UNCHANGED <<now, role, tokens, lostAt>>
      BY <3>1 DEF Authenticated
    <3>4. CallOK
      BY <3>2, <3>3, GotoType
    <3> QED
      BY <2>0, <3>3, <3>4
  <2>11. ASSUME NEW h \in Handlers, Serve(h) \/ Fail(h)
         PROVE  TypeOK'
    BY <2>1, <2>11 DEF Serve, Fail
  <2>12. ASSUME NEW h \in Handlers, NEW target \in Users, NEW to \in Assigned,
                UpdateUserRole(h, target, to)
         PROVE  TypeOK'
    <3>1. UNCHANGED <<now, role, tokens, lostAt>>
      BY <2>12 DEF UpdateUserRole
    <3>2. CASE IsAdmin(call[h])
      <4> DEFINE c == [pc |-> "findTarget", user |-> call[h].token.user,
                       since |-> call[h].since, target |-> target, to |-> to, read |-> to]
      <4>1. /\ call[h] \in Request /\ call[h].token \in tokens
            /\ call[h].token.user \in DOMAIN role /\ call[h].token.user \in Users
        BY <2>12, CallShape DEF UpdateUserRole, TypeOK
      <4>2. c \in RoleChange /\ c.pc = "findTarget" /\ c.user = call[h].token.user
        BY <4>1 DEF RoleChange, Request
      <4>3. Goto(h, c)
        BY <2>12, <3>2 DEF UpdateUserRole
      <4> HIDE DEF c
      <4>4. c \in Calls /\ NamesStored(c, DOMAIN role, tokens)
        BY <4>1, <4>2 DEF Calls, NamesStored, Request, RoleChange
      <4>5. CallOK
        BY <3>1, <4>3, <4>4, GotoType
      <4> QED
        BY <2>0, <3>1, <4>5
    <3>3. CASE ~IsAdmin(call[h])
      BY <2>1, <2>12, <3>1, <3>3 DEF UpdateUserRole
    <3> QED
      BY <3>2, <3>3
  <2>13. ASSUME NEW h \in Handlers, FindTarget(h)
         PROVE  TypeOK'
    <3>1. UNCHANGED <<now, role, tokens, lostAt>>
      BY <2>13 DEF FindTarget
    <3>2. CASE MayChange(call[h].user, call[h].target)
      <4> DEFINE c == [call[h] EXCEPT !.pc = "saveRole", !.read = role[call[h].target]]
      <4>1. call[h] \in RoleChange /\ call[h].target \in DOMAIN role
            /\ role[call[h].target] \in UserRole
        BY <2>13, <3>2, CallShape DEF FindTarget, MayChange, TypeOK
      <4>2. c \in RoleChange /\ c.pc = "saveRole" /\ c.target = call[h].target
        BY <4>1 DEF RoleChange
      <4>3. Goto(h, c)
        BY <2>13, <3>2 DEF FindTarget
      <4> HIDE DEF c
      <4>4. c \in Calls /\ NamesStored(c, DOMAIN role, tokens)
        BY <4>1, <4>2 DEF Calls, NamesStored, Request, RoleChange
      <4>5. CallOK
        BY <3>1, <4>3, <4>4, GotoType
      <4> QED
        BY <2>0, <3>1, <4>5
    <3>3. CASE ~MayChange(call[h].user, call[h].target)
      BY <2>1, <2>13, <3>1, <3>3 DEF FindTarget
    <3> QED
      BY <3>2, <3>3
  <2>14. ASSUME NEW h \in Handlers, SaveRole(h)
         PROVE  TypeOK'
    <3>1. call[h] \in RoleChange /\ call[h].target \in DOMAIN role
      BY <2>14, CallShape DEF SaveRole, TypeOK
    <3>2. /\ DOMAIN role' = DOMAIN role /\ role' \in [DOMAIN role' -> UserRole]
          /\ lostAt' \in [Users -> [UserRole -> Int]]
      <4> DEFINE u == call[h].target
                 to == call[h].to
                 lost == [lostAt[u] EXCEPT ![role[u]] = now]
      <4>1. u \in DOMAIN role /\ u \in Users /\ role[u] \in UserRole /\ to \in UserRole
        BY <3>1 DEF TypeOK, RoleChange
      <4>2. lost \in [UserRole -> Int]
        BY <4>1 DEF TypeOK
      <4>3. /\ role' = role \/ role' = [role EXCEPT ![u] = to]
            /\ lostAt' = lostAt \/ lostAt' = [lostAt EXCEPT ![u] = lost]
        BY <2>14 DEF SaveRole
      <4> HIDE DEF u, to, lost
      <4>4. role \in [DOMAIN role -> UserRole] /\ lostAt \in [Users -> [UserRole -> Int]]
        BY DEF TypeOK
      <4>5. DOMAIN role' = DOMAIN role
        BY <4>3
      <4>6. role' \in [DOMAIN role -> UserRole]
        BY <4>1, <4>3, <4>4
      <4>7. lostAt' \in [Users -> [UserRole -> Int]]
        BY <4>2, <4>3, <4>4
      <4> QED
        BY <4>5, <4>6, <4>7
    <3>3. CallOK
      BY <2>14, <3>2, IdleNames, GotoType DEF SaveRole, Return
    <3> QED
      BY <2>14, <3>2, <3>3 DEF SaveRole, TypeOK, Calls, NamesStored
  <2>15. CASE Tick
    BY <2>15 DEF Tick, TypeOK
  <2> QED
    BY <2>2, <2>3, <2>4, <2>5, <2>7, <2>8, <2>9, <2>10, <2>11, <2>12, <2>13, <2>14, <2>15
    DEF Next
<1> QED
  BY <1>1, <1>2, PTL DEF Spec
-----------------------------------------------------------------------------
(***************************************************************************)
(* When a user last had a role                                             *)
(***************************************************************************)

\* When each stored user last had each role.
Held == [u \in DOMAIN role |-> [r \in UserRole |-> LastHeld(u, r)]]

\* A time is known for every stored user and every role.
LEMMA HeldType ==
    ASSUME TypeOK, NEW u \in DOMAIN role, NEW r \in UserRole
    PROVE  /\ Held[u][r] = LastHeld(u, r) /\ Held[u][r] \in Int
           /\ role[u] = r => Held[u][r] = now
           /\ role[u] # r => Held[u][r] = lostAt[u][r]
           /\ now \in Nat /\ u \in Users
  BY BoundsAssumption DEF Held, LastHeld, TypeOK

\* Every kind of route is for some of the roles.
LEMMA RolesOfType ==
    ASSUME NEW route \in Route
    PROVE  RolesOf(route) \subseteq UserRole
  BY DEF Route, RolesOf, UserRole

\* What a call in flight knows: a password is compared in less than a tick, a token
\* in use was alive when it was first verified, and a role that admitted a request
\* or a role change was held recently enough.
CallInv(c, held, t) ==
    /\ c.pc = "compare" => held[c.user][c.role] >= t
    /\ c \in Request => c.since <= t
    /\ c.pc = "validate" => c.since < c.token.signed + Lifetime
    /\ c.pc \in {"validateAgain", "serve"} =>
          \E r \in RolesOf(c.route) : /\ held[c.token.user][r] >= 0
                                      /\ held[c.token.user][r] > c.since - Lifetime
    /\ c.pc = "serve" /\ c.route \in {"operate", "audit"} => c.role \in RolesOf(c.route)
    /\ c.pc \in {"findTarget", "saveRole"} =>
          c.user \in DOMAIN held /\ held[c.user]["ADMIN"] >= c.since
    /\ c.pc = "saveRole" => c.target # c.user

\* The strengthening: no role was lost in the future, and every token was signed
\* with a role that its user had at that time or later.
HeldInv ==
    /\ \A u \in Users, r \in UserRole : lostAt[u][r] <= now
    /\ \A t \in tokens : Held[t.user][t.role] >= t.signed
    /\ \A h \in Handlers : CallInv(call[h], Held, now)

\* The time at which a user last had a role never moves back.
LEMMA HeldGrows ==
    ASSUME TypeOK, TypeOK', HeldInv, [Next]_vars
    PROVE  /\ now <= now'
           /\ \A u \in Users, r \in UserRole : lostAt'[u][r] <= now'
           /\ \A u \in DOMAIN role :
                 /\ u \in DOMAIN role'
                 /\ \A r \in UserRole : Held'[u][r] >= Held[u][r]
<1> DEFINE Goal ==
      /\ now <= now'
      /\ \A u \in Users, r \in UserRole : lostAt'[u][r] <= now'
      /\ \A u \in DOMAIN role :
            /\ u \in DOMAIN role'
            /\ \A r \in UserRole : Held'[u][r] >= Held[u][r]
<1>1. ASSUME NEW u \in DOMAIN role, NEW r \in UserRole
      PROVE  /\ Held[u][r] = (IF role[u] = r THEN now ELSE lostAt[u][r])
             /\ u \in DOMAIN role' =>
                   Held'[u][r] = (IF role'[u] = r THEN now' ELSE lostAt'[u][r])
             /\ u \in Users /\ now \in Nat /\ now' \in Nat
             /\ lostAt[u][r] \in Int /\ lostAt'[u][r] \in Int /\ lostAt[u][r] <= now
  BY BoundsAssumption DEF Held, LastHeld, TypeOK, HeldInv
<1>2. ASSUME UNCHANGED <<now, role, lostAt>>
      PROVE  Goal
  BY <1>1, <1>2, BoundsAssumption DEF HeldInv, TypeOK
<1>3. ASSUME NEW h \in Handlers, Create(h)
      PROVE  Goal
  <2>1. UNCHANGED <<now, lostAt>> /\ \A u \in DOMAIN role : u \in DOMAIN role' /\ role'[u] = role[u]
    BY <1>3 DEF Create, Created
  <2> QED
    BY <1>1, <2>1, BoundsAssumption DEF HeldInv, TypeOK
<1>4. ASSUME NEW h \in Handlers, SaveRole(h)
      PROVE  Goal
  <2>1. CASE call[h].to = call[h].read
    BY <1>2, <1>4, <2>1 DEF SaveRole
  <2>2. CASE call[h].to # call[h].read
    <3> DEFINE v == call[h].target
               to == call[h].to
               lost == [lostAt[v] EXCEPT ![role[v]] = now]
    <3>1. /\ now' = now /\ v \in DOMAIN role /\ v \in Users /\ role[v] \in UserRole
          /\ role' = [role EXCEPT ![v] = to] /\ DOMAIN role' = DOMAIN role
          /\ lostAt' = IF to = role[v] THEN lostAt ELSE [lostAt EXCEPT ![v] = lost]
      BY <1>4, <2>2 DEF SaveRole, TypeOK
    <3> HIDE DEF v, to
    <3>2. ASSUME to # role[v]
          PROVE  /\ lostAt'[v][role[v]] = now
                 /\ \A r \in UserRole \ {role[v]} : lostAt'[v][r] = lostAt[v][r]
                 /\ \A u \in Users \ {v} : lostAt'[u] = lostAt[u]
      <4>1. lostAt' = [lostAt EXCEPT ![v] = lost]
        BY <3>1, <3>2
      <4>2. lost[role[v]] = now /\ \A r \in UserRole \ {role[v]} : lost[r] = lostAt[v][r]
        BY <3>1 DEF TypeOK
      <4> HIDE DEF lost
      <4>3. lostAt'[v] = lost /\ \A u \in Users \ {v} : lostAt'[u] = lostAt[u]
        BY <3>1, <4>1 DEF TypeOK
      <4> QED
        BY <4>2, <4>3
    <3>3. ASSUME NEW u \in Users, NEW r \in UserRole
          PROVE  /\ lostAt'[u][r] <= now'
                 /\ lostAt'[u][r] >= lostAt[u][r]
      <4>1. lostAt[u][r] <= now /\ lostAt[u][r] \in Int /\ now \in Nat /\ now' = now
        BY <3>1, BoundsAssumption DEF HeldInv, TypeOK
      <4>2. lostAt'[u][r] \in {lostAt[u][r], now}
        BY <3>1, <3>2
      <4> QED
        BY <4>1, <4>2
    <3>4. ASSUME NEW u \in DOMAIN role, NEW r \in UserRole
          PROVE  Held'[u][r] >= Held[u][r]
      <4>0. u \in DOMAIN role'
        BY <3>1
      <4>1. CASE u = v /\ r = role[v] /\ to # role[v]
        <5>1. role'[u] # r /\ lostAt'[u][r] = now
          BY <3>1, <3>2, <4>1
        <5> QED
          BY <1>1, <4>0, <4>1, <5>1
      <4>2. CASE role'[u] = r
        BY <1>1, <3>1, <4>0, <4>2
      <4>3. CASE role'[u] # r /\ role[u] # r
        BY <1>1, <3>3, <4>0, <4>3
      <4>4. CASE role'[u] # r /\ role[u] = r /\ (u # v \/ to = role[v])
        BY <3>1, <4>4
      <4> QED
        BY <3>1, <4>1, <4>2, <4>3, <4>4
    <3> QED
      BY <3>1, <3>3, <3>4, BoundsAssumption DEF TypeOK
  <2> QED
    BY <2>1, <2>2
<1>5. CASE Tick
  <2>1. now' = now + 1 /\ role' = role /\ lostAt' = lostAt
    BY <1>5 DEF Tick
  <2>2. \A u \in Users, r \in UserRole : lostAt'[u][r] <= now'
    BY <2>1, BoundsAssumption DEF HeldInv, TypeOK
  <2>3. ASSUME NEW u \in DOMAIN role, NEW r \in UserRole
        PROVE  u \in DOMAIN role' /\ Held'[u][r] >= Held[u][r]
    <3>1. u \in DOMAIN role' /\ role'[u] = role[u] /\ lostAt'[u][r] = lostAt[u][r]
      BY <2>1
    <3> QED
      BY <1>1, <2>1, <3>1
  <2>4. now <= now'
    BY <2>1, BoundsAssumption DEF TypeOK
  <2> QED
    BY <2>1, <2>2, <2>3, <2>4
<1>6. CASE \/ UNCHANGED vars
           \/ \E u \in Users : Refresh(u)
           \/ \E h \in Handlers :
                 \/ \E u \in Users, r \in Assigned \cup {NoRole} : Register(h, u, r)
                 \/ \E u \in Users : Login(h, u)
                 \/ SignLogin(h)
                 \/ \E t \in tokens, route \in Routes : Arrive(h, t, route)
                 \/ ValidateToken(h) \/ FallBack(h) \/ Serve(h)
                 \/ \E u \in Users, r \in Assigned : UpdateUserRole(h, u, r)
                 \/ FindTarget(h) \/ Fail(h)
  <2>1. UNCHANGED <<now, role, lostAt>>
    BY <1>6
    DEF vars, Refresh, Register, Login, SignLogin, Arrive, ValidateToken, FallBack,
        Authenticated, Serve, UpdateUserRole, FindTarget, Fail
  <2> QED
    BY <1>2, <2>1, SMTT(60)
<1> QED
  BY <1>3, <1>4, <1>5, <1>6 DEF Next

\* What a call knows stays true while others move.
LEMMA CallGrows ==
    ASSUME TypeOK, TypeOK', HeldInv, [Next]_vars, NEW h \in Handlers,
           call[h].pc = "compare" => now' = now
    PROVE  CallInv(call[h], Held', now')
<1> DEFINE c == call[h]
<1>1. CallInv(c, Held, now) /\ now \in Nat /\ now' \in Nat /\ now <= now'
  BY HeldGrows, BoundsAssumption DEF HeldInv, TypeOK
<1>2. \A u \in DOMAIN role, r \in UserRole :
         /\ Held'[u][r] >= Held[u][r] /\ Held[u][r] \in Int /\ Held'[u][r] \in Int
         /\ u \in DOMAIN role'
  <2>1. ASSUME NEW u \in DOMAIN role, NEW r \in UserRole
        PROVE  /\ Held'[u][r] >= Held[u][r] /\ u \in DOMAIN role' /\ Held[u][r] \in Int
    BY HeldGrows, HeldType
  <2>2. ASSUME NEW u \in DOMAIN role', NEW r \in UserRole
        PROVE  Held'[u][r] \in Int
    BY <2>2, BoundsAssumption DEF Held, LastHeld, TypeOK
  <2> QED
    BY <2>1, <2>2
<1>3. DOMAIN Held = DOMAIN role /\ DOMAIN Held' = DOMAIN role'
  BY DEF Held
<1>4. /\ c.pc = "compare" => c.user \in DOMAIN role /\ c.role \in UserRole
      /\ c.pc \in {"validate", "validateAgain", "serve"} =>
            /\ c.token.user \in DOMAIN role /\ c.route \in Route
            /\ c.since \in Nat
      /\ c \in Request => c.since \in Nat
      /\ c.pc \in {"findTarget", "saveRole"} => c.since \in Nat
  BY CallShape DEF TypeOK, Signing, Request, RoleChange, AccessToken
<1>5. "ADMIN" \in UserRole /\ \A route \in Route : RolesOf(route) \subseteq UserRole
  BY RolesOfType DEF UserRole
<1> HIDE DEF c
<1>6. c.pc = "compare" => Held'[c.user][c.role] >= now'
  <2> SUFFICES ASSUME c.pc = "compare"
               PROVE  Held'[c.user][c.role] >= now'
    OBVIOUS
  <2>1. now' = now
    BY DEF c
  <2> QED
    BY <1>1, <1>2, <1>4, <2>1 DEF CallInv
<1>7. c \in Request => c.since <= now'
  BY <1>1, <1>4 DEF CallInv
<1>8. c.pc \in {"validateAgain", "serve"} =>
         \E r \in RolesOf(c.route) : /\ Held'[c.token.user][r] >= 0
                                     /\ Held'[c.token.user][r] > c.since - Lifetime
  <2> SUFFICES ASSUME c.pc \in {"validateAgain", "serve"}
               PROVE  \E r \in RolesOf(c.route) :
                         /\ Held'[c.token.user][r] >= 0
                         /\ Held'[c.token.user][r] > c.since - Lifetime
    OBVIOUS
  <2>1. PICK r \in RolesOf(c.route) : /\ Held[c.token.user][r] >= 0
                                      /\ Held[c.token.user][r] > c.since - Lifetime
    BY <1>1 DEF CallInv
  <2>2. r \in UserRole /\ c.token.user \in DOMAIN role /\ c.since - Lifetime \in Int
    BY <1>4, <1>5, BoundsAssumption
  <2> QED
    BY <1>2, <2>1, <2>2
<1>9. c.pc \in {"findTarget", "saveRole"} =>
         c.user \in DOMAIN Held' /\ Held'[c.user]["ADMIN"] >= c.since
  BY <1>1, <1>2, <1>3, <1>4, <1>5 DEF CallInv
<1>10. CallInv(c, Held', now')
  BY <1>1, <1>6, <1>7, <1>8, <1>9 DEF CallInv
<1> QED
  BY <1>10 DEF c

\* A handler that is done knows nothing.
LEMMA IdleInv ==
    ASSUME NEW held, NEW t
    PROVE  CallInv(Idle, held, t)
  BY DEF CallInv, Idle, Request
\* Tokens keep to what their users had, if those that a step signs do.
LEMMA TokensKept ==
    ASSUME TypeOK, TypeOK', HeldInv, [Next]_vars,
           \A t \in tokens' \ tokens : Held'[t.user][t.role] >= t.signed
    PROVE  \A t \in tokens' : Held'[t.user][t.role] >= t.signed
<1> SUFFICES ASSUME NEW t \in tokens'
             PROVE  Held'[t.user][t.role] >= t.signed
  OBVIOUS
<1>1. CASE t \in tokens
  <2>1. /\ t.user \in DOMAIN role /\ t.role \in UserRole /\ t.signed \in Nat
        /\ Held[t.user][t.role] >= t.signed
    BY <1>1 DEF TypeOK, AccessToken, HeldInv
  <2>2. /\ Held'[t.user][t.role] >= Held[t.user][t.role]
        /\ t.user \in DOMAIN role' /\ Held[t.user][t.role] \in Int
    BY <2>1, HeldGrows, HeldType
  <2>3. Held'[t.user][t.role] \in Int
    BY <2>1, <2>2, BoundsAssumption DEF Held, LastHeld, TypeOK
  <2> QED
    BY <2>1, <2>2, <2>3
<1>2. CASE t \notin tokens
  BY <1>2
<1> QED
  BY <1>1, <1>2

\* A handler's step keeps the strengthening if its next locals know enough, and the
\* tokens that it signs were signed with a role their user had.
LEMMA InvMoves ==
    ASSUME TypeOK, TypeOK', HeldInv, [Next]_vars, NEW h \in Handlers, NEW c,
           Goto(h, c), now' = now, CallInv(c, Held', now),
           \A t \in tokens' \ tokens : Held'[t.user][t.role] >= t.signed
    PROVE  HeldInv'
<1>1. \A u \in Users, r \in UserRole : lostAt'[u][r] <= now'
  BY HeldGrows
<1>2. \A t \in tokens' : Held'[t.user][t.role] >= t.signed
  BY TokensKept
<1>3. ASSUME NEW g \in Handlers
      PROVE  CallInv(call'[g], Held', now')
  <2>1. CASE g = h
    <3>1. call'[g] = c
      BY <2>1 DEF Goto, TypeOK
    <3> QED
      BY <3>1
  <2>2. CASE g # h
    <3>1. call'[g] = call[g]
      BY <2>2 DEF Goto, TypeOK
    <3>2. CallInv(call[g], Held', now')
      BY CallGrows
    <3> QED
      BY <3>1, <3>2
  <2> QED
    BY <2>1, <2>2
<1> QED
  BY <1>1, <1>2, <1>3 DEF HeldInv

\* The same for a step that moves no handler.
LEMMA InvStays ==
    ASSUME TypeOK, TypeOK', HeldInv, [Next]_vars, call' = call,
           \A g \in Handlers : call[g].pc = "compare" => now' = now,
           \A t \in tokens' \ tokens : Held'[t.user][t.role] >= t.signed
    PROVE  HeldInv'
<1>1. \A u \in Users, r \in UserRole : lostAt'[u][r] <= now'
  BY HeldGrows
<1>2. \A t \in tokens' : Held'[t.user][t.role] >= t.signed
  BY TokensKept
<1>3. ASSUME NEW g \in Handlers
      PROVE  CallInv(call'[g], Held', now')
  BY CallGrows
<1> QED
  BY <1>1, <1>2, <1>3 DEF HeldInv

\* A verification that found role r lets a request on only with a role that its user
\* had less than a lifetime before.
LEMMA VerifiedInv ==
    ASSUME TypeOK, HeldInv, NEW h \in Handlers, NEW r \in UserRole,
           Validating(h), Authenticated(h, r),
           \/ r = role[call[h].token.user]
           \/ r = call[h].token.role
    PROVE  \E c \in Calls : Goto(h, c) /\ CallInv(c, Held, now)
<1>1. PICK c \in Calls :
         /\ Goto(h, c)
         /\ c = Idle \/ (c \in Request /\ c.token = call[h].token
                         /\ c.since = call[h].since /\ c.route = call[h].route
                         /\ c.role = r /\ c.pc \in {"validateAgain", "serve"}
                         /\ Admits(call[h], r)
                         /\ (call[h].pc = "validate") = (c.pc = "validateAgain"))
  BY AuthenticatedMoves
<1>2. CASE c = Idle
  BY <1>1, <1>2, IdleInv
<1>3. CASE c \in Request
  <2>1. /\ c.token = call[h].token /\ c.since = call[h].since /\ c.route = call[h].route
        /\ c.role = r /\ c.pc \in {"validateAgain", "serve"} /\ Admits(call[h], r)
        /\ (call[h].pc = "validate") = (c.pc = "validateAgain")
    BY <1>1, <1>3 DEF Idle, Request
  <2> DEFINE u == call[h].token.user
  <2>2. /\ call[h] \in Request /\ call[h].token \in tokens /\ call[h].since <= now
        /\ CallInv(call[h], Held, now) /\ call[h].since \in Nat
    BY CallShape DEF Validating, HeldInv, CallInv, Request
  <2>3. /\ u \in DOMAIN role /\ call[h].token.signed \in Nat
        /\ Held[u][call[h].token.role] >= call[h].token.signed
        /\ call[h].token.role \in UserRole
    BY <2>2 DEF HeldInv, TypeOK, AccessToken
  <2>4. Held[u][r] \in Int /\ (role[u] = r => Held[u][r] = now) /\ now \in Nat
    BY <2>3, HeldType
  <2>5. call[h].pc = "validate" => call[h].since < call[h].token.signed + Lifetime
    BY <2>2 DEF CallInv
  <2>6. \E q \in RolesOf(c.route) :
           Held[u][q] >= 0 /\ Held[u][q] > c.since - Lifetime
    <3>1. CASE call[h].pc = "validate"
      <4>1. r \in RolesOf(c.route)
        BY <2>1, <3>1 DEF Admits, RolesChecked
      <4>2. Held[u][r] >= 0 /\ Held[u][r] > c.since - Lifetime
        <5>1. CASE r = role[u]
          BY <2>1, <2>2, <2>4, <5>1, BoundsAssumption
        <5>2. CASE r = call[h].token.role
          <6>1. Held[u][r] >= call[h].token.signed
            BY <2>3, <5>2
          <6> HIDE DEF u
          <6> QED
            BY <2>1, <2>2, <2>3, <2>4, <2>5, <3>1, <6>1, BoundsAssumption
        <5> QED
          BY <5>1, <5>2
      <4> QED
        BY <4>1, <4>2
    <3>2. CASE call[h].pc = "validateAgain"
      BY <2>1, <2>2, <3>2 DEF CallInv
    <3> QED
      BY <3>1, <3>2 DEF Validating
  <2>7. c.pc = "serve" /\ c.route \in {"operate", "audit"} => c.role \in RolesOf(c.route)
    BY <2>1 DEF Admits, RolesChecked
  <2>8. c.since <= now
    BY <2>1, <2>2
  <2>9. CallInv(c, Held, now)
    BY <2>1, <2>6, <2>7, <2>8 DEF CallInv
  <2> QED
    BY <1>1, <2>9
<1> QED
  BY <1>1, <1>2, <1>3

\* No step breaks the strengthening.
LEMMA HeldStep == TypeOK /\ TypeOK' /\ HeldInv /\ [Next]_vars => HeldInv'
<1> SUFFICES ASSUME TypeOK, TypeOK', HeldInv, [Next]_vars
             PROVE  HeldInv'
  OBVIOUS
<1>0. ASSUME UNCHANGED <<role, lostAt, now>>
      PROVE  Held' = Held
  BY <1>0 DEF Held, LastHeld
<1>1. ASSUME UNCHANGED vars
      PROVE  HeldInv'
  BY <1>1, InvStays DEF vars
<1>2. ASSUME NEW h \in Handlers, Return(h), now' = now, tokens' = tokens
      PROVE  HeldInv'
  <2>1. CallInv(Idle, Held', now)
    BY IdleInv
  <2> QED
    BY <1>2, <2>1, InvMoves DEF Return
<1>3. ASSUME NEW h \in Handlers, NEW c, Goto(h, c), CallInv(c, Held, now),
             UNCHANGED <<now, role, tokens, lostAt>>
      PROVE  HeldInv'
  <2>1. CallInv(c, Held', now)
    BY <1>0, <1>3
  <2> QED
    BY <1>3, <2>1, InvMoves
<1>4. ASSUME NEW h \in Handlers, NEW u \in Users, NEW r \in Assigned \cup {NoRole},
             Register(h, u, r)
      PROVE  HeldInv'
  <2>1. CASE u \in DOMAIN role
    BY <1>1, <1>4, <2>1 DEF Register, vars
  <2>2. CASE u \notin DOMAIN role
    <3> DEFINE c == [pc |-> "create", user |-> u, role |-> r]
    <3>1. CallInv(c, Held, now)
      BY DEF CallInv, Request
    <3>2. Goto(h, c) /\ UNCHANGED <<now, role, tokens, lostAt>>
      BY <1>4, <2>2 DEF Register
    <3> HIDE DEF c
    <3> QED
      BY <1>3, <3>1, <3>2
  <2> QED
    BY <2>1, <2>2
<1>5. ASSUME NEW h \in Handlers, Create(h)
      PROVE  HeldInv'
  BY <1>2, <1>5 DEF Create
<1>6. ASSUME NEW h \in Handlers, NEW u \in Users, Login(h, u)
      PROVE  HeldInv'
  <2> DEFINE c == [pc |-> "compare", user |-> u, role |-> role[u]]
  <2>1. Goto(h, c) /\ u \in DOMAIN role /\ UNCHANGED <<now, role, tokens, lostAt>>
    BY <1>6 DEF Login
  <2>2. role[u] \in UserRole
    BY <2>1 DEF TypeOK
  <2>3. Held[u][role[u]] = now /\ now \in Nat
    BY <2>1, <2>2, HeldType
  <2>4. CallInv(c, Held, now)
    BY <2>3 DEF CallInv, Request
  <2> HIDE DEF c
  <2> QED
    BY <1>3, <2>1, <2>4
<1>7. ASSUME NEW h \in Handlers, SignLogin(h)
      PROVE  HeldInv'
  <2> DEFINE t == [user |-> call[h].user, role |-> call[h].role, signed |-> now]
  <2>1. /\ tokens' = tokens \cup {t} /\ Goto(h, Idle) /\ UNCHANGED <<now, role, lostAt>>
        /\ call[h].pc = "compare"
    BY <1>7 DEF SignLogin, Sign, Return
  <2>2. Held[call[h].user][call[h].role] >= now
    BY <2>1 DEF HeldInv, CallInv
  <2>3. \A s \in tokens' \ tokens : Held'[s.user][s.role] >= s.signed
    BY <1>0, <2>1, <2>2
  <2>4. CallInv(Idle, Held', now)
    BY IdleInv
  <2> QED
    BY <2>1, <2>3, <2>4, InvMoves
<1>8. ASSUME NEW u \in Users, Refresh(u)
      PROVE  HeldInv'
  <2> DEFINE t == [user |-> u, role |-> role[u], signed |-> now]
  <2>1. tokens' = tokens \cup {t} /\ UNCHANGED <<now, role, lostAt, call>>
    BY <1>8 DEF Refresh, Sign
  <2>2. u \in DOMAIN role /\ role[u] \in UserRole
    BY <1>8 DEF Refresh, TypeOK
  <2>3. Held[u][role[u]] = now /\ now \in Nat
    BY <2>2, HeldType
  <2>4. \A s \in tokens' \ tokens : Held'[s.user][s.role] >= s.signed
    BY <1>0, <2>1, <2>3
  <2> QED
    BY <2>1, <2>4, InvStays
<1>9. ASSUME NEW h \in Handlers, NEW t \in tokens, NEW route \in Routes, Arrive(h, t, route)
      PROVE  HeldInv'
  <2>1. CASE Verifies(t)
    <3> DEFINE c == [pc |-> "validate", token |-> t, route |-> route, role |-> t.role,
                     since |-> now]
    <3>1. CallInv(c, Held, now)
      BY <2>1, BoundsAssumption DEF CallInv, Verifies, TypeOK
    <3>2. Goto(h, c) /\ UNCHANGED <<now, role, tokens, lostAt>>
      BY <1>9, <2>1 DEF Arrive
    <3> HIDE DEF c
    <3> QED
      BY <1>3, <3>1, <3>2
  <2>2. CASE ~Verifies(t)
    BY <1>1, <1>9, <2>2 DEF Arrive, vars
  <2> QED
    BY <2>1, <2>2
<1>10. ASSUME NEW h \in Handlers, ValidateToken(h) \/ FallBack(h)
       PROVE  HeldInv'
  <2>1. PICK r \in UserRole :
           /\ Validating(h) /\ Authenticated(h, r)
           /\ r = role[call[h].token.user] \/ r = call[h].token.role
    BY <1>10, FoundRole DEF ValidateToken, FallBack
  <2>2. PICK c \in Calls : Goto(h, c) /\ CallInv(c, Held, now)
    BY <2>1, VerifiedInv
  <2>3. UNCHANGED <<now, role, tokens, lostAt>>
    BY <2>1 DEF Authenticated
  <2> QED
    BY <1>3, <2>2, <2>3
<1>11. ASSUME NEW h \in Handlers, Serve(h) \/ Fail(h)
       PROVE  HeldInv'
  BY <1>2, <1>11 DEF Serve, Fail
<1>12. ASSUME NEW h \in Handlers, NEW target \in Users, NEW to \in Assigned,
              UpdateUserRole(h, target, to)
       PROVE  HeldInv'
  <2>1. CASE IsAdmin(call[h])
    <3> DEFINE c == [pc |-> "findTarget", user |-> call[h].token.user,
                     since |-> call[h].since, target |-> target, to |-> to, read |-> to]
    <3>1. /\ call[h] \in Request /\ call[h].token.user \in DOMAIN role
          /\ role[call[h].token.user] = "ADMIN" /\ call[h].since <= now
      BY <1>12, <2>1, CallShape DEF UpdateUserRole, IsAdmin, TypeOK, HeldInv, CallInv
    <3>2. /\ Held[call[h].token.user]["ADMIN"] = now
          /\ call[h].token.user \in DOMAIN Held
      BY <3>1, HeldType DEF Held, UserRole
    <3>3. CallInv(c, Held, now)
      BY <3>1, <3>2 DEF CallInv, Request
    <3>4. Goto(h, c) /\ UNCHANGED <<now, role, tokens, lostAt>>
      BY <1>12, <2>1 DEF UpdateUserRole
    <3> HIDE DEF c
    <3> QED
      BY <1>3, <3>3, <3>4
  <2>2. CASE ~IsAdmin(call[h])
    BY <1>2, <1>12, <2>2 DEF UpdateUserRole
  <2> QED
    BY <2>1, <2>2
<1>13. ASSUME NEW h \in Handlers, FindTarget(h)
       PROVE  HeldInv'
  <2>1. CASE MayChange(call[h].user, call[h].target)
    <3> DEFINE c == [call[h] EXCEPT !.pc = "saveRole", !.read = role[call[h].target]]
    <3>1. /\ call[h] \in RoleChange /\ call[h].pc = "findTarget"
          /\ call[h].target # call[h].user /\ CallInv(call[h], Held, now)
      BY <1>13, <2>1, CallShape DEF FindTarget, MayChange, HeldInv
    <3>2. /\ c.pc = "saveRole" /\ c.user = call[h].user /\ c.target = call[h].target
          /\ c.since = call[h].since /\ c \notin Request
      BY <3>1 DEF RoleChange, Request
    <3>3. Goto(h, c) /\ UNCHANGED <<now, role, tokens, lostAt>>
      BY <1>13, <2>1 DEF FindTarget
    <3> HIDE DEF c
    <3>4. CallInv(c, Held, now)
      BY <3>1, <3>2 DEF CallInv
    <3> QED
      BY <1>3, <3>3, <3>4
  <2>2. CASE ~MayChange(call[h].user, call[h].target)
    BY <1>2, <1>13, <2>2 DEF FindTarget
  <2> QED
    BY <2>1, <2>2
<1>14. ASSUME NEW h \in Handlers, SaveRole(h)
       PROVE  HeldInv'
  BY <1>2, <1>14 DEF SaveRole
<1>15. CASE Tick
  BY <1>15, InvStays DEF Tick
<1> QED
  BY <1>1, <1>4, <1>5, <1>6, <1>7, <1>8, <1>9, <1>10, <1>11, <1>12, <1>13, <1>14, <1>15
  DEF Next

\* The strengthening holds throughout, together with the types.
LEMMA HeldThroughout == Spec => [](TypeOK /\ HeldInv)
<1>1. Init => HeldInv
  BY BoundsAssumption DEF Init, HeldInv, CallInv, Idle, Request
<1> QED
  BY <1>1, HeldStep, TypeCorrect, PTL DEF Spec

-----------------------------------------------------------------------------
(***************************************************************************)
(* Requests and role changes                                               *)
(***************************************************************************)

\* Whoever is served had one of the roles of the route less than the lifetime of a
\* token before the request was verified, whether or not the Auth service answers.
THEOREM RequestsAuthorised == Spec => []ServedAuthorised
<1>1. TypeOK /\ HeldInv => ServedAuthorised
  <2> SUFFICES ASSUME TypeOK, HeldInv, NEW h \in Handlers, call[h].pc = "serve"
               PROVE  \E r \in RolesOf(call[h].route) :
                         /\ LastHeld(call[h].token.user, r) >= 0
                         /\ LastHeld(call[h].token.user, r) > call[h].since - Lifetime
    BY DEF ServedAuthorised
  <2>1. /\ call[h] \in Request /\ call[h].token.user \in DOMAIN role
        /\ RolesOf(call[h].route) \subseteq UserRole
    BY CallShape, RolesOfType DEF TypeOK, Request
  <2>2. PICK r \in RolesOf(call[h].route) :
           /\ Held[call[h].token.user][r] >= 0
           /\ Held[call[h].token.user][r] > call[h].since - Lifetime
    BY DEF HeldInv, CallInv
  <2>3. Held[call[h].token.user][r] = LastHeld(call[h].token.user, r)
    BY <2>1, HeldType
  <2> QED
    BY <2>2, <2>3
<1> QED
  BY <1>1, HeldThroughout, PTL

\* A route whose own RolesGuard runs last serves only the roles that it asks for,
\* although two verifications may see different roles.
THEOREM RoutesChecked == Spec => []ServedRoleChecked
<1>1. HeldInv => ServedRoleChecked
  BY DEF HeldInv, CallInv, ServedRoleChecked
<1> QED
  BY <1>1, HeldThroughout, PTL

\* The role of a stored user is changed by one step alone.
LEMMA RoleChanges ==
    ASSUME TypeOK, [Next]_vars, NEW u \in DOMAIN role, role'[u] # role[u]
    PROVE  \E h \in Handlers : /\ SaveRole(h) /\ call[h].target = u
                               /\ \A v \in DOMAIN role \ {u} :
                                     v \in DOMAIN role' /\ role'[v] = role[v]
<1>1. ASSUME role' = role
      PROVE  FALSE
  BY <1>1
<1>2. ASSUME NEW h \in Handlers, Create(h)
      PROVE  FALSE
  BY <1>2 DEF Create, Created
<1>3. ASSUME NEW h \in Handlers, SaveRole(h)
      PROVE  /\ call[h].target = u
             /\ \A v \in DOMAIN role \ {u} : v \in DOMAIN role' /\ role'[v] = role[v]
  <2>1. role' = [role EXCEPT ![call[h].target] = call[h].to]
    BY <1>1, <1>3 DEF SaveRole
  <2>2. call[h].target = u
    BY <2>1
  <2> QED
    BY <2>1, <2>2
<1>4. CASE \/ UNCHANGED vars
           \/ Tick
           \/ \E v \in Users : Refresh(v)
           \/ \E h \in Handlers :
                 \/ \E v \in Users, r \in Assigned \cup {NoRole} : Register(h, v, r)
                 \/ \E v \in Users : Login(h, v)
                 \/ SignLogin(h)
                 \/ \E t \in tokens, route \in Routes : Arrive(h, t, route)
                 \/ ValidateToken(h) \/ FallBack(h) \/ Serve(h)
                 \/ \E v \in Users, r \in Assigned : UpdateUserRole(h, v, r)
                 \/ FindTarget(h) \/ Fail(h)
  <2>1. role' = role
    BY <1>4, ZenonT(60)
    DEF vars, Tick, Refresh, Register, Login, SignLogin, Arrive, ValidateToken, FallBack,
        Authenticated, Serve, UpdateUserRole, FindTarget, Fail
  <2> QED
    BY <1>1, <2>1, SMTT(60)
<1> QED
  BY <1>2, <1>3, <1>4 DEF Next

\* What is known of the caller of a role change that is about to be saved.
LEMMA CallerWasAdmin ==
    ASSUME TypeOK, HeldInv, NEW h \in Handlers, SaveRole(h)
    PROVE  /\ LastHeld(call[h].user, "ADMIN") >= call[h].since
           /\ call[h].user \in DOMAIN role /\ call[h].target # call[h].user
<1>1. call[h].pc = "saveRole"
  BY DEF SaveRole
<1>2. /\ call[h].user \in DOMAIN Held /\ Held[call[h].user]["ADMIN"] >= call[h].since
      /\ call[h].target # call[h].user
  BY <1>1 DEF HeldInv, CallInv
<1> QED
  BY <1>2, HeldType DEF Held, UserRole

\* The role of an account changes only on behalf of a user who was ADMIN, in the
\* users collection, after the request arrived.
THEOREM OnlyAdminsChangeRoles == Spec => RoleChangeAuthorised
<1>1. TypeOK /\ HeldInv /\ [Next]_vars =>
         [\A u \in DOMAIN role :
             role'[u] # role[u] =>
                \E h \in Handlers :
                   /\ SaveRole(h) /\ call[h].target = u
                   /\ LastHeld(call[h].user, "ADMIN") >= call[h].since]_vars
  BY RoleChanges, CallerWasAdmin
<1> QED
  BY <1>1, HeldThroughout, PTL DEF Spec, RoleChangeAuthorised

\* The last admin is lost only to a role change whose caller was demoted, by another
\* one, while it was under way.
THEOREM LastAdminRemains == Spec => AdminRemains
<1>1. TypeOK /\ HeldInv /\ [Next]_vars =>
         [Admins # {} /\ Admins' = {} =>
             \E h \in Handlers :
                /\ SaveRole(h)
                /\ call[h].user \notin Admins
                /\ lostAt[call[h].user]["ADMIN"] >= call[h].since]_vars
  <2> SUFFICES ASSUME TypeOK, HeldInv, [Next]_vars, Admins # {}, Admins' = {}
               PROVE  \E h \in Handlers :
                         /\ SaveRole(h)
                         /\ call[h].user \notin Admins
                         /\ lostAt[call[h].user]["ADMIN"] >= call[h].since
    OBVIOUS
  <2>1. PICK u \in Admins : TRUE
    OBVIOUS
  <2>2. u \in DOMAIN role /\ role[u] = "ADMIN"
    BY <2>1 DEF Admins
  <2>3. role'[u] # role[u]
    <3>1. u \in DOMAIN role'
      BY <2>2, ZenonT(60) DEF Next, vars, Tick, Refresh, Register, Login, Create, Created, SignLogin,
                  Arrive, ValidateToken, FallBack, Authenticated, Serve, UpdateUserRole,
                  FindTarget, SaveRole, Fail
    <3> QED
      BY <2>2, <3>1 DEF Admins
  <2>4. PICK h \in Handlers : /\ SaveRole(h) /\ call[h].target = u
                              /\ \A v \in DOMAIN role \ {u} :
                                    v \in DOMAIN role' /\ role'[v] = role[v]
    BY <2>2, <2>3, RoleChanges
  <2>5. /\ LastHeld(call[h].user, "ADMIN") >= call[h].since
        /\ call[h].user \in DOMAIN role /\ call[h].user # u
    BY <2>4, CallerWasAdmin
  <2>6. role[call[h].user] # "ADMIN"
    BY <2>4, <2>5 DEF Admins
  <2> QED
    BY <2>4, <2>5, <2>6 DEF LastHeld, Admins
<1> QED
  BY <1>1, HeldThroughout, PTL DEF Spec, AdminRemains
=============================================================================
