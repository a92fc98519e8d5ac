------------------------ MODULE RefreshTokensProofs ------------------------
(***************************************************************************)
(* Proofs about RefreshTokens, for every set of users, tokens and          *)
(* handlers.                                                               *)
(***************************************************************************)
EXTENDS RefreshTokens, FiniteSetTheorems, TLAPS

-----------------------------------------------------------------------------
(***************************************************************************)
(* Types                                                                   *)
(***************************************************************************)
Calls == {Idle} \cup Minting \cup Revoking

\* The part of TypeOK that relates the locals of a handler to the documents.
LocalsStored(h) ==
    /\ call[h] \in Minting => call[h].old \in DOMAIN tokens \cup {NoToken}
    /\ call[h].pc = "finish" => call[h].new \in DOMAIN tokens
    /\ call[h].pc = "revoke" => call[h].old \in DOMAIN tokens

\* What the program counter of a handler says about its locals.
LEMMA CallShape ==
    ASSUME TypeOK, NEW h \in Handlers
    PROVE  /\ call[h].pc \in {"revokeAll", "insert", "finish"} => call[h] \in Minting
           /\ call[h].pc = "revoke" => call[h] \in Revoking
           /\ LocalsStored(h)
  BY DEF TypeOK, Minting, Revoking, Idle, LocalsStored

\* A step that only adds tokens leaves the handlers it does not move well typed.
LEMMA OthersStored ==
    ASSUME TypeOK, NEW h \in Handlers, NEW c \in Calls,
           call' = [call EXCEPT ![h] = c],
           DOMAIN tokens \subseteq DOMAIN tokens',
           LocalsStored(h)'
    PROVE  /\ call' \in [Handlers -> Calls]
           /\ \A g \in Handlers : LocalsStored(g)'
<1>1. \A g \in Handlers \ {h} : call'[g] = call[g] /\ LocalsStored(g)
  BY DEF TypeOK, LocalsStored
<1>2. \A g \in Handlers \ {h} : LocalsStored(g)'
  BY <1>1 DEF LocalsStored
<1> QED
  BY <1>2 DEF TypeOK, Calls

\* A handler that returns has no locals.
LEMMA ReturnStored ==
    ASSUME TypeOK, NEW h \in Handlers, Return(h), DOMAIN tokens \subseteq DOMAIN tokens'
    PROVE  /\ call' \in [Handlers -> Calls]
           /\ \A g \in Handlers : LocalsStored(g)'
<1>1. call'[h] = Idle
  BY DEF TypeOK, Return
<1>2. LocalsStored(h)'
  BY <1>1 DEF LocalsStored, Idle, Minting
<1> QED
  BY <1>2, OthersStored DEF Return, Calls

\* Revoking a token keeps the type of the documents.
LEMMA RevokeType ==
    ASSUME TypeOK, NEW t
    PROVE  [tokens EXCEPT ![t].revoked = TRUE] \in [DOMAIN tokens -> RefreshToken]
  BY ZenonT(60) DEF TypeOK, RefreshToken

\* A revocation that stops halfway changes nothing but revoked, of tokens of u.
LEMMA RevokedSomeKeeps ==
    ASSUME TypeOK, NEW u, tokens' \in RevokedSome(u)
    PROVE  /\ tokens' \in [DOMAIN tokens -> RefreshToken] /\ DOMAIN tokens' = DOMAIN tokens
           /\ \A t \in DOMAIN tokens :
                 /\ tokens'[t].userId = tokens[t].userId
                 /\ tokens'[t].expires = tokens[t].expires
                 /\ tokens[t].revoked => tokens'[t].revoked
                 /\ tokens[t].userId # u => tokens'[t].revoked = tokens[t].revoked
<1> PICK S \in SUBSET Owned(u) :
       tokens' = [t \in DOMAIN tokens |->
                     [tokens[t] EXCEPT !.revoked = @ \/ t \in S]]
  BY DEF RevokedSome
<1>1. ASSUME NEW t \in DOMAIN tokens
      PROVE  /\ tokens'[t] \in RefreshToken
             /\ tokens'[t].userId = tokens[t].userId
             /\ tokens'[t].expires = tokens[t].expires
             /\ tokens[t].revoked => tokens'[t].revoked
             /\ tokens[t].userId # u => tokens'[t].revoked = tokens[t].revoked
  <2>1. /\ tokens[t] \in RefreshToken
        /\ tokens'[t] = [tokens[t] EXCEPT !.revoked = tokens[t].revoked \/ t \in S]
    BY DEF TypeOK
  <2>2. /\ tokens'[t].userId = tokens[t].userId
        /\ tokens'[t].expires = tokens[t].expires
        /\ tokens'[t].revoked = (tokens[t].revoked \/ t \in S)
    BY <2>1 DEF RefreshToken
  <2>3. tokens'[t] \in RefreshToken
    BY <2>1, Zenon DEF RefreshToken
  <2>4. tokens[t].userId # u => t \notin S
    BY DEF Owned
  <2>5. tokens[t].revoked \in BOOLEAN
    BY <2>1 DEF RefreshToken
  <2> QED
    BY <2>2, <2>3, <2>4, <2>5
<1> QED
  BY <1>1

\* Every reachable state is well typed: the documents keep their shape, and the
\* handlers' locals name stored tokens.
THEOREM TypeCorrect == Spec => []TypeOK
<1>1. Init => TypeOK
  BY TimeAssumption DEF Init, TypeOK, Idle, Minting
<1>2. TypeOK /\ [Next]_vars => TypeOK'
  <2> SUFFICES ASSUME TypeOK, [Next]_vars
               PROVE  TypeOK'
    OBVIOUS
  <2> USE TimeAssumption
  <2>0. ASSUME call' \in [Handlers -> Calls], \A g \in Handlers : LocalsStored(g)'
        PROVE  /\ call' \in [Handlers -> {Idle} \cup Minting \cup Revoking]
               /\ \A h \in Handlers :
                    /\ call'[h] \in Minting =>
                          call'[h].old \in DOMAIN tokens' \cup {NoToken}
                    /\ call'[h].pc = "finish" => call'[h].new \in DOMAIN tokens'
                    /\ call'[h].pc = "revoke" => call'[h].old \in DOMAIN tokens'
    BY <2>0 DEF Calls, LocalsStored
  <2>1. ASSUME NEW h \in Handlers, NEW u \in Users, NEW old \in DOMAIN tokens \cup {NoToken},
               Mint(h, u, old), UNCHANGED <<now, tokens, delivered, exchanged>>
        PROVE  TypeOK'
    <3> DEFINE c == [pc |-> "revokeAll", user |-> u, old |-> old, new |-> NoToken]
    <3>1. c \in Calls /\ call' = [call EXCEPT ![h] = c]
      BY <2>1 DEF Mint, Calls, Minting, TypeOK
    <3>2. LocalsStored(h)'
      BY <2>1, <3>1 DEF LocalsStored, TypeOK
    <3>3. overlapped' \subseteq Users
      BY <2>1 DEF Mint, Begin, TypeOK
    <3> QED
      BY <2>0, <2>1, <3>1, <3>2, <3>3, OthersStored DEF TypeOK
  <2>2. ASSUME NEW h \in Handlers, NEW u \in Users, Login(h, u)
        PROVE  TypeOK'
    BY <2>1, <2>2 DEF Login
  <2>3. ASSUME NEW h \in Handlers, NEW t \in Tokens, Refresh(h, t)
        PROVE  TypeOK'
    <3>1. t \in DOMAIN tokens /\ tokens[t].userId \in Users
      BY <2>3 DEF Refresh, TypeOK, RefreshToken
    <3> QED
      BY <2>1, <2>3, <3>1 DEF Refresh
  <2>4. ASSUME NEW h \in Handlers, RevokeAll(h)
        PROVE  TypeOK'
    <3> DEFINE c == [call[h] EXCEPT !.pc = "insert"]
    <3>1. call[h] \in Minting /\ LocalsStored(h)
      BY <2>4, CallShape DEF RevokeAll
    <3>2. /\ c \in Calls /\ c.old = call[h].old /\ c.pc = "insert"
          /\ call' = [call EXCEPT ![h] = c]
      BY <2>4, <3>1 DEF RevokeAll, Minting, Calls, TypeOK
    <3>3. tokens' \in [DOMAIN tokens -> RefreshToken] /\ DOMAIN tokens' = DOMAIN tokens
      BY <2>4, ZenonT(60) DEF RevokeAll, RevokedAll, TypeOK, RefreshToken
    <3> HIDE DEF c
    <3>4. LocalsStored(h)'
      BY <3>1, <3>2, <3>3 DEF LocalsStored, TypeOK
    <3> QED
      BY <2>0, <2>4, <3>2, <3>3, <3>4, OthersStored DEF TypeOK, RevokeAll
  <2>5. ASSUME NEW h \in Handlers, NEW t \in Tokens, Insert(h, t)
        PROVE  TypeOK'
    <3> DEFINE c == [[call[h] EXCEPT !.pc = "finish"] EXCEPT !.new = t]
    <3>1. call[h] \in Minting /\ LocalsStored(h)
      BY <2>5, CallShape DEF Insert
    <3>2. /\ c \in Calls /\ c.old = call[h].old /\ c.new = t /\ c.pc = "finish"
          /\ call' = [call EXCEPT ![h] = c]
      BY <2>5, <3>1 DEF Insert, Minting, Calls, TypeOK
    <3>3. /\ tokens' \in [DOMAIN tokens' -> RefreshToken]
          /\ DOMAIN tokens' = DOMAIN tokens \cup {t}
      BY <2>5, <3>1 DEF Insert, NewToken, TypeOK, RefreshToken, Minting
    <3> HIDE DEF c
    <3>4. LocalsStored(h)'
      BY <3>1, <3>2, <3>3 DEF LocalsStored, TypeOK
    <3> QED
      BY <2>0, <2>5, <3>2, <3>3, <3>4, OthersStored DEF TypeOK, Insert
  <2>6. ASSUME NEW h \in Handlers, Finish(h)
        PROVE  TypeOK'
    <3>1. call[h] \in Minting /\ LocalsStored(h)
      BY <2>6, CallShape DEF Finish
    <3>2. tokens' \in [DOMAIN tokens -> RefreshToken] /\ DOMAIN tokens' = DOMAIN tokens
      BY <2>6, RevokeType DEF Finish, TypeOK
    <3>3. exchanged' \in [Tokens -> Nat]
      BY <2>6 DEF Finish, TypeOK
    <3>4. delivered' \subseteq DOMAIN tokens'
      BY <2>6, <3>1, <3>2 DEF Finish, TypeOK, LocalsStored
    <3> QED
      BY <2>0, <2>6, <3>2, <3>3, <3>4, ReturnStored DEF TypeOK, Finish
  <2>7. ASSUME NEW h \in Handlers, NEW t \in Tokens, Logout(h, t)
        PROVE  TypeOK'
    <3>1. CASE UNCHANGED <<call, overlapped>>
      BY <2>7, <3>1 DEF Logout, TypeOK
    <3>2. CASE call' = [call EXCEPT ![h] = [pc |-> "revoke", old |-> t]]
      <4>1. t \in DOMAIN tokens /\ [pc |-> "revoke", old |-> t] \in Calls
        BY <2>7 DEF Logout, TypeOK, Calls, Revoking
      <4>2. LocalsStored(h)'
        BY <2>7, <3>2, <4>1 DEF Logout, LocalsStored, TypeOK, Minting
      <4>3. overlapped' \subseteq Users
        BY <2>7, <4>1 DEF Logout, Begin, TypeOK, RefreshToken
      <4> QED
        BY <2>0, <2>7, <3>2, <4>1, <4>2, <4>3, OthersStored DEF TypeOK, Logout
    <3> QED
      BY <2>7, <3>1, <3>2 DEF Logout
  <2>8. ASSUME NEW h \in Handlers, Revoke(h)
        PROVE  TypeOK'
    <3>1. tokens' \in [DOMAIN tokens -> RefreshToken] /\ DOMAIN tokens' = DOMAIN tokens
      BY <2>8, RevokeType DEF Revoke, TypeOK
    <3> QED
      BY <2>0, <2>8, <3>1, ReturnStored DEF TypeOK, Revoke
  <2>9. ASSUME NEW h \in Handlers, Fail(h)
        PROVE  TypeOK'
    BY <2>0, <2>9, ReturnStored DEF TypeOK, Fail
  <2>10. CASE Tick
    BY <2>10 DEF TypeOK, Tick
  <2>11. CASE UNCHANGED vars
    BY <2>11 DEF TypeOK, vars
  <2>12. ASSUME NEW h \in Handlers, RevokeAllFails(h)
         PROVE  TypeOK'
    <3>1. tokens' \in [DOMAIN tokens -> RefreshToken] /\ DOMAIN tokens' = DOMAIN tokens
      BY <2>12, RevokedSomeKeeps DEF RevokeAllFails
    <3> QED
      BY <2>0, <2>12, <3>1, ReturnStored DEF TypeOK, RevokeAllFails
  <2> QED
    BY <2>2, <2>3, <2>4, <2>5, <2>6, <2>7, <2>8, <2>9, <2>10, <2>11, <2>12
    DEF Next, RefreshRefused
<1> QED
  BY <1>1, <1>2, PTL DEF Spec
-----------------------------------------------------------------------------
(***************************************************************************)
(* A user's unrevoked tokens are no more than the handlers.  The invariant *)
(* also counts the calls that have revoked and are about to insert.        *)
(***************************************************************************)
Inserting(u) == {h \in Handlers : call[h].pc = "insert" /\ call[h].user = u}

SessionsCounted ==
    \A u \in Users :
        Cardinality(Unrevoked(u)) + Cardinality(Inserting(u)) <= Cardinality(Handlers)

\* Both sets that the invariant counts are finite.
LEMMA SessionsFinite ==
    ASSUME TypeOK, NEW u \in Users
    PROVE  /\ IsFiniteSet(Unrevoked(u)) /\ Cardinality(Unrevoked(u)) \in Nat
           /\ IsFiniteSet(Inserting(u)) /\ Cardinality(Inserting(u)) \in Nat
           /\ Cardinality(Inserting(u)) <= Cardinality(Handlers)
           /\ Cardinality(Handlers) \in Nat
<1>1. Unrevoked(u) \subseteq Tokens /\ Inserting(u) \subseteq Handlers
  BY DEF Unrevoked, Inserting, TypeOK
<1> QED
  BY <1>1, FiniteAssumption, FS_Subset, FS_CardinalityType

\* A step that neither leaves a token unrevoked nor brings a call to its insert
\* keeps the bound of a user.
LEMMA SessionsShrink ==
    ASSUME TypeOK, SessionsCounted, NEW u \in Users,
           Unrevoked(u)' \subseteq Unrevoked(u), Inserting(u)' \subseteq Inserting(u)
    PROVE  Cardinality(Unrevoked(u)') + Cardinality(Inserting(u)')
              <= Cardinality(Handlers)
<1>1. /\ Cardinality(Unrevoked(u)') \in Nat
      /\ Cardinality(Unrevoked(u)') <= Cardinality(Unrevoked(u))
  BY SessionsFinite, FS_Subset, FS_CardinalityType
<1>2. /\ Cardinality(Inserting(u)') \in Nat
      /\ Cardinality(Inserting(u)') <= Cardinality(Inserting(u))
  BY SessionsFinite, FS_Subset, FS_CardinalityType
<1> QED
  BY <1>1, <1>2, SessionsFinite DEF SessionsCounted

\* revokeAll leaves its user no unrevoked token, whoever else is inserting.
LEMMA SessionsRevoked ==
    ASSUME TypeOK, TypeOK', NEW u \in Users, Unrevoked(u)' = {}
    PROVE  Cardinality(Unrevoked(u)') + Cardinality(Inserting(u)')
              <= Cardinality(Handlers)
<1>1. Inserting(u)' \subseteq Handlers
  BY DEF Inserting
<1>2. /\ Cardinality(Inserting(u)') \in Nat
      /\ Cardinality(Inserting(u)') <= Cardinality(Handlers)
      /\ Cardinality(Handlers) \in Nat
  BY <1>1, FiniteAssumption, FS_Subset, FS_CardinalityType
<1> QED
  BY <1>2, FS_EmptySet

\* An insert trades a call about to insert for a token.
LEMMA SessionsInserted ==
    ASSUME TypeOK, SessionsCounted, NEW u \in Users, NEW h \in Inserting(u), NEW t,
           Unrevoked(u)' \subseteq Unrevoked(u) \cup {t},
           Inserting(u)' \subseteq Inserting(u) \ {h}
    PROVE  Cardinality(Unrevoked(u)') + Cardinality(Inserting(u)')
              <= Cardinality(Handlers)
<1>1. /\ IsFiniteSet(Unrevoked(u) \cup {t})
      /\ Cardinality(Unrevoked(u) \cup {t}) \in Nat
      /\ Cardinality(Unrevoked(u) \cup {t}) <= Cardinality(Unrevoked(u)) + 1
  <2>1. IsFiniteSet(Unrevoked(u)) /\ Cardinality(Unrevoked(u)) \in Nat
    BY SessionsFinite
  <2>2. /\ IsFiniteSet(Unrevoked(u) \cup {t})
        /\ Cardinality(Unrevoked(u) \cup {t}) =
              IF t \in Unrevoked(u) THEN Cardinality(Unrevoked(u))
              ELSE Cardinality(Unrevoked(u)) + 1
    BY <2>1, FS_AddElement
  <2> QED
    BY <2>1, <2>2
<1>2. /\ IsFiniteSet(Inserting(u) \ {h})
      /\ Cardinality(Inserting(u) \ {h}) = Cardinality(Inserting(u)) - 1
  BY SessionsFinite, FS_RemoveElement
<1>3. /\ Cardinality(Unrevoked(u)') \in Nat
      /\ Cardinality(Unrevoked(u)') <= Cardinality(Unrevoked(u) \cup {t})
  BY <1>1, FS_Subset, FS_CardinalityType
<1>4. /\ Cardinality(Inserting(u)') \in Nat
      /\ Cardinality(Inserting(u)') <= Cardinality(Inserting(u) \ {h})
  BY <1>2, FS_Subset, FS_CardinalityType
<1> QED
  BY <1>1, <1>2, <1>3, <1>4, SessionsFinite DEF SessionsCounted

\* No step breaks the count.
LEMMA SessionsStep == TypeOK /\ TypeOK' /\ SessionsCounted /\ [Next]_vars => SessionsCounted'
<1> SUFFICES ASSUME TypeOK, TypeOK', SessionsCounted, [Next]_vars, NEW u \in Users
             PROVE  Cardinality(Unrevoked(u)') + Cardinality(Inserting(u)')
                       <= Cardinality(Handlers)
  BY DEF SessionsCounted
<1>1. ASSUME NEW h \in Handlers, NEW v \in Users, NEW old,
             Mint(h, v, old), UNCHANGED <<now, tokens, delivered, exchanged>>
      PROVE  Unrevoked(u)' \subseteq Unrevoked(u) /\ Inserting(u)' \subseteq Inserting(u)
  BY <1>1 DEF Mint, Unrevoked, Inserting, TypeOK
<1>2. ASSUME NEW h \in Handlers, Return(h)
      PROVE  Inserting(u)' \subseteq Inserting(u)
  BY <1>2 DEF Return, Idle, Inserting, TypeOK
<1>3. ASSUME NEW h \in Handlers, NEW t \in DOMAIN tokens,
             tokens' = [tokens EXCEPT ![t].revoked = TRUE]
      PROVE  Unrevoked(u)' \subseteq Unrevoked(u)
  BY <1>3 DEF Unrevoked, TypeOK, RefreshToken
<1>4. ASSUME NEW h \in Handlers, NEW v \in Users, Login(h, v)
      PROVE  Cardinality(Unrevoked(u)') + Cardinality(Inserting(u)') <= Cardinality(Handlers)
  BY <1>1, <1>4, SessionsShrink DEF Login
<1>5. ASSUME NEW h \in Handlers, NEW t \in Tokens, Refresh(h, t)
      PROVE  Cardinality(Unrevoked(u)') + Cardinality(Inserting(u)') <= Cardinality(Handlers)
  <2>1. tokens[t].userId \in Users
    BY <1>5 DEF Refresh, TypeOK, RefreshToken
  <2> QED
    BY <1>1, <1>5, <2>1, SessionsShrink DEF Refresh
<1>6. ASSUME NEW h \in Handlers, RevokeAll(h)
      PROVE  Cardinality(Unrevoked(u)') + Cardinality(Inserting(u)') <= Cardinality(Handlers)
  <2>1. call[h] \in Minting
    BY <1>6, CallShape DEF RevokeAll
  <2>2. CASE call[h].user = u
    <3>1. Unrevoked(u)' = {}
      BY <1>6, <2>2 DEF RevokeAll, RevokedAll, Unrevoked, TypeOK, RefreshToken
    <3> QED
      BY <3>1, SessionsRevoked
  <2>3. CASE call[h].user # u
    <3>1. Unrevoked(u)' \subseteq Unrevoked(u)
      BY <1>6, <2>3 DEF RevokeAll, RevokedAll, Unrevoked, TypeOK, RefreshToken
    <3>2. call'[h].user = call[h].user /\ \A g \in Handlers \ {h} : call'[g] = call[g]
      BY <1>6, <2>1 DEF RevokeAll, TypeOK, Minting
    <3>3. Inserting(u)' \subseteq Inserting(u)
      BY <2>3, <3>2 DEF Inserting
    <3> QED
      BY <3>1, <3>3, SessionsShrink
  <2> QED
    BY <2>2, <2>3
<1>7. ASSUME NEW h \in Handlers, NEW t \in Tokens, Insert(h, t)
      PROVE  Cardinality(Unrevoked(u)') + Cardinality(Inserting(u)') <= Cardinality(Handlers)
  <2>1. call[h] \in Minting
    BY <1>7, CallShape DEF Insert
  <2>2. call'[h].pc = "finish" /\ \A g \in Handlers \ {h} : call'[g] = call[g]
    BY <1>7, <2>1 DEF Insert, TypeOK, Minting
  <2>3. Inserting(u)' \subseteq Inserting(u) \ {h}
    BY <2>2 DEF Inserting
  <2>4. CASE call[h].user = u
    <3>1. h \in Inserting(u)
      BY <1>7, <2>4 DEF Insert, Inserting
    <3>2. Unrevoked(u)' \subseteq Unrevoked(u) \cup {t}
      BY <1>7 DEF Insert, Unrevoked
    <3> QED
      BY <2>3, <3>1, <3>2, SessionsInserted
  <2>5. CASE call[h].user # u
    <3>1. Unrevoked(u)' \subseteq Unrevoked(u)
      BY <1>7, <2>5 DEF Insert, NewToken, Unrevoked
    <3> QED
      BY <2>3, <3>1, SessionsShrink
  <2> QED
    BY <2>4, <2>5
<1>8. ASSUME NEW h \in Handlers, Finish(h)
      PROVE  Cardinality(Unrevoked(u)') + Cardinality(Inserting(u)') <= Cardinality(Handlers)
  <2>1. call[h] \in Minting /\ LocalsStored(h)
    BY <1>8, CallShape DEF Finish
  <2>2. Unrevoked(u)' \subseteq Unrevoked(u)
    <3>1. CASE call[h].old = NoToken
      BY <1>8, <3>1 DEF Finish, Unrevoked
    <3>2. CASE call[h].old # NoToken
      BY <1>3, <1>8, <2>1, <3>2 DEF Finish, LocalsStored
    <3> QED
      BY <3>1, <3>2
  <2> QED
    BY <1>2, <1>8, <2>2, SessionsShrink DEF Finish
<1>9. ASSUME NEW h \in Handlers, NEW t \in Tokens, Logout(h, t)
      PROVE  Cardinality(Unrevoked(u)') + Cardinality(Inserting(u)') <= Cardinality(Handlers)
  <2>1. Inserting(u)' \subseteq Inserting(u)
    BY <1>9 DEF Logout, Inserting, TypeOK
  <2> QED
    BY <1>9, <2>1, SessionsShrink DEF Logout, Unrevoked
<1>10. ASSUME NEW h \in Handlers, Revoke(h)
       PROVE  Cardinality(Unrevoked(u)') + Cardinality(Inserting(u)') <= Cardinality(Handlers)
  <2>1. call[h].old \in DOMAIN tokens
    BY <1>10 DEF Revoke, TypeOK
  <2> QED
    BY <1>2, <1>3, <1>10, <2>1, SessionsShrink DEF Revoke
<1>11. ASSUME NEW h \in Handlers, Fail(h)
       PROVE  Cardinality(Unrevoked(u)') + Cardinality(Inserting(u)') <= Cardinality(Handlers)
  BY <1>2, <1>11, SessionsShrink DEF Fail, Unrevoked
<1>12. CASE Tick
  BY <1>12, SessionsShrink DEF Tick, Unrevoked, Inserting
<1>13. CASE UNCHANGED vars
  BY <1>13, SessionsShrink DEF vars, Unrevoked, Inserting
<1>14. ASSUME NEW h \in Handlers, RevokeAllFails(h)
       PROVE  Cardinality(Unrevoked(u)') + Cardinality(Inserting(u)') <= Cardinality(Handlers)
  <2>1. Unrevoked(u)' \subseteq Unrevoked(u)
    BY <1>14, RevokedSomeKeeps DEF RevokeAllFails, Unrevoked
  <2> QED
    BY <1>2, <1>14, <2>1, SessionsShrink DEF RevokeAllFails
<1> QED
  BY <1>4, <1>5, <1>6, <1>7, <1>8, <1>9, <1>10, <1>11, <1>12, <1>13, <1>14
  DEF Next, RefreshRefused

\* However logins, refreshes and logouts interleave, a user never has more
\* unrevoked refresh tokens than calls run at the same time.
THEOREM SessionsBound == Spec => []SessionsBounded
<1>1. Init => SessionsCounted
  <2> SUFFICES ASSUME Init, NEW u \in Users
               PROVE  Cardinality(Unrevoked(u)) + Cardinality(Inserting(u))
                         <= Cardinality(Handlers)
    BY DEF SessionsCounted
  <2>1. Unrevoked(u) = {} /\ Inserting(u) = {}
    BY DEF Init, Idle, Unrevoked, Inserting
  <2> QED
    BY <2>1, FS_EmptySet, FiniteAssumption, FS_CardinalityType
<1>2. TypeOK /\ SessionsCounted => SessionsBounded
  <2> SUFFICES ASSUME TypeOK, SessionsCounted, NEW u \in Users
               PROVE  Cardinality(Unrevoked(u)) <= Cardinality(Handlers)
    BY DEF SessionsBounded
  <2> QED
    BY SessionsFinite DEF SessionsCounted
<1> QED
  BY <1>1, <1>2, SessionsStep, TypeCorrect, PTL DEF Spec
-----------------------------------------------------------------------------
(***************************************************************************)
(* A refresh token is exchanged at most once per handler.  The invariant   *)
(* also counts the exchanges under way, and says that one exchange revokes *)
(* the token for good.                                                     *)
(***************************************************************************)
Exchanging(t) == {h \in Handlers : call[h] \in Minting /\ call[h].old = t}

ExchangeCounted(t) ==
    /\ exchanged[t] > 0 => t \in DOMAIN tokens /\ tokens[t].revoked
    /\ exchanged[t] + Cardinality(Exchanging(t)) <= Cardinality(Handlers)

ExchangesCounted == \A t \in Tokens : ExchangeCounted(t)

\* A revoked token stays stored and revoked.
StaysRevoked(t) ==
    t \in DOMAIN tokens /\ tokens[t].revoked => t \in DOMAIN tokens' /\ tokens'[t].revoked

\* The exchanges of a token under way are at most the handlers, and finitely many.
LEMMA ExchangesFinite ==
    ASSUME NEW t
    PROVE  /\ IsFiniteSet(Exchanging(t)) /\ Cardinality(Exchanging(t)) \in Nat
           /\ Cardinality(Exchanging(t)) <= Cardinality(Handlers)
           /\ Cardinality(Handlers) \in Nat
<1>1. Exchanging(t) \subseteq Handlers
  BY DEF Exchanging
<1> QED
  BY <1>1, FiniteAssumption, FS_Subset, FS_CardinalityType

\* A step that counts no exchange, begins none and un-revokes nothing keeps the
\* invariant of a token.
LEMMA ExchangesKept ==
    ASSUME TypeOK, NEW t \in Tokens, ExchangeCounted(t), StaysRevoked(t),
           exchanged'[t] = exchanged[t], Exchanging(t)' \subseteq Exchanging(t)
    PROVE  ExchangeCounted(t)'
<1>1. /\ Cardinality(Exchanging(t)') \in Nat
      /\ Cardinality(Exchanging(t)') <= Cardinality(Exchanging(t))
  BY ExchangesFinite, FS_Subset, FS_CardinalityType
<1>2. exchanged[t] \in Nat
  BY DEF TypeOK
<1> QED
  BY <1>1, <1>2, ExchangesFinite DEF ExchangeCounted, StaysRevoked

\* A token that a refresh accepts has not been exchanged before.
LEMMA ExchangeBegins ==
    ASSUME TypeOK, TypeOK', NEW t \in Tokens, ExchangeCounted(t),
           ~tokens[t].revoked, UNCHANGED <<tokens, exchanged>>
    PROVE  ExchangeCounted(t)'
<1>1. exchanged'[t] = 0
  BY DEF ExchangeCounted, TypeOK
<1>2. /\ Cardinality(Exchanging(t)') \in Nat
      /\ Cardinality(Exchanging(t)') <= Cardinality(Handlers)
  <2>1. Exchanging(t)' \subseteq Handlers
    BY DEF Exchanging
  <2> QED
    BY <2>1, FiniteAssumption, FS_Subset, FS_CardinalityType
<1> QED
  BY <1>1, <1>2 DEF ExchangeCounted

\* A refresh that finishes turns an exchange under way into a counted one.
LEMMA ExchangeEnds ==
    ASSUME TypeOK, NEW t \in Tokens, ExchangeCounted(t), NEW h \in Exchanging(t),
           exchanged'[t] = exchanged[t] + 1,
           Exchanging(t)' \subseteq Exchanging(t) \ {h},
           t \in DOMAIN tokens' /\ tokens'[t].revoked
    PROVE  ExchangeCounted(t)'
<1>1. /\ IsFiniteSet(Exchanging(t) \ {h})
      /\ Cardinality(Exchanging(t) \ {h}) = Cardinality(Exchanging(t)) - 1
  BY ExchangesFinite, FS_RemoveElement
<1>2. /\ Cardinality(Exchanging(t)') \in Nat
      /\ Cardinality(Exchanging(t)') <= Cardinality(Exchanging(t) \ {h})
  BY <1>1, FS_Subset, FS_CardinalityType
<1>3. exchanged[t] \in Nat
  BY DEF TypeOK
<1> QED
  BY <1>1, <1>2, <1>3, ExchangesFinite DEF ExchangeCounted

\* No step breaks the count.
LEMMA ExchangesStep ==
    TypeOK /\ TypeOK' /\ ExchangesCounted /\ [Next]_vars => ExchangesCounted'
<1> SUFFICES ASSUME TypeOK, TypeOK', ExchangesCounted, [Next]_vars, NEW t \in Tokens
             PROVE  ExchangeCounted(t)'
  BY DEF ExchangesCounted
<1>0. ExchangeCounted(t)
  BY DEF ExchangesCounted
<1>1. ASSUME NEW h \in Handlers, NEW c, c \notin Minting \/ c.old # t,
             call' = [call EXCEPT ![h] = c]
      PROVE  Exchanging(t)' \subseteq Exchanging(t)
  BY <1>1 DEF Exchanging, TypeOK
<1>2. ASSUME NEW h \in Handlers, Return(h)
      PROVE  Exchanging(t)' \subseteq Exchanging(t) \ {h}
  BY <1>2 DEF Return, Idle, Exchanging, Minting, TypeOK
<1>3. ASSUME NEW h \in Handlers, NEW c, call[h] \in Minting, c.old = call[h].old,
             call' = [call EXCEPT ![h] = c]
      PROVE  Exchanging(t)' \subseteq Exchanging(t)
  BY <1>3 DEF Exchanging, TypeOK
<1>4. ASSUME NEW x \in DOMAIN tokens, tokens' = [tokens EXCEPT ![x].revoked = TRUE]
      PROVE  StaysRevoked(t) /\ x \in DOMAIN tokens' /\ tokens'[x].revoked
  BY <1>4 DEF StaysRevoked, TypeOK, RefreshToken
<1>5. ASSUME NEW h \in Handlers, NEW v \in Users, NEW old, old # t, Mint(h, v, old)
      PROVE  Exchanging(t)' \subseteq Exchanging(t)
  <2>1. [pc |-> "revokeAll", user |-> v, old |-> old, new |-> NoToken].old # t
    BY <1>5
  <2> QED
    BY <1>1, <1>5, <2>1 DEF Mint
<1>6. ASSUME NEW h \in Handlers, NEW v \in Users, Login(h, v)
      PROVE  ExchangeCounted(t)'
  <2>1. Exchanging(t)' \subseteq Exchanging(t)
    BY <1>5, <1>6, TokensAssumption DEF Login
  <2> QED
    BY <1>0, <1>6, <2>1, ExchangesKept DEF Login, StaysRevoked
<1>7. ASSUME NEW h \in Handlers, NEW x \in Tokens, Refresh(h, x)
      PROVE  ExchangeCounted(t)'
  <2>1. CASE x = t
    BY <1>0, <1>7, <2>1, ExchangeBegins DEF Refresh, Accepts
  <2>2. CASE x # t
    <3>1. tokens[x].userId \in Users
      BY <1>7 DEF Refresh, TypeOK, RefreshToken
    <3>2. Exchanging(t)' \subseteq Exchanging(t)
      BY <1>5, <1>7, <2>2, <3>1 DEF Refresh
    <3> QED
      BY <1>0, <1>7, <3>2, ExchangesKept DEF Refresh, StaysRevoked
  <2> QED
    BY <2>1, <2>2
<1>8. ASSUME NEW h \in Handlers, RevokeAll(h)
      PROVE  ExchangeCounted(t)'
  <2> DEFINE c == [call[h] EXCEPT !.pc = "insert"]
  <2>1. call[h] \in Minting
    BY <1>8, CallShape DEF RevokeAll
  <2>2. c.old = call[h].old /\ call' = [call EXCEPT ![h] = c]
    BY <1>8, <2>1 DEF RevokeAll, Minting, TypeOK
  <2> HIDE DEF c
  <2>3. Exchanging(t)' \subseteq Exchanging(t)
    BY <1>3, <2>1, <2>2
  <2>4. StaysRevoked(t)
    BY <1>8 DEF RevokeAll, RevokedAll, StaysRevoked, TypeOK, RefreshToken
  <2> QED
    BY <1>0, <1>8, <2>3, <2>4, ExchangesKept DEF RevokeAll
<1>9. ASSUME NEW h \in Handlers, NEW x \in Tokens, Insert(h, x)
      PROVE  ExchangeCounted(t)'
  <2> DEFINE c == [[call[h] EXCEPT !.pc = "finish"] EXCEPT !.new = x]
  <2>1. call[h] \in Minting
    BY <1>9, CallShape DEF Insert
  <2>2. c.old = call[h].old /\ call' = [call EXCEPT ![h] = c]
    BY <1>9, <2>1 DEF Insert, Minting, TypeOK
  <2> HIDE DEF c
  <2>3. Exchanging(t)' \subseteq Exchanging(t)
    BY <1>3, <2>1, <2>2
  <2>4. StaysRevoked(t)
    BY <1>9 DEF Insert, StaysRevoked
  <2> QED
    BY <1>0, <1>9, <2>3, <2>4, ExchangesKept DEF Insert
<1>10. ASSUME NEW h \in Handlers, Finish(h)
       PROVE  ExchangeCounted(t)'
  <2>1. call[h] \in Minting /\ LocalsStored(h)
    BY <1>10, CallShape DEF Finish
  <2>2. Exchanging(t)' \subseteq Exchanging(t) \ {h}
    BY <1>2, <1>10 DEF Finish
  <2>3. CASE call[h].old = NoToken
    BY <1>0, <1>10, <2>2, <2>3, ExchangesKept DEF Finish, StaysRevoked
  <2>4. CASE call[h].old # NoToken
    <3>1. /\ call[h].old \in DOMAIN tokens
          /\ tokens' = [tokens EXCEPT ![call[h].old].revoked = TRUE]
          /\ exchanged' = [exchanged EXCEPT ![call[h].old] = @ + 1]
      BY <1>10, <2>1, <2>4 DEF Finish, LocalsStored
    <3>2. StaysRevoked(t) /\ call[h].old \in DOMAIN tokens' /\ tokens'[call[h].old].revoked
      BY <1>4, <3>1
    <3>3. CASE call[h].old = t
      <4>1. h \in Exchanging(t) /\ exchanged'[t] = exchanged[t] + 1
        BY <2>1, <3>1, <3>3 DEF Exchanging, TypeOK
      <4> QED
        BY <1>0, <2>2, <3>2, <3>3, <4>1, ExchangeEnds
    <3>4. CASE call[h].old # t
      <4>1. exchanged'[t] = exchanged[t]
        BY <3>1, <3>4 DEF TypeOK
      <4> QED
        BY <1>0, <2>2, <3>2, <4>1, ExchangesKept
    <3> QED
      BY <3>3, <3>4
  <2> QED
    BY <2>3, <2>4
<1>11. ASSUME NEW h \in Handlers, NEW x \in Tokens, Logout(h, x)
       PROVE  ExchangeCounted(t)'
  <2>1. Exchanging(t)' \subseteq Exchanging(t)
    <3>1. [pc |-> "revoke", old |-> x] \notin Minting
      BY DEF Minting
    <3>2. CASE call' = call
      BY <3>2 DEF Exchanging
    <3>3. CASE call' = [call EXCEPT ![h] = [pc |-> "revoke", old |-> x]]
      BY <1>1, <3>1, <3>3
    <3> QED
      BY <1>11, <3>2, <3>3 DEF Logout
  <2> QED
    BY <1>0, <1>11, <2>1, ExchangesKept DEF Logout, StaysRevoked
<1>12. ASSUME NEW h \in Handlers, Revoke(h)
       PROVE  ExchangeCounted(t)'
  <2>1. call[h].old \in DOMAIN tokens
    BY <1>12 DEF Revoke, TypeOK
  <2> QED
    BY <1>0, <1>2, <1>4, <1>12, <2>1, ExchangesKept DEF Revoke
<1>13. ASSUME NEW h \in Handlers, Fail(h)
       PROVE  ExchangeCounted(t)'
  BY <1>0, <1>2, <1>13, ExchangesKept DEF Fail, StaysRevoked
<1>14. CASE Tick
  BY <1>0, <1>14, ExchangesKept DEF Tick, Exchanging, StaysRevoked
<1>15. CASE UNCHANGED vars
  BY <1>0, <1>15, ExchangesKept DEF vars, Exchanging, StaysRevoked
<1>16. ASSUME NEW h \in Handlers, RevokeAllFails(h)
       PROVE  ExchangeCounted(t)'
  <2>1. StaysRevoked(t)
    BY <1>16, RevokedSomeKeeps DEF RevokeAllFails, StaysRevoked
  <2> QED
    BY <1>0, <1>2, <1>16, <2>1, ExchangesKept DEF RevokeAllFails
<1> QED
  BY <1>6, <1>7, <1>8, <1>9, <1>10, <1>11, <1>12, <1>13, <1>14, <1>15, <1>16
  DEF Next, RefreshRefused

\* Every state counts the exchanges of a token by the calls that made them.
LEMMA ExchangesInvariant == Spec => []ExchangesCounted
<1>1. Init => ExchangesCounted
  <2> SUFFICES ASSUME Init, NEW t \in Tokens
               PROVE  ExchangeCounted(t)
    BY DEF ExchangesCounted
  <2>1. exchanged[t] = 0
    BY DEF Init
  <2> QED
    BY <2>1, ExchangesFinite DEF ExchangeCounted
<1> QED
  BY <1>1, ExchangesStep, TypeCorrect, PTL DEF Spec

\* A refresh token that is sent again and again has a bounded use: exchanged at most
\* once per call that runs at the same time, and never again afterwards.
THEOREM ExchangesBound == Spec => []ExchangesBounded
<1>1. TypeOK /\ ExchangesCounted => ExchangesBounded
  <2> SUFFICES ASSUME TypeOK, ExchangesCounted, NEW t \in Tokens
               PROVE  exchanged[t] <= Cardinality(Handlers)
    BY DEF ExchangesBounded
  <2> QED
    BY ExchangesFinite DEF ExchangesCounted, ExchangeCounted, TypeOK
<1> QED
  BY <1>1, ExchangesInvariant, TypeCorrect, PTL
-----------------------------------------------------------------------------
(***************************************************************************)
(* RefreshTokens implements Sessions.  The invariant adds to the counts    *)
(* that a call which mints a token holds tokens of its user only, and that *)
(* the one it exchanges is one a client has received.                      *)
(***************************************************************************)
CallOwned(h) ==
    call[h] \in Minting =>
        /\ call[h].old # NoToken =>
              call[h].old \in delivered /\ tokens[call[h].old].userId = call[h].user
        /\ call[h].pc = "finish" => tokens[call[h].new].userId = call[h].user

CallsOwned == \A h \in Handlers : CallOwned(h)

\* No token is dropped or moves to another user.
OwnersKept ==
    \A t \in DOMAIN tokens : t \in DOMAIN tokens' /\ tokens'[t].userId = tokens[t].userId

\* A step that moves one handler keeps what the others hold.
LEMMA OthersOwned ==
    ASSUME TypeOK, CallsOwned, OwnersKept, delivered \subseteq delivered',
           NEW h \in Handlers, NEW c, call' = [call EXCEPT ![h] = c], CallOwned(h)'
    PROVE  CallsOwned'
<1> SUFFICES ASSUME NEW g \in Handlers \ {h}
             PROVE  CallOwned(g)'
  BY DEF CallsOwned
<1>1. call'[g] = call[g] /\ CallOwned(g) /\ LocalsStored(g)
  BY CallShape DEF CallsOwned, TypeOK
<1> QED
  BY <1>1 DEF CallOwned, LocalsStored, OwnersKept, Minting

\* A handler that returns holds nothing.
LEMMA ReturnOwned ==
    ASSUME TypeOK, CallsOwned, OwnersKept, delivered \subseteq delivered',
           NEW h \in Handlers, Return(h)
    PROVE  CallsOwned'
<1>1. call'[h] = Idle
  BY DEF TypeOK, Return
<1>2. CallOwned(h)'
  BY <1>1 DEF CallOwned, Idle, Minting
<1> QED
  BY <1>2, OthersOwned DEF Return

\* No step breaks it.
LEMMA OwnedStep ==
    TypeOK /\ CallsOwned /\ [Next]_vars => CallsOwned' /\ OwnersKept
<1> SUFFICES ASSUME TypeOK, CallsOwned, [Next]_vars
             PROVE  CallsOwned' /\ OwnersKept
  OBVIOUS
<1>1. ASSUME NEW t \in DOMAIN tokens, tokens' = [tokens EXCEPT ![t].revoked = TRUE]
      PROVE  OwnersKept
  BY <1>1 DEF OwnersKept, TypeOK, RefreshToken
<1>2. ASSUME NEW h \in Handlers, NEW u \in Users, Login(h, u)
      PROVE  CallsOwned' /\ OwnersKept
  <2> DEFINE c == [pc |-> "revokeAll", user |-> u, old |-> NoToken, new |-> NoToken]
  <2>1. call' = [call EXCEPT ![h] = c] /\ OwnersKept
    BY <1>2 DEF Login, Mint, OwnersKept
  <2>2. CallOwned(h)'
    BY <2>1 DEF CallOwned, TypeOK
  <2> QED
    BY <1>2, <2>1, <2>2, OthersOwned DEF Login
<1>3. ASSUME NEW h \in Handlers, NEW t \in Tokens, Refresh(h, t)
      PROVE  CallsOwned' /\ OwnersKept
  <2> DEFINE c == [pc |-> "revokeAll", user |-> tokens[t].userId, old |-> t, new |-> NoToken]
  <2>1. call' = [call EXCEPT ![h] = c] /\ OwnersKept
    BY <1>3 DEF Refresh, Mint, OwnersKept
  <2>2. CallOwned(h)'
    BY <1>3, <2>1 DEF Refresh, CallOwned, TypeOK
  <2> QED
    BY <1>3, <2>1, <2>2, OthersOwned DEF Refresh
<1>4. ASSUME NEW h \in Handlers, RevokeAll(h)
      PROVE  CallsOwned' /\ OwnersKept
  <2> DEFINE c == [call[h] EXCEPT !.pc = "insert"]
  <2>1. call[h] \in Minting /\ LocalsStored(h) /\ CallOwned(h)
    BY <1>4, CallShape DEF RevokeAll, CallsOwned
  <2>2. /\ c.old = call[h].old /\ c.user = call[h].user /\ c.pc = "insert"
        /\ call' = [call EXCEPT ![h] = c]
    BY <1>4, <2>1 DEF RevokeAll, Minting, TypeOK
  <2>3. OwnersKept
    BY <1>4 DEF RevokeAll, RevokedAll, OwnersKept, TypeOK, RefreshToken
  <2> HIDE DEF c
  <2>4. CallOwned(h)'
    BY <1>4, <2>1, <2>2, <2>3
    DEF CallOwned, LocalsStored, OwnersKept, TypeOK, RevokeAll
  <2> QED
    BY <1>4, <2>2, <2>3, <2>4, OthersOwned DEF RevokeAll
<1>5. ASSUME NEW h \in Handlers, NEW t \in Tokens, Insert(h, t)
      PROVE  CallsOwned' /\ OwnersKept
  <2> DEFINE c == [[call[h] EXCEPT !.pc = "finish"] EXCEPT !.new = t]
  <2>1. call[h] \in Minting /\ LocalsStored(h) /\ CallOwned(h)
    BY <1>5, CallShape DEF Insert, CallsOwned
  <2>2. /\ c.old = call[h].old /\ c.user = call[h].user /\ c.new = t
        /\ call' = [call EXCEPT ![h] = c]
    BY <1>5, <2>1 DEF Insert, Minting, TypeOK
  <2>3. OwnersKept /\ tokens'[t].userId = call[h].user
    BY <1>5 DEF Insert, NewToken, OwnersKept
  <2> HIDE DEF c
  <2>4. CallOwned(h)'
    BY <1>5, <2>1, <2>2, <2>3
    DEF CallOwned, LocalsStored, OwnersKept, TypeOK, Insert
  <2> QED
    BY <1>5, <2>2, <2>3, <2>4, OthersOwned DEF Insert
<1>6. ASSUME NEW h \in Handlers, Finish(h)
      PROVE  CallsOwned' /\ OwnersKept
  <2>1. call[h] \in Minting /\ LocalsStored(h)
    BY <1>6, CallShape DEF Finish
  <2>2. OwnersKept
    <3>1. CASE call[h].old = NoToken
      BY <1>6, <3>1 DEF Finish, OwnersKept
    <3>2. CASE call[h].old # NoToken
      BY <1>1, <1>6, <2>1, <3>2 DEF Finish, LocalsStored
    <3> QED
      BY <3>1, <3>2
  <2> QED
    BY <1>6, <2>2, ReturnOwned DEF Finish
<1>7. ASSUME NEW h \in Handlers, NEW t \in Tokens, Logout(h, t)
      PROVE  CallsOwned' /\ OwnersKept
  <2>1. OwnersKept
    BY <1>7 DEF Logout, OwnersKept
  <2>2. CASE call' = call
    <3>1. tokens' = tokens /\ delivered' = delivered
      BY <1>7 DEF Logout
    <3> QED
      BY <2>1, <2>2, <3>1 DEF CallsOwned, CallOwned
  <2>3. CASE call' = [call EXCEPT ![h] = [pc |-> "revoke", old |-> t]]
    <3>1. CallOwned(h)'
      BY <2>3 DEF CallOwned, Minting, TypeOK
    <3> QED
      BY <1>7, <2>1, <2>3, <3>1, OthersOwned DEF Logout
  <2> QED
    BY <1>7, <2>1, <2>2, <2>3 DEF Logout
<1>8. ASSUME NEW h \in Handlers, Revoke(h)
      PROVE  CallsOwned' /\ OwnersKept
  <2>1. OwnersKept
    BY <1>1, <1>8 DEF Revoke, TypeOK
  <2> QED
    BY <1>8, <2>1, ReturnOwned DEF Revoke
<1>9. ASSUME NEW h \in Handlers, Fail(h)
      PROVE  CallsOwned' /\ OwnersKept
  BY <1>9, ReturnOwned DEF Fail, OwnersKept
<1>10. CASE Tick
  BY <1>10 DEF Tick, CallsOwned, CallOwned, OwnersKept
<1>11. CASE UNCHANGED vars
  BY <1>11 DEF vars, CallsOwned, CallOwned, OwnersKept
<1>12. ASSUME NEW h \in Handlers, RevokeAllFails(h)
       PROVE  CallsOwned' /\ OwnersKept
  <2>1. OwnersKept
    BY <1>12, RevokedSomeKeeps DEF RevokeAllFails, OwnersKept
  <2> QED
    BY <1>12, <2>1, ReturnOwned DEF RevokeAllFails
<1> QED
  BY <1>2, <1>3, <1>4, <1>5, <1>6, <1>7, <1>8, <1>9, <1>10, <1>11, <1>12
  DEF Next, RefreshRefused

\* The variables of Sessions as RefreshTokens computes them.
Owner == [t \in DOMAIN tokens |-> tokens[t].userId]
Live == {t \in DOMAIN tokens : ~tokens[t].revoked}

\* The limits of Sessions are the two bounds proved above.
LEMMA LimitKept ==
    ASSUME SessionsBounded', ExchangesBounded'
    PROVE  Abstract!WithinLimit'
<1>1. \A u \in Users : Abstract!LiveOf(u)' = Unrevoked(u)'
  BY DEF Abstract!LiveOf, Unrevoked
<1>2. \A S : Abstract!Cardinality(S) = Cardinality(S)
  BY Zenon DEF Abstract!Cardinality, Cardinality
<1> QED
  BY <1>1, <1>2 DEF Abstract!WithinLimit, SessionsBounded, ExchangesBounded

\* A call that changes neither tokens, deliveries nor exchanges stutters.
LEMMA SessionsStutter ==
    ASSUME UNCHANGED <<tokens, delivered, exchanged>>
    PROVE  UNCHANGED <<Owner, Live, delivered, exchanged>>
  BY DEF Owner, Live

\* Each step of a handler is one of Sessions.
LEMMA SessionsSimulated ==
    ASSUME TypeOK, CallsOwned, OwnersKept, SessionsBounded', ExchangesBounded', [Next]_vars
    PROVE  [Abstract!Next]_<<Owner, Live, delivered, exchanged>>
<1>0. Abstract!WithinLimit'
  BY LimitKept
<1>1. ASSUME NEW h \in Handlers, RevokeAll(h)
      PROVE  Abstract!Next
  <2>1. call[h].user \in Users
    BY <1>1, CallShape DEF RevokeAll, Minting
  <2> PICK u \in Users : u = call[h].user
    BY <2>1
  <2> PICK S \in SUBSET Tokens : S = Unrevoked(u)
    BY DEF Unrevoked, TypeOK
  <2>2. S \subseteq Abstract!LiveOf(u)
    BY DEF Unrevoked, Abstract!LiveOf
  <2>3. Live' = Live \ S /\ Owner' = Owner
    BY <1>1 DEF RevokeAll, RevokedAll, Live, Owner, Unrevoked, TypeOK, RefreshToken
  <2>4. Abstract!Revoke(u, S)
    BY <1>1, <2>2, <2>3 DEF Abstract!Revoke, RevokeAll, Live, Owner
  <2> QED
    BY <2>4 DEF Abstract!Next
<1>2. ASSUME NEW h \in Handlers, NEW t \in Tokens, Insert(h, t)
      PROVE  Abstract!Next
  <2>1. call[h].user \in Users
    BY <1>2, CallShape DEF Insert, Minting
  <2> PICK u \in Users : u = call[h].user
    BY <2>1
  <2>2. Owner' = [x \in DOMAIN Owner \cup {t} |-> IF x = t THEN u ELSE Owner[x]]
    BY <1>2 DEF Insert, NewToken, Owner
  <2>3. Live' = Live \cup {t}
    BY <1>2 DEF Insert, NewToken, Live
  <2>4. Abstract!Issue(t, u)
    BY <1>0, <1>2, <2>2, <2>3 DEF Abstract!Issue, Insert, Owner, Live
  <2> QED
    BY <2>4 DEF Abstract!Next
<1>3. ASSUME NEW h \in Handlers, Finish(h)
      PROVE  Abstract!Next
  <2>1. call[h] \in Minting /\ LocalsStored(h) /\ CallOwned(h)
    BY <1>3, CallShape DEF Finish, CallsOwned
  <2>2. call[h].new \in DOMAIN tokens /\ call[h].new \in Tokens
    BY <1>3, <2>1 DEF Finish, LocalsStored, TypeOK
  <2> PICK t \in Tokens : t = call[h].new
    BY <2>2
  <2>3. CASE call[h].old = NoToken
    <3>1. Abstract!Answer(t)
      BY <1>3, <2>2, <2>3 DEF Finish, Abstract!Answer
    <3> QED
      BY <3>1 DEF Abstract!Next
  <2>4. CASE call[h].old # NoToken
    <3>1. /\ call[h].old \in DOMAIN tokens /\ call[h].old \in Tokens
          /\ call[h].old \in delivered
          /\ tokens[call[h].old].userId = tokens[call[h].new].userId
      BY <1>3, <2>1, <2>4 DEF Finish, LocalsStored, CallOwned, TypeOK
    <3> PICK old \in Tokens : old = call[h].old
      BY <3>1
    <3>2. Owner' = Owner /\ Live' = Live \ {old}
      BY <1>3, <2>4, <3>1 DEF Finish, Owner, Live, TypeOK, RefreshToken
    <3>3. Abstract!Exchange(old, t)
      BY <1>0, <1>3, <2>2, <2>4, <3>1, <3>2 DEF Finish, Abstract!Exchange, Owner, Live
    <3> QED
      BY <3>3 DEF Abstract!Next
  <2> QED
    BY <2>3, <2>4
<1>4. ASSUME NEW h \in Handlers, Revoke(h)
      PROVE  Abstract!Next
  <2>1. /\ call[h].old \in DOMAIN tokens /\ call[h].old \in Tokens
        /\ tokens[call[h].old].userId \in Users
    BY <1>4 DEF Revoke, TypeOK, RefreshToken
  <2> PICK u \in Users : u = tokens[call[h].old].userId
    BY <2>1
  <2> PICK S \in SUBSET Tokens : S = {t \in {call[h].old} : ~tokens[t].revoked}
    BY <2>1
  <2>2. S \subseteq Abstract!LiveOf(u)
    BY <2>1 DEF Abstract!LiveOf
  <2>3. Live' = Live \ S /\ Owner' = Owner
    BY <1>4, <2>1 DEF Revoke, Live, Owner, TypeOK, RefreshToken
  <2>4. Abstract!Revoke(u, S)
    BY <1>4, <2>2, <2>3 DEF Abstract!Revoke, Revoke, Live, Owner
  <2> QED
    BY <2>4 DEF Abstract!Next
<1>5. ASSUME NEW h \in Handlers, RevokeAllFails(h)
      PROVE  Abstract!Next
  <2>1. call[h].user \in Users
    BY <1>5, CallShape DEF RevokeAllFails, Minting
  <2> PICK u \in Users : u = call[h].user
    BY <2>1
  <2> PICK S \in SUBSET Tokens : S = Live \ Live'
    BY DEF Live, TypeOK
  <2>2. S \subseteq Abstract!LiveOf(u)
    BY <1>5, RevokedSomeKeeps DEF RevokeAllFails, Abstract!LiveOf, Live
  <2>3. Live' = Live \ S /\ Owner' = Owner
    BY <1>5, RevokedSomeKeeps DEF RevokeAllFails, Live, Owner
  <2>4. Abstract!Revoke(u, S)
    BY <1>5, <2>2, <2>3 DEF Abstract!Revoke, RevokeAllFails, Live, Owner
  <2> QED
    BY <2>4 DEF Abstract!Next
<1> QED
  BY <1>1, <1>2, <1>3, <1>4, <1>5, SessionsStutter
  DEF Next, RefreshRefused, Login, Refresh, Logout, Fail, Tick, vars

\* Calls hold tokens of their own user in every state.
LEMMA OwnedInvariant == Spec => []CallsOwned
<1>1. Init => CallsOwned
  BY DEF Init, CallsOwned, CallOwned, Idle, Minting
<1>2. TypeOK /\ CallsOwned /\ [Next]_vars => CallsOwned'
  BY OwnedStep
<1> QED
  BY <1>1, <1>2, TypeCorrect, PTL DEF Spec

\* RefreshTokens implements Sessions: whatever interleaves and fails, clients see
\* tokens that are issued, revoked and exchanged, within the limit.
THEOREM SessionsRefined == Spec => SessionsSpec
<1>1. Init => Abstract!Init
  BY DEF Init, Abstract!Init
<1>2. TypeOK /\ CallsOwned /\ SessionsBounded' /\ ExchangesBounded' /\ [Next]_vars
        => [Abstract!Next]_<<Owner, Live, delivered, exchanged>>
  BY OwnedStep, SessionsSimulated
<1> QED
  BY <1>1, <1>2, OwnedInvariant, TypeCorrect, SessionsBound, ExchangesBound, PTL
  DEF Spec, SessionsSpec, Abstract!Spec, Owner, Live

-----------------------------------------------------------------------------
(***************************************************************************)
(* What holds of a user whose calls never overlapped.  The invariant says  *)
(* what is left of the user's tokens and exchanges while a call of theirs  *)
(* is under way; no call of another user touches either.                   *)
(***************************************************************************)
CallsApart ==
    \A u \in Users \ overlapped, g, h \in Handlers :
        CallOf(g, u) /\ CallOf(h, u) => g = h

SessionAt(u) ==
    u \notin overlapped =>
        /\ \A s, t \in Unrevoked(u) : s = t
        /\ \A h \in Inserting(u) : Unrevoked(u) = {}

\* The token that a call is about to answer with, or to revoke, works.
HeldLive(h) ==
    /\ call[h].pc = "finish" /\ call[h].user \notin overlapped =>
          ~tokens[call[h].new].revoked /\ call[h].new # call[h].old
    /\ call[h].pc = "revoke" /\ tokens[call[h].old].userId \notin overlapped =>
          ~tokens[call[h].old].revoked

OwnedByOverlapped(t) == t \in DOMAIN tokens /\ tokens[t].userId \in overlapped

\* A token that is being exchanged was not exchanged before.
ExchangeAt(t) ==
    ~OwnedByOverlapped(t) =>
        /\ exchanged[t] <= 1
        /\ \A h \in Exchanging(t) : exchanged[t] = 0

ApartInv ==
    /\ CallsApart
    /\ \A u \in Users : SessionAt(u)
    /\ \A h \in Handlers : HeldLive(h)
    /\ \A t \in Tokens : ExchangeAt(t)

\* A call belongs to the user of the tokens it holds.
LEMMA CallOwner ==
    ASSUME TypeOK, CallsOwned, NEW h \in Handlers
    PROVE  /\ call[h] \in Minting =>
                 /\ call[h].user \in Users /\ CallOf(h, call[h].user)
                 /\ call[h].old # NoToken =>
                       /\ call[h].old \in DOMAIN tokens
                       /\ tokens[call[h].old].userId = call[h].user
           /\ call[h].pc = "finish" =>
                 /\ call[h].new \in DOMAIN tokens
                 /\ tokens[call[h].new].userId = call[h].user
           /\ call[h].pc = "revoke" =>
                 /\ call[h].old \in DOMAIN tokens
                 /\ tokens[call[h].old].userId \in Users
                 /\ CallOf(h, tokens[call[h].old].userId)
<1>1. /\ LocalsStored(h) /\ CallOwned(h)
      /\ call[h].pc = "finish" => call[h] \in Minting
  BY CallShape DEF CallsOwned
<1> QED
  BY <1>1 DEF LocalsStored, CallOwned, CallOf, Minting, TypeOK, RefreshToken

\* Who has overlapped once is never taken for apart again.
LEMMA OverlapGrows ==
    ASSUME [Next]_vars
    PROVE  overlapped \subseteq overlapped'
  BY DEF Next, vars, Login, Refresh, RefreshRefused, Mint, Begin, RevokeAll,
         RevokeAllFails, Insert, Finish, Logout, Revoke, Fail, Tick

\* A step that begins no call keeps the calls apart.
LEMMA ApartKept ==
    ASSUME CallsApart, overlapped \subseteq overlapped',
           \A g \in Handlers, u \in Users : CallOf(g, u)' => CallOf(g, u)
    PROVE  CallsApart'
  BY DEF CallsApart

\* A call that begins while another one of its user is under way makes them overlap.
LEMMA ApartBegun ==
    ASSUME CallsApart, NEW h \in Handlers, NEW u \in Users, Begin(u),
           \A g \in Handlers \ {h}, v \in Users : CallOf(g, v)' => CallOf(g, v),
           \A v \in Users : CallOf(h, v)' => v = u
    PROVE  CallsApart'
<1> SUFFICES ASSUME NEW v \in Users \ overlapped', NEW f \in Handlers, NEW g \in Handlers,
                    CallOf(f, v)', CallOf(g, v)'
             PROVE  f = g
  BY DEF CallsApart
<1>1. v \notin overlapped
  BY DEF Begin
<1>2. CASE f = h /\ g # h
  BY <1>2 DEF Begin
<1>3. CASE f # h /\ g = h
  BY <1>3 DEF Begin
<1>4. CASE f # h /\ g # h
  BY <1>1, <1>4 DEF CallsApart
<1> QED
  BY <1>2, <1>3, <1>4

\* Two calls of one user who has not overlapped are one.
LEMMA OneCall ==
    ASSUME CallsApart, NEW g \in Handlers, NEW h \in Handlers,
           NEW u \in Users, u \notin overlapped, CallOf(g, u), CallOf(h, u)
    PROVE  g = h
  BY DEF CallsApart

\* A user whose tokens and inserts only become fewer keeps the invariant.
LEMMA SessionKept ==
    ASSUME NEW u, SessionAt(u), Unrevoked(u)' \subseteq Unrevoked(u),
           Inserting(u)' \subseteq Inserting(u), overlapped \subseteq overlapped'
    PROVE  SessionAt(u)'
  BY DEF SessionAt

\* A handler that a step leaves alone keeps its token if the step does.
LEMMA HeldKept ==
    ASSUME TypeOK, OwnersKept, overlapped \subseteq overlapped',
           NEW g \in Handlers, HeldLive(g), call'[g] = call[g],
           \A t \in DOMAIN tokens :
              (call[g].pc = "finish" /\ t = call[g].new)
              \/ (call[g].pc = "revoke" /\ t = call[g].old)
              => tokens'[t].revoked = tokens[t].revoked
    PROVE  HeldLive(g)'
<1>1. LocalsStored(g)
  BY CallShape
<1> QED
  BY <1>1 DEF HeldLive, LocalsStored, OwnersKept

\* A token keeps its count of exchanges if none of it begins or ends.
LEMMA ExchangeKept ==
    ASSUME NEW t, ExchangeAt(t), OwnersKept, overlapped \subseteq overlapped',
           exchanged'[t] = exchanged[t], Exchanging(t)' \subseteq Exchanging(t)
    PROVE  ExchangeAt(t)'
<1>1. OwnedByOverlapped(t) => OwnedByOverlapped(t)'
  BY DEF OwnedByOverlapped, OwnersKept
<1> QED
  BY <1>1 DEF ExchangeAt

\* A step of h that touches no tokens but those of the user of h, and of which only
\* h is left to look at.
LEMMA OthersHeld ==
    ASSUME TypeOK, CallsOwned, ApartInv, OwnersKept, overlapped \subseteq overlapped',
           NEW h \in Handlers, NEW u \in Users,
           CallOf(h, u), \A g \in Handlers \ {h} : call'[g] = call[g],
           \A t \in DOMAIN tokens :
              tokens[t].userId # u => tokens'[t].revoked = tokens[t].revoked
    PROVE  \A g \in Handlers \ {h} : HeldLive(g)'
<1> SUFFICES ASSUME NEW g \in Handlers \ {h}
             PROVE  HeldLive(g)'
  OBVIOUS
<1>1. HeldLive(g) /\ call'[g] = call[g]
  BY DEF ApartInv
<1>2. CallOf(g, u) => u \in overlapped
  BY OneCall DEF ApartInv
<1>3. CASE call[g].pc = "finish"
  <2>1. /\ call[g].new \in DOMAIN tokens /\ CallOf(g, call[g].user)
        /\ tokens[call[g].new].userId = call[g].user
    BY <1>3, CallOwner, CallShape
  <2>2. CASE call[g].user = u
    BY <1>1, <1>2, <1>3, <2>1, <2>2 DEF HeldLive
  <2>3. CASE call[g].user # u
    BY <1>1, <1>3, <2>1, <2>3, HeldKept
  <2> QED
    BY <2>2, <2>3
<1>4. CASE call[g].pc = "revoke"
  <2>1. /\ call[g].old \in DOMAIN tokens
        /\ CallOf(g, tokens[call[g].old].userId)
    BY <1>4, CallOwner
  <2>2. CASE tokens[call[g].old].userId = u
    BY <1>1, <1>2, <1>4, <2>1, <2>2 DEF HeldLive, OwnersKept
  <2>3. CASE tokens[call[g].old].userId # u
    BY <1>1, <1>4, <2>1, <2>3, HeldKept
  <2> QED
    BY <2>2, <2>3
<1>5. CASE call[g].pc \notin {"finish", "revoke"}
  BY <1>1, <1>5, HeldKept
<1> QED
  BY <1>3, <1>4, <1>5

\* A handler that a step leaves alone runs a call of the same user.
LEMMA OthersCalls ==
    ASSUME TypeOK, CallsOwned, OwnersKept, NEW g \in Handlers, call'[g] = call[g]
    PROVE  \A v \in Users : CallOf(g, v)' => CallOf(g, v)
  BY CallOwner DEF CallOf, OwnersKept

\* Of each user, call and token, what a step leaves.
LEMMA ApartParts ==
    ASSUME CallsApart', \A u \in Users : SessionAt(u)',
           \A h \in Handlers : HeldLive(h)', \A t \in Tokens : ExchangeAt(t)'
    PROVE  ApartInv'
  BY DEF ApartInv

\* No step breaks it.
LEMMA ApartStep ==
    ASSUME TypeOK, TypeOK', CallsOwned, ExchangesCounted, ApartInv, [Next]_vars
    PROVE  ApartInv'
<1>0. OwnersKept /\ overlapped \subseteq overlapped'
  BY OwnedStep, OverlapGrows
<1>1. CASE UNCHANGED vars
  BY <1>1
  DEF vars, ApartInv, CallsApart, CallOf, SessionAt, HeldLive, ExchangeAt, Unrevoked,
      Inserting, Exchanging, OwnedByOverlapped
<1> SUFFICES ASSUME Next
             PROVE  ApartInv'
  BY <1>1
<1>2. /\ CallsApart
      /\ \A u \in Users : SessionAt(u)
      /\ \A h \in Handlers : HeldLive(h)
      /\ \A t \in Tokens : ExchangeAt(t)
  BY DEF ApartInv
<1>3. ASSUME NEW h \in Handlers, NEW u \in Users, NEW old \in DOMAIN tokens \cup {NoToken},
             call[h] = Idle, old # NoToken => ~tokens[old].revoked,
             Mint(h, u, old), UNCHANGED <<now, tokens, delivered, exchanged>>
      PROVE  ApartInv'
  <2>1. /\ call'[h] = [pc |-> "revokeAll", user |-> u, old |-> old, new |-> NoToken]
        /\ \A g \in Handlers \ {h} : call'[g] = call[g]
    BY <1>3 DEF Mint, TypeOK
  <2>2. ASSUME NEW v \in Users
        PROVE  SessionAt(v)'
    <3>1. Unrevoked(v)' = Unrevoked(v) /\ Inserting(v)' \subseteq Inserting(v)
      BY <1>3, <2>1 DEF Unrevoked, Inserting
    <3> QED
      BY <1>0, <1>2, <3>1, SessionKept
  <2>3. ASSUME NEW g \in Handlers
        PROVE  HeldLive(g)'
    <3>1. CASE g = h
      BY <2>1, <3>1 DEF HeldLive
    <3>2. CASE g # h
      BY <1>0, <1>2, <1>3, <2>1, <3>2, HeldKept
    <3> QED
      BY <3>1, <3>2
  <2>4. ASSUME NEW t \in Tokens
        PROVE  ExchangeAt(t)'
    <3>1. CASE t = old
      <4>1. exchanged[t] = 0
        BY <1>3, <3>1, TokensAssumption DEF ExchangesCounted, ExchangeCounted, TypeOK
      <4> QED
        BY <1>3, <4>1 DEF ExchangeAt
    <3>2. CASE t # old
      <4>1. Exchanging(t)' \subseteq Exchanging(t)
        BY <2>1, <3>2 DEF Exchanging
      <4> QED
        BY <1>0, <1>2, <1>3, <4>1, ExchangeKept
    <3> QED
      BY <3>1, <3>2
  <2>5. CallsApart'
    <3>1. \A g \in Handlers \ {h}, v \in Users : CallOf(g, v)' => CallOf(g, v)
      BY <1>0, <2>1, OthersCalls
    <3>2. \A v \in Users : CallOf(h, v)' => v = u
      BY <2>1 DEF CallOf
    <3> QED
      BY <1>2, <1>3, <3>1, <3>2, ApartBegun DEF Mint
  <2> QED
    BY <2>2, <2>3, <2>4, <2>5, ApartParts
<1>4. ASSUME NEW h \in Handlers, NEW u \in Users, Login(h, u)
      PROVE  ApartInv'
  BY <1>3, <1>4 DEF Login
<1>5. ASSUME NEW h \in Handlers, NEW t \in Tokens, Refresh(h, t)
      PROVE  ApartInv'
  <2>1. t \in DOMAIN tokens /\ tokens[t].userId \in Users
    BY <1>5 DEF Refresh, TypeOK, RefreshToken
  <2> QED
    BY <1>3, <1>5, <2>1 DEF Refresh, Accepts
<1>6. ASSUME NEW h \in Handlers, RevokeAll(h)
      PROVE  ApartInv'
  <2>1. call[h] \in Minting /\ call[h].user \in Users /\ CallOf(h, call[h].user)
    BY <1>6, CallShape, CallOwner DEF RevokeAll
  <2>2. /\ call'[h].pc = "insert" /\ call'[h].user = call[h].user
        /\ call'[h].old = call[h].old
        /\ \A g \in Handlers \ {h} : call'[g] = call[g]
    BY <1>6, <2>1 DEF RevokeAll, TypeOK, Minting
  <2>3. ASSUME NEW v \in Users
        PROVE  SessionAt(v)'
    <3>1. CASE v = call[h].user
      <4>1. Unrevoked(v)' = {}
        BY <1>6, <3>1 DEF RevokeAll, RevokedAll, Unrevoked, TypeOK, RefreshToken
      <4> QED
        BY <4>1 DEF SessionAt
    <3>2. CASE v # call[h].user
      <4>1. Unrevoked(v)' \subseteq Unrevoked(v)
        BY <1>6, <3>2 DEF RevokeAll, RevokedAll, Unrevoked, TypeOK, RefreshToken
      <4>2. Inserting(v)' \subseteq Inserting(v)
        BY <2>2, <3>2 DEF Inserting
      <4> QED
        BY <1>0, <1>2, <4>1, <4>2, SessionKept
    <3> QED
      BY <3>1, <3>2
  <2>4. HeldLive(h)' /\ \A g \in Handlers \ {h} : HeldLive(g)'
    <3>1. \A t \in DOMAIN tokens :
             tokens[t].userId # call[h].user => tokens'[t].revoked = tokens[t].revoked
      BY <1>6 DEF RevokeAll, RevokedAll
    <3> QED
      BY <1>0, <2>1, <2>2, <3>1, OthersHeld DEF HeldLive
  <2>5. ASSUME NEW t \in Tokens
        PROVE  ExchangeAt(t)'
    <3>1. Exchanging(t)' \subseteq Exchanging(t)
      BY <2>1, <2>2 DEF Exchanging
    <3> QED
      BY <1>0, <1>2, <1>6, <3>1, ExchangeKept DEF RevokeAll
  <2>6. CallsApart'
    <3>1. \A v \in Users : CallOf(h, v)' => CallOf(h, v)
      BY <2>1, <2>2 DEF CallOf, Minting
    <3> QED
      BY <1>0, <1>2, <2>2, <3>1, OthersCalls, ApartKept
  <2> QED
    BY <2>3, <2>4, <2>5, <2>6, ApartParts
<1>7. ASSUME NEW h \in Handlers, NEW x \in Tokens, Insert(h, x)
      PROVE  ApartInv'
  <2>1. /\ call[h] \in Minting /\ call[h].user \in Users /\ CallOf(h, call[h].user)
        /\ call[h].old # NoToken => call[h].old \in DOMAIN tokens
        /\ call[h].pc = "insert" /\ x \notin DOMAIN tokens
    BY <1>7, CallShape, CallOwner DEF Insert
  <2>2. /\ call'[h].pc = "finish" /\ call'[h].new = x /\ call'[h].old = call[h].old
        /\ \A g \in Handlers \ {h} : call'[g] = call[g]
    BY <1>7, <2>1 DEF Insert, TypeOK, Minting
  <2>3. /\ \A t \in DOMAIN tokens : tokens'[t] = tokens[t]
        /\ DOMAIN tokens' = DOMAIN tokens \cup {x}
        /\ tokens'[x].userId = call[h].user /\ ~tokens'[x].revoked
        /\ exchanged' = exchanged
    BY <1>7 DEF Insert, NewToken
  <2>4. ASSUME NEW v \in Users
        PROVE  SessionAt(v)'
    <3>1. CASE v = call[h].user
      <4> SUFFICES ASSUME v \notin overlapped
                   PROVE  SessionAt(v)'
        BY <1>0 DEF SessionAt
      <4>1. Unrevoked(v) = {}
        BY <1>2, <2>1, <3>1 DEF SessionAt, Inserting
      <4>2. Unrevoked(v)' \subseteq {x}
        BY <2>3, <4>1 DEF Unrevoked
      <4>3. Inserting(v)' = {}
        <5> SUFFICES ASSUME NEW g \in Inserting(v)'
                     PROVE  FALSE
          OBVIOUS
        <5>1. g \in Handlers \ {h} /\ CallOf(g, v)
          BY <2>2 DEF Inserting, CallOf
        <5> QED
          BY <1>2, <2>1, <3>1, <5>1, OneCall
      <4> QED
        BY <4>2, <4>3 DEF SessionAt
    <3>2. CASE v # call[h].user
      <4>1. Unrevoked(v)' \subseteq Unrevoked(v)
        BY <2>3, <3>2 DEF Unrevoked
      <4>2. Inserting(v)' \subseteq Inserting(v)
        BY <2>2 DEF Inserting
      <4> QED
        BY <1>0, <1>2, <4>1, <4>2, SessionKept
    <3> QED
      BY <3>1, <3>2
  <2>5. \A g \in Handlers \ {h} : HeldLive(g)'
    BY <1>0, <2>1, <2>2, <2>3, OthersHeld
  <2>6. HeldLive(h)'
    BY <2>1, <2>2, <2>3, TokensAssumption DEF HeldLive
  <2>7. ASSUME NEW t \in Tokens
        PROVE  ExchangeAt(t)'
    <3>1. Exchanging(t)' \subseteq Exchanging(t)
      BY <2>1, <2>2 DEF Exchanging
    <3> QED
      BY <1>0, <1>2, <2>3, <3>1, ExchangeKept
  <2>8. CallsApart'
    <3>1. \A v \in Users : CallOf(h, v)' => CallOf(h, v)
      <4>1. call'[h].user = call[h].user
        BY <1>7, <2>1 DEF Insert, TypeOK, Minting
      <4> QED
        BY <2>1, <2>2, <4>1 DEF CallOf, Minting
    <3> QED
      BY <1>0, <1>2, <2>2, <3>1, OthersCalls, ApartKept
  <2> QED
    BY <2>4, <2>5, <2>6, <2>7, <2>8, ApartParts
<1>8. ASSUME NEW h \in Handlers, Return(h)
      PROVE  /\ call'[h] = Idle /\ \A g \in Handlers \ {h} : call'[g] = call[g]
             /\ \A v \in Users : Inserting(v)' \subseteq Inserting(v)
             /\ \A t \in Tokens : Exchanging(t)' \subseteq Exchanging(t) \ {h}
             /\ HeldLive(h)' /\ CallsApart'
  <2>1. call'[h] = Idle /\ \A g \in Handlers \ {h} : call'[g] = call[g]
    BY <1>8 DEF Return, TypeOK
  <2>2. CallsApart'
    <3>1. \A v \in Users : ~CallOf(h, v)'
      BY <2>1 DEF CallOf, Idle
    <3> QED
      BY <1>0, <1>2, <2>1, <3>1, OthersCalls, ApartKept
  <2> QED
    BY <2>1, <2>2 DEF Idle, Inserting, Exchanging, HeldLive, Minting
<1>9. ASSUME NEW x \in DOMAIN tokens, tokens' = [tokens EXCEPT ![x].revoked = TRUE]
      PROVE  /\ \A v \in Users : Unrevoked(v)' \subseteq Unrevoked(v)
             /\ \A t \in DOMAIN tokens : t # x => tokens'[t] = tokens[t]
  BY <1>9 DEF Unrevoked, TypeOK, RefreshToken
<1>10. ASSUME NEW h \in Handlers, Finish(h)
       PROVE  ApartInv'
  <2>1. /\ call[h] \in Minting /\ call[h].user \in Users /\ CallOf(h, call[h].user)
        /\ call[h].old # NoToken => /\ call[h].old \in DOMAIN tokens
                                    /\ tokens[call[h].old].userId = call[h].user
    BY <1>10, CallShape, CallOwner DEF Finish
  <2>2. Return(h)
    BY <1>10 DEF Finish
  <2>3. CASE call[h].old = NoToken
    <3>1. tokens' = tokens /\ exchanged' = exchanged
      BY <1>10, <2>3 DEF Finish
    <3>2. \A v \in Users : SessionAt(v)'
      BY <1>0, <1>2, <1>8, <2>2, <3>1, SessionKept DEF Unrevoked
    <3>3. \A g \in Handlers : HeldLive(g)'
      BY <1>0, <1>8, <2>1, <2>2, <3>1, OthersHeld
    <3>4. \A t \in Tokens : ExchangeAt(t)'
      BY <1>0, <1>2, <1>8, <2>2, <3>1, ExchangeKept
    <3> QED
      BY <1>8, <2>2, <3>2, <3>3, <3>4, ApartParts
  <2>4. CASE call[h].old # NoToken
    <3>1. /\ tokens' = [tokens EXCEPT ![call[h].old].revoked = TRUE]
          /\ exchanged' = [exchanged EXCEPT ![call[h].old] = @ + 1]
      BY <1>10, <2>4 DEF Finish
    <3>2. \A v \in Users : SessionAt(v)'
      BY <1>0, <1>2, <1>8, <1>9, <2>1, <2>2, <2>4, <3>1, SessionKept
    <3>3. \A g \in Handlers : HeldLive(g)'
      <4>1. \A t \in DOMAIN tokens :
               tokens[t].userId # call[h].user
                  => tokens'[t].revoked = tokens[t].revoked
        BY <1>9, <2>1, <2>4, <3>1
      <4>2. \A g \in Handlers \ {h} : HeldLive(g)'
        BY <1>0, <1>8, <2>1, <2>2, <4>1, OthersHeld
      <4> QED
        BY <1>8, <2>2, <4>2
    <3>4. ASSUME NEW t \in Tokens
          PROVE  ExchangeAt(t)'
      <4>1. CASE t = call[h].old
        <5> SUFFICES ASSUME tokens[t].userId \notin overlapped
                     PROVE  ExchangeAt(t)'
          BY <1>0, <2>1, <2>4, <4>1 DEF ExchangeAt, OwnedByOverlapped, OwnersKept
        <5>1. exchanged[t] = 0
          BY <1>2, <2>1, <4>1 DEF ExchangeAt, Exchanging, OwnedByOverlapped
        <5>2. exchanged'[t] = 1
          BY <3>1, <4>1, <5>1 DEF TypeOK
        <5>3. Exchanging(t)' = {}
          <6> SUFFICES ASSUME NEW g \in Exchanging(t)'
                       PROVE  FALSE
            OBVIOUS
          <6>1. g \in Handlers \ {h} /\ g \in Exchanging(t)
            BY <1>8, <2>2 DEF Exchanging
          <6>2. CallOf(g, tokens[t].userId)
            BY <2>4, <4>1, <6>1, CallOwner DEF Exchanging
          <6> QED
            BY <1>2, <2>1, <2>4, <4>1, <6>1, <6>2, OneCall
        <5> QED
          BY <5>2, <5>3 DEF ExchangeAt
      <4>2. CASE t # call[h].old
        <5>1. exchanged'[t] = exchanged[t]
          BY <3>1, <4>2 DEF TypeOK
        <5> QED
          BY <1>0, <1>2, <1>8, <2>2, <5>1, ExchangeKept
      <4> QED
        BY <4>1, <4>2
    <3> QED
      BY <1>8, <2>2, <3>2, <3>3, <3>4, ApartParts
  <2> QED
    BY <2>3, <2>4
<1>11. ASSUME NEW h \in Handlers, NEW x \in Tokens, Logout(h, x)
       PROVE  ApartInv'
  <2>1. /\ call[h] = Idle /\ x \in DOMAIN tokens
        /\ tokens' = tokens /\ exchanged' = exchanged
    BY <1>11 DEF Logout, TypeOK
  <2>2. /\ \A g \in Handlers \ {h} : call'[g] = call[g]
        /\ \/ call'[h] = call[h]
           \/ call'[h] = [pc |-> "revoke", old |-> x] /\ ~tokens[x].revoked
    BY <1>11 DEF Logout, TypeOK
  <2>3. \A v \in Users : SessionAt(v)'
    <3>1. \A v \in Users : Unrevoked(v)' = Unrevoked(v) /\ Inserting(v)' \subseteq Inserting(v)
      BY <2>1, <2>2 DEF Unrevoked, Inserting
    <3> QED
      BY <1>0, <1>2, <3>1, SessionKept
  <2>4. ASSUME NEW g \in Handlers
        PROVE  HeldLive(g)'
    <3>1. CASE call'[g] = call[g]
      BY <1>0, <1>2, <2>1, <3>1, HeldKept
    <3>2. CASE call'[g] = [pc |-> "revoke", old |-> x] /\ ~tokens[x].revoked
      BY <2>1, <3>2 DEF HeldLive
    <3> QED
      BY <2>2, <3>1, <3>2
  <2>5. \A t \in Tokens : ExchangeAt(t)'
    <3>1. \A t \in Tokens : Exchanging(t)' \subseteq Exchanging(t)
      BY <2>2 DEF Exchanging, Minting
    <3> QED
      BY <1>0, <1>2, <2>1, <3>1, ExchangeKept
  <2>6. CallsApart'
    <3>1. CASE UNCHANGED <<call, overlapped>>
      BY <1>2, <2>1, <3>1 DEF CallsApart, CallOf
    <3>2. CASE /\ call'[h] = [pc |-> "revoke", old |-> x]
               /\ Begin(tokens[x].userId)
      <4>1. \A g \in Handlers \ {h}, v \in Users : CallOf(g, v)' => CallOf(g, v)
        BY <1>0, <2>2, OthersCalls
      <4>2. \A v \in Users : CallOf(h, v)' => v = tokens[x].userId
        BY <2>1, <3>2 DEF CallOf
      <4>3. tokens[x].userId \in Users
        BY <2>1 DEF TypeOK, RefreshToken
      <4> QED
        BY <1>2, <3>2, <4>1, <4>2, <4>3, ApartBegun
    <3> QED
      BY <1>11, <3>1, <3>2 DEF Logout, TypeOK
  <2> QED
    BY <2>3, <2>4, <2>5, <2>6, ApartParts
<1>12. ASSUME NEW h \in Handlers, Revoke(h)
       PROVE  ApartInv'
  <2>1. /\ call[h].old \in DOMAIN tokens /\ tokens[call[h].old].userId \in Users
        /\ CallOf(h, tokens[call[h].old].userId)
    BY <1>12, CallOwner DEF Revoke
  <2>2. /\ Return(h) /\ tokens' = [tokens EXCEPT ![call[h].old].revoked = TRUE]
        /\ exchanged' = exchanged
    BY <1>12 DEF Revoke
  <2>3. \A v \in Users : SessionAt(v)'
    BY <1>0, <1>2, <1>8, <1>9, <2>1, <2>2, SessionKept
  <2>4. \A g \in Handlers : HeldLive(g)'
    <3> PICK u \in Users : u = tokens[call[h].old].userId /\ CallOf(h, u)
      BY <2>1
    <3>1. \A t \in DOMAIN tokens :
             tokens[t].userId # u => tokens'[t].revoked = tokens[t].revoked
      BY <1>9, <2>1, <2>2
    <3>2. \A g \in Handlers \ {h} : HeldLive(g)'
      BY <1>0, <1>8, <2>2, <3>1, OthersHeld
    <3> QED
      BY <1>8, <2>2, <3>2
  <2>5. \A t \in Tokens : ExchangeAt(t)'
    BY <1>0, <1>2, <1>8, <2>2, ExchangeKept
  <2> QED
    BY <1>8, <2>2, <2>3, <2>4, <2>5, ApartParts
<1>13. ASSUME NEW h \in Handlers, Fail(h)
       PROVE  ApartInv'
  <2>1. Return(h) /\ tokens' = tokens /\ exchanged' = exchanged
    BY <1>13 DEF Fail
  <2>2. \A v \in Users : SessionAt(v)'
    BY <1>0, <1>2, <1>8, <2>1, SessionKept DEF Unrevoked
  <2>3. ASSUME NEW g \in Handlers
        PROVE  HeldLive(g)'
    BY <1>0, <1>2, <1>8, <2>1, HeldKept
  <2>4. \A t \in Tokens : ExchangeAt(t)'
    BY <1>0, <1>2, <1>8, <2>1, ExchangeKept
  <2> QED
    BY <1>8, <2>1, <2>2, <2>3, <2>4, ApartParts
<1>14. CASE UNCHANGED <<tokens, exchanged, overlapped, call>>
  BY <1>2, <1>14
  DEF ApartInv, CallsApart, CallOf, SessionAt, HeldLive, ExchangeAt, Unrevoked,
      Inserting, Exchanging, OwnedByOverlapped
<1>15. ASSUME NEW h \in Handlers, RevokeAllFails(h)
       PROVE  ApartInv'
  <2>1. call[h] \in Minting /\ call[h].user \in Users /\ CallOf(h, call[h].user)
    BY <1>15, CallShape, CallOwner DEF RevokeAllFails
  <2>2. Return(h) /\ exchanged' = exchanged
    BY <1>15 DEF RevokeAllFails
  <2>3. /\ \A v \in Users : Unrevoked(v)' \subseteq Unrevoked(v)
        /\ \A t \in DOMAIN tokens :
              tokens[t].userId # call[h].user => tokens'[t].revoked = tokens[t].revoked
    BY <1>15, RevokedSomeKeeps DEF RevokeAllFails, Unrevoked
  <2>4. \A v \in Users : SessionAt(v)'
    BY <1>0, <1>2, <1>8, <2>2, <2>3, SessionKept
  <2>5. \A g \in Handlers : HeldLive(g)'
    BY <1>0, <1>8, <2>1, <2>2, <2>3, OthersHeld
  <2>6. \A t \in Tokens : ExchangeAt(t)'
    BY <1>0, <1>2, <1>8, <2>2, ExchangeKept
  <2> QED
    BY <1>8, <2>2, <2>4, <2>5, <2>6, ApartParts
<1> QED
  BY <1>4, <1>5, <1>6, <1>7, <1>10, <1>11, <1>12, <1>13, <1>14, <1>15
  DEF Next, Tick, RefreshRefused, vars

\* Initially no token is stored and no call is under way.
LEMMA ApartInit ==
    ASSUME Init
    PROVE  ApartInv
  BY DEF Init, Idle, ApartInv, CallsApart, CallOf, SessionAt, HeldLive, ExchangeAt,
         Unrevoked, Inserting, Exchanging

LEMMA ApartInvariant == Spec => [](TypeOK /\ CallsOwned /\ ApartInv)
<1>1. Init => ApartInv
  BY ApartInit
<1>2. TypeOK /\ TypeOK' /\ CallsOwned /\ ExchangesCounted /\ ApartInv
          /\ [Next]_vars => ApartInv'
  BY ApartStep
<1> QED
  BY <1>1, <1>2, TypeCorrect, OwnedInvariant, ExchangesInvariant, PTL
  DEF Spec

\* A user whose calls never overlapped has one unrevoked token at most: every login
\* and every refresh ends the session before, or fails.
THEOREM OneSession == Spec => []SingleSession
<1>1. ApartInv => SingleSession
  <2> SUFFICES ASSUME ApartInv, NEW u \in Users \ overlapped
               PROVE  Cardinality(Unrevoked(u)) <= 1
    BY DEF SingleSession
  <2>1. \A s, t \in Unrevoked(u) : s = t
    BY DEF ApartInv, SessionAt
  <2>2. CASE Unrevoked(u) = {}
    BY <2>2, FS_EmptySet
  <2>3. CASE Unrevoked(u) # {}
    <3>1. PICK t : Unrevoked(u) = {t}
      BY <2>1, <2>3
    <3> QED
      BY <3>1, FS_Singleton
  <2> QED
    BY <2>2, <2>3
<1> QED
  BY <1>1, ApartInvariant, PTL

\* The next call of such a user finds the token revoked: none is exchanged twice.
THEOREM OneExchange == Spec => []SingleExchange
<1>1. TypeOK /\ ApartInv => SingleExchange
  BY DEF TypeOK, ApartInv, ExchangeAt, OwnedByOverlapped, SingleExchange
<1> QED
  BY <1>1, ApartInvariant, PTL

\* The answer to a login or a refresh of such a user carries a token that works.
THEOREM DeliversLive == Spec => DeliveredLive
<1>1. TypeOK /\ CallsOwned /\ ApartInv /\ [Next]_vars
        => [\A t \in delivered' \ delivered :
               tokens[t].userId \notin overlapped => ~tokens'[t].revoked]_vars
  <2> SUFFICES ASSUME TypeOK, CallsOwned, ApartInv, Next,
                      NEW t \in delivered' \ delivered, tokens[t].userId \notin overlapped
               PROVE  ~tokens'[t].revoked
    OBVIOUS
  <2>1. PICK h \in Handlers : Finish(h)
    BY DEF Next, Login, Refresh, RefreshRefused, RevokeAll, RevokeAllFails, Insert,
           Logout, Revoke, Fail, Tick, Mint, vars
  <2>2. /\ call[h].pc = "finish" /\ t = call[h].new /\ t \in DOMAIN tokens
        /\ tokens[t].userId = call[h].user
    BY <2>1, CallOwner DEF Finish
  <2>3. t # call[h].old /\ ~tokens[t].revoked
    BY <2>2 DEF ApartInv, HeldLive
  <2>4. tokens'[t] = tokens[t]
    BY <2>1, <2>2, <2>3 DEF Finish, TypeOK
  <2> QED
    BY <2>3, <2>4
<1>2. Spec => [][Next]_vars
  BY PTL DEF Spec
<1> QED
  BY <1>1, <1>2, ApartInvariant, PTL DEF DeliveredLive

-----------------------------------------------------------------------------
(***************************************************************************)
(* The session left open is the last one begun.  The invariant adds that   *)
(* no token expires later than one inserted now would.                     *)
(***************************************************************************)
LatestAt(u) ==
    u \notin overlapped =>
        \A t \in Unrevoked(u), s \in Owned(u) : tokens[s].expires <= tokens[t].expires

LatestInv ==
    /\ \A t \in DOMAIN tokens : tokens[t].expires <= now + Lifetime
    /\ \A u \in Users : LatestAt(u)

\* A step inserts a token, or it adds none and only revokes.
LEMMA InsertsOrRevokes ==
    ASSUME TypeOK, [Next]_vars
    PROVE  \/ \E h \in Handlers, t \in Tokens : Insert(h, t)
           \/ /\ DOMAIN tokens' = DOMAIN tokens
              /\ now' \in Nat /\ now <= now'
              /\ \A t \in DOMAIN tokens :
                    /\ tokens'[t].userId = tokens[t].userId
                    /\ tokens'[t].expires = tokens[t].expires
                    /\ tokens[t].revoked => tokens'[t].revoked
<1> DEFINE Kept == /\ DOMAIN tokens' = DOMAIN tokens
                   /\ now' \in Nat /\ now <= now'
                   /\ \A t \in DOMAIN tokens :
                         /\ tokens'[t].userId = tokens[t].userId
                         /\ tokens'[t].expires = tokens[t].expires
                         /\ tokens[t].revoked => tokens'[t].revoked
<1>0. now \in Nat
  BY TimeAssumption DEF TypeOK
<1>1. ASSUME UNCHANGED <<now, tokens>>
      PROVE  Kept
  BY <1>0, <1>1
<1>2. ASSUME NEW t, tokens' = [tokens EXCEPT ![t].revoked = TRUE], now' = now
      PROVE  Kept
  BY <1>0, <1>2 DEF TypeOK, RefreshToken
<1>3. ASSUME NEW h \in Handlers, RevokeAll(h)
      PROVE  Kept
  BY <1>0, <1>3 DEF RevokeAll, RevokedAll, TypeOK, RefreshToken
<1>4. ASSUME NEW h \in Handlers, RevokeAllFails(h)
      PROVE  Kept
  BY <1>0, <1>4, RevokedSomeKeeps DEF RevokeAllFails
<1>5. ASSUME NEW h \in Handlers, Finish(h)
      PROVE  Kept
  BY <1>1, <1>2, <1>5 DEF Finish
<1>6. ASSUME NEW h \in Handlers, Revoke(h)
      PROVE  Kept
  BY <1>2, <1>6 DEF Revoke
<1>7. CASE Tick
  BY <1>0, <1>7 DEF Tick
<1>8. CASE \E h \in Handlers :
                 \/ \E u \in Users : Login(h, u)
                 \/ \E t \in Tokens : Refresh(h, t) \/ Logout(h, t)
                 \/ \E t \in Tokens \cup {NoToken} : RefreshRefused(h, t)
                 \/ Fail(h)
  <2>1. UNCHANGED <<now, tokens>>
    BY <1>8 DEF vars, Login, Refresh, RefreshRefused, Logout, Fail
  <2> QED
    BY <1>1, <2>1 DEF Kept
<1>9. CASE UNCHANGED vars
  BY <1>1, <1>9 DEF vars, Kept
<1> QED
  BY <1>3, <1>4, <1>5, <1>6, <1>7, <1>8, <1>9 DEF Next, Kept

\* No step breaks it: a token is only inserted for a user who has none left, and
\* expires no earlier than those before it.
LEMMA LatestStep ==
    ASSUME TypeOK, TypeOK', ApartInv, LatestInv, [Next]_vars
    PROVE  LatestInv'
<1>0. overlapped \subseteq overlapped'
  BY OverlapGrows
<1>1. ASSUME NEW h \in Handlers, NEW x \in Tokens, Insert(h, x)
      PROVE  LatestInv'
  <2>1. /\ DOMAIN tokens' = DOMAIN tokens \cup {x} /\ x \notin DOMAIN tokens
        /\ \A t \in DOMAIN tokens : tokens'[t] = tokens[t]
        /\ tokens'[x].userId = call[h].user /\ tokens'[x].expires = now + Lifetime
        /\ now' = now
    BY <1>1 DEF Insert, NewToken
  <2>2. now \in Nat /\ Lifetime \in Nat
    BY TimeAssumption DEF TypeOK
  <2>3. \A t \in DOMAIN tokens' : tokens'[t].expires <= now' + Lifetime
    BY <2>1, <2>2 DEF LatestInv
  <2>4. ASSUME NEW u \in Users, u \notin overlapped
        PROVE  LatestAt(u)'
    <3>1. CASE u = call[h].user
      <4>1. Unrevoked(u) = {}
        BY <1>1, <2>4, <3>1 DEF ApartInv, SessionAt, Inserting, Insert
      <4>2. Unrevoked(u)' \subseteq {x}
        BY <2>1, <4>1 DEF Unrevoked
      <4> QED
        BY <2>1, <2>3, <4>2 DEF LatestAt, Owned
    <3>2. CASE u # call[h].user
      <4>1. Unrevoked(u)' \subseteq Unrevoked(u) /\ Owned(u)' \subseteq Owned(u)
        BY <2>1, <3>2 DEF Unrevoked, Owned
      <4>2. Unrevoked(u) \subseteq DOMAIN tokens /\ Owned(u) \subseteq DOMAIN tokens
        BY DEF Unrevoked, Owned
      <4> QED
        BY <2>1, <2>4, <4>1, <4>2 DEF LatestInv, LatestAt
    <3> QED
      BY <3>1, <3>2
  <2> QED
    BY <1>0, <2>3, <2>4 DEF LatestInv, LatestAt
<1>2. ASSUME DOMAIN tokens' = DOMAIN tokens, now' \in Nat, now <= now',
             \A t \in DOMAIN tokens :
                /\ tokens'[t].userId = tokens[t].userId
                /\ tokens'[t].expires = tokens[t].expires
                /\ tokens[t].revoked => tokens'[t].revoked
      PROVE  LatestInv'
  <2>1. now \in Nat /\ Lifetime \in Nat /\ \A t \in DOMAIN tokens : tokens[t].expires \in Nat
    BY TimeAssumption DEF TypeOK, RefreshToken
  <2>2. \A t \in DOMAIN tokens' : tokens'[t].expires <= now' + Lifetime
    BY <1>2, <2>1 DEF LatestInv
  <2>3. ASSUME NEW u \in Users, u \notin overlapped
        PROVE  LatestAt(u)'
    <3>1. Unrevoked(u)' \subseteq Unrevoked(u) /\ Owned(u)' \subseteq Owned(u)
      BY <1>2 DEF Unrevoked, Owned
    <3>2. Unrevoked(u) \subseteq DOMAIN tokens /\ Owned(u) \subseteq DOMAIN tokens
      BY DEF Unrevoked, Owned
    <3> QED
      BY <1>2, <2>3, <3>1, <3>2 DEF LatestInv, LatestAt
  <2> QED
    BY <1>0, <2>2, <2>3 DEF LatestInv, LatestAt
<1> QED
  BY <1>1, <1>2, InsertsOrRevokes

\* Whatever fails halfway and whatever is logged out, the one session that a user
\* whose calls never overlapped may have open is the last one begun.
THEOREM LatestOpen == Spec => []LatestSession
<1>1. Init => LatestInv
  BY DEF Init, LatestInv, LatestAt, Unrevoked, Owned
<1>2. TypeOK /\ TypeOK' /\ ApartInv /\ LatestInv /\ [Next]_vars => LatestInv'
  BY LatestStep
<1>3. LatestInv => LatestSession
  BY DEF LatestInv, LatestAt, LatestSession
<1> QED
  BY <1>1, <1>2, <1>3, ApartInvariant, PTL DEF Spec
=============================================================================
