---------------------------- MODULE RefreshTokens ----------------------------
(***************************************************************************)
(* Sessions of the Auth service: login and refreshToken hand out a new     *)
(* refresh token after revoking the user's others, revokeToken is logout.  *)
(* As in the Event service no transaction spans a handler: revoking and    *)
(* inserting are two calls to the database, and handlers interleave        *)
(* between them.  Password checks and JWT signing touch no shared state.   *)
(***************************************************************************)
EXTENDS Integers, FiniteSets

CONSTANTS
    Users,
    Tokens,      \* bound: the refresh tokens that can be stored or in the making
    Handlers,    \* bound: the calls that are in flight together
    Lifetime,    \* how long a refresh token is accepted (7 days)
    MaxTime,     \* bound: the last value of the clock
    Failures     \* whether a call to the database can fail

NoToken == "none"

ASSUME FiniteAssumption == IsFiniteSet(Tokens) /\ IsFiniteSet(Handlers)
ASSUME TokensAssumption == NoToken \notin Tokens
ASSUME TimeAssumption ==
    Lifetime \in Nat \ {0} /\ MaxTime \in Nat /\ Failures \in BOOLEAN

VARIABLES
    now,        \* the clock that new Date() reads
    tokens,     \* the refresh token documents stored so far
    delivered,  \* the tokens that a client received in a response
    exchanged,  \* history: the refreshes of each token that succeeded
    overlapped, \* history: the users who sent a call before the last one ended
    call        \* the state of each handler

vars == <<now, tokens, delivered, exchanged, overlapped, call>>

RefreshToken == [userId : Users, expires : Nat, revoked : BOOLEAN]

\* old is the token being refreshed (none for a login), new the one inserted.
Idle == [pc |-> "idle"]
Minting ==
    [pc : {"revokeAll", "insert", "finish"}, user : Users,
     old : Tokens \cup {NoToken}, new : Tokens \cup {NoToken}]
Revoking == [pc : {"revoke"}, old : Tokens]

Init ==
    /\ now = 0
    /\ tokens = [t \in {} |-> Idle]
    /\ delivered = {}
    /\ exchanged = [t \in Tokens |-> 0]
    /\ overlapped = {}
    /\ call = [h \in Handlers |-> Idle]

-----------------------------------------------------------------------------
Return(h) == call' = [call EXCEPT ![h] = Idle]

\* Calls that have yet to insert their token.
Minters == {h \in Handlers : call[h].pc \in {"revokeAll", "insert"}}
SpareToken ==
    Cardinality(DOMAIN tokens) + Cardinality(Minters) < Cardinality(Tokens)

\* Whose call a handler runs.
CallOf(h, u) ==
    \/ call[h].pc \in {"revokeAll", "insert", "finish"} /\ call[h].user = u
    \/ call[h].pc = "revoke" /\ tokens[call[h].old].userId = u

\* A call of u begins, whether another one of u is under way or not.
Begin(u) ==
    overlapped' = IF \E g \in Handlers : CallOf(g, u) THEN overlapped \cup {u}
                                                    ELSE overlapped

Mint(h, u, old) ==
    /\ call' = [call EXCEPT ![h] =
                   [pc |-> "revokeAll", user |-> u, old |-> old, new |-> NoToken]]
    /\ Begin(u)

\* A login with a known email and the right password.
Login(h, u) ==
    /\ call[h] = Idle
    /\ SpareToken
    /\ Mint(h, u, NoToken)
    /\ UNCHANGED <<now, tokens, delivered, exchanged>>

\* Mutant: the query does not look at revoked.
AcceptsRevoked(t) == tokens[t].expires > now

Accepts(t) == ~tokens[t].revoked /\ tokens[t].expires > now

\* refreshToken: findOne, then the user, who is never deleted.
Refresh(h, t) ==
    /\ call[h] = Idle
    /\ SpareToken
    /\ t \in delivered
    /\ Accepts(t)
    /\ Mint(h, tokens[t].userId, t)
    /\ UNCHANGED <<now, tokens, delivered, exchanged>>

\* findOne matches nothing: the handler answers with an error.  NoToken stands
\* for a string that was never a token.
RefreshRefused(h, t) ==
    /\ call[h] = Idle
    /\ t \in DOMAIN tokens => ~Accepts(t)
    /\ UNCHANGED vars

\* Mutant: deleteMany instead of updateMany.
RevokedAllDeleted(u) ==
    [t \in {x \in DOMAIN tokens : tokens[x].userId # u} |-> tokens[t]]

\* Mutant: only the tokens that are still accepted are revoked.
RevokedAccepted(u) ==
    [t \in DOMAIN tokens |->
        IF tokens[t].userId = u /\ Accepts(t)
        THEN [tokens[t] EXCEPT !.revoked = TRUE] ELSE tokens[t]]

RevokedAll(u) ==
    [t \in DOMAIN tokens |->
        IF tokens[t].userId = u
        THEN [tokens[t] EXCEPT !.revoked = TRUE] ELSE tokens[t]]

RevokeAll(h) ==
    /\ call[h].pc = "revokeAll"
    /\ tokens' = RevokedAll(call[h].user)
    /\ call' = [call EXCEPT ![h].pc = "insert"]
    /\ UNCHANGED <<now, delivered, exchanged, overlapped>>

Owned(u) == {t \in DOMAIN tokens : tokens[t].userId = u}

\* updateMany is atomic for each token only: what a failed one leaves.
RevokedSome(u) ==
    {[t \in DOMAIN tokens |-> [tokens[t] EXCEPT !.revoked = @ \/ t \in S]] :
        S \in SUBSET Owned(u)}

\* Mutant: the error is swallowed, and the login or the refresh goes on.
RevokeAllSwallowed(h) ==
    /\ Failures
    /\ call[h].pc = "revokeAll"
    /\ tokens' \in RevokedSome(call[h].user)
    /\ call' = [call EXCEPT ![h].pc = "insert"]
    /\ UNCHANGED <<now, delivered, exchanged, overlapped>>

RevokeAllFails(h) ==
    /\ Failures
    /\ call[h].pc = "revokeAll"
    /\ tokens' \in RevokedSome(call[h].user)
    /\ Return(h)
    /\ UNCHANGED <<now, delivered, exchanged, overlapped>>

\* Mutant: the new token is stored as revoked.
NewTokenRevoked(u) == [userId |-> u, expires |-> now + Lifetime, revoked |-> TRUE]

NewToken(u) == [userId |-> u, expires |-> now + Lifetime, revoked |-> FALSE]

Insert(h, t) ==
    /\ call[h].pc = "insert"
    /\ t \in Tokens \ DOMAIN tokens
    /\ tokens' = [x \in DOMAIN tokens \cup {t} |->
                     IF x = t THEN NewToken(call[h].user) ELSE tokens[x]]
    /\ call' = [call EXCEPT ![h] = [@ EXCEPT !.pc = "finish", !.new = t]]
    /\ UNCHANGED <<now, delivered, exchanged, overlapped>>

\* A refresh also saves the old token as revoked before it answers.
Finish(h) ==
    /\ call[h].pc = "finish"
    /\ IF call[h].old = NoToken
       THEN UNCHANGED <<tokens, exchanged>>
       ELSE /\ tokens' = [tokens EXCEPT ![call[h].old].revoked = TRUE]
            /\ exchanged' = [exchanged EXCEPT ![call[h].old] = @ + 1]
    /\ delivered' = delivered \cup {call[h].new}
    /\ Return(h)
    /\ UNCHANGED <<now, overlapped>>

\* revokeToken answers at once for a token that is revoked already.
Logout(h, t) ==
    /\ call[h] = Idle
    /\ t \in delivered
    /\ IF tokens[t].revoked
       THEN UNCHANGED <<call, overlapped>>
       ELSE /\ call' = [call EXCEPT ![h] = [pc |-> "revoke", old |-> t]]
            /\ Begin(tokens[t].userId)
    /\ UNCHANGED <<now, tokens, delivered, exchanged>>

Revoke(h) ==
    /\ call[h].pc = "revoke"
    /\ tokens' = [tokens EXCEPT ![call[h].old].revoked = TRUE]
    /\ Return(h)
    /\ UNCHANGED <<now, delivered, exchanged, overlapped>>

Fail(h) ==
    /\ Failures
    /\ call[h] # Idle
    /\ Return(h)
    /\ UNCHANGED <<now, tokens, delivered, exchanged, overlapped>>

Tick ==
    /\ now < MaxTime
    /\ now' = now + 1
    /\ UNCHANGED <<tokens, delivered, exchanged, overlapped, call>>

Next ==
    \/ \E h \in Handlers :
          \/ \E u \in Users : Login(h, u)
          \/ \E t \in Tokens : Refresh(h, t) \/ Insert(h, t) \/ Logout(h, t)
          \/ \E t \in Tokens \cup {NoToken} : RefreshRefused(h, t)
          \/ RevokeAll(h)
          \/ RevokeAllFails(h)
          \/ Finish(h)
          \/ Revoke(h)
          \/ Fail(h)
    \/ Tick

Spec == Init /\ [][Next]_vars

-----------------------------------------------------------------------------
(***************************************************************************)
(* Properties                                                              *)
(***************************************************************************)

\* Documents and locals have the shape the code gives them; the locals name
\* tokens that are stored, and only stored tokens reach a client.
TypeOK ==
    /\ now \in 0..MaxTime
    /\ DOMAIN tokens \subseteq Tokens
    /\ tokens \in [DOMAIN tokens -> RefreshToken]
    /\ delivered \subseteq DOMAIN tokens
    /\ exchanged \in [Tokens -> Nat]
    /\ overlapped \subseteq Users
    /\ call \in [Handlers -> {Idle} \cup Minting \cup Revoking]
    /\ \A h \in Handlers :
          /\ call[h] \in Minting =>
                call[h].old \in DOMAIN tokens \cup {NoToken}
          /\ call[h].pc = "finish" => call[h].new \in DOMAIN tokens
          /\ call[h].pc = "revoke" => call[h].old \in DOMAIN tokens

Unrevoked(u) == {t \in DOMAIN tokens : tokens[t].userId = u /\ ~tokens[t].revoked}

\* Logins and refreshes revoke first and insert afterwards, so calls that run
\* together can each leave a token.  But a user never has more unrevoked tokens
\* than calls run together; calls that run one at a time leave at most one.
SessionsBounded ==
    \A u \in Users : Cardinality(Unrevoked(u)) <= Cardinality(Handlers)

\* A refresh token is exchanged for a new one at most once per call that can run
\* at the same time: once one exchange has revoked it, no later call accepts it.
ExchangesBounded == \A t \in Tokens : exchanged[t] <= Cardinality(Handlers)

\* A user who always waits for the answer to a call before the next one has one
\* session at a time, whatever other users do meanwhile and whichever calls fail.
SingleSession == \A u \in Users \ overlapped : Cardinality(Unrevoked(u)) <= 1

\* A refresh token of such a user is exchanged once: it is revoked before its
\* user, who waits for the new one, sends it again.
SingleExchange ==
    \A t \in DOMAIN tokens :
        tokens[t].userId \notin overlapped => exchanged[t] <= 1

\* What such a user has just received works: no revocation comes between the
\* insert and the answer of a login or a refresh.
DeliveredLive ==
    [][\A t \in delivered' \ delivered :
          tokens[t].userId \notin overlapped => ~tokens'[t].revoked]_vars

\* The one session that such a user may have is the last that was begun: no call
\* that failed halfway, and no logout, leaves an earlier one open.  A logout that
\* is answered at once, because its token is revoked already, leaves that last
\* session open (auth.service.ts:287-289).
LatestSession ==
    \A u \in Users \ overlapped : \A t \in Unrevoked(u), s \in Owned(u) :
        tokens[s].expires <= tokens[t].expires

-----------------------------------------------------------------------------
(***************************************************************************)
(* Refinement                                                              *)
(***************************************************************************)
Abstract == INSTANCE Sessions WITH
    Limit <- Cardinality(Handlers),
    owner <- [t \in DOMAIN tokens |-> tokens[t].userId],
    live <- {t \in DOMAIN tokens : ~tokens[t].revoked},
    known <- delivered,
    exchanges <- exchanged

\* Logins, refreshes and logouts that interleave and fail are steps of the
\* abstract sessions: no interleaving revives a token, moves it to another user,
\* or exchanges it for a token of another user.
SessionsSpec == Abstract!Spec
=============================================================================
