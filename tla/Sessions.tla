------------------------------- MODULE Sessions -------------------------------
(***************************************************************************)
(* What the Auth service promises of sessions: a refresh token is issued   *)
(* to one user, belongs to that user and works until it is revoked, never  *)
(* again afterwards; a client only gets to know tokens that were issued; a *)
(* user has at most Limit tokens that work, and each is exchanged for      *)
(* another at most Limit times.  Expiry is left out: it ends a token that  *)
(* nothing revoked.                                                        *)
(***************************************************************************)
EXTENDS FiniteSets, Integers

CONSTANTS
    Users, Tokens,
    Limit       \* how many live tokens a user, and exchanges a token, can have

VARIABLES
    owner,      \* the user of each token issued
    live,       \* the tokens that are not revoked
    known,      \* the tokens that clients have received
    exchanges   \* how often each token was exchanged

LiveOf(u) == {t \in live : owner[t] = u}

WithinLimit ==
    /\ \A u \in Users : Cardinality(LiveOf(u)) <= Limit
    /\ \A t \in Tokens : exchanges[t] <= Limit

Init ==
    /\ owner = [t \in {} |-> {}]
    /\ live = {}
    /\ known = {}
    /\ exchanges = [t \in Tokens |-> 0]

Issue(t, u) ==
    /\ t \notin DOMAIN owner
    /\ owner' = [x \in DOMAIN owner \cup {t} |-> IF x = t THEN u ELSE owner[x]]
    /\ live' = live \cup {t}
    /\ WithinLimit'
    /\ UNCHANGED <<known, exchanges>>

\* Tokens of one user are revoked together.
Revoke(u, S) ==
    /\ S \subseteq LiveOf(u)
    /\ live' = live \ S
    /\ UNCHANGED <<owner, known, exchanges>>

\* A login is answered with t.
Answer(t) ==
    /\ t \in DOMAIN owner
    /\ known' = known \cup {t}
    /\ UNCHANGED <<owner, live, exchanges>>

\* A refresh with old, which stops working, is answered with t.
Exchange(old, t) ==
    /\ t \in DOMAIN owner
    /\ old \in known
    /\ owner[t] = owner[old]
    /\ live' = live \ {old}
    /\ known' = known \cup {t}
    /\ exchanges' = [exchanges EXCEPT ![old] = @ + 1]
    /\ WithinLimit'
    /\ UNCHANGED owner

Next ==
    \/ \E t \in Tokens, u \in Users : Issue(t, u)
    \/ \E u \in Users, S \in SUBSET Tokens : Revoke(u, S)
    \/ \E t \in Tokens : Answer(t)
    \/ \E old, t \in Tokens : Exchange(old, t)

Spec == Init /\ [][Next]_<<owner, live, known, exchanges>>
=============================================================================
